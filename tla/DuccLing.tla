------------------------------ MODULE DuccLing ------------------------------
(***************************************************************************)
(* main() of ducc_ling.c: the launch sequence, composed with the log path  *)
(* builder of DuccPath, the limits of DuccLimits, the listener parsing of *)
(* DuccSocket and the environment rewrite of DuccEnv.  pc names the block of main() the process is in:  *)
(*                                                                         *)
(*   start -> args -> decide [-> mklog_early] -> resolve [-> switch]       *)
(*     -> limits -> chdir -> env -> redirect [-> mklog_late] -> launch     *)
(*                                                                         *)
(* The inputs of one run (the caller, how the binary is installed, the     *)
(* passwd database, the command line and the environment) are the record  *)
(* req, fixed in Init.                                                     *)
(*                                                                         *)
(* A setuid-root install (the binary owned by root with the set-user-id   *)
(* bit) starts with euid Root and the caller's real uid and group; a plain *)
(* install starts with the caller's identity.                              *)
(***************************************************************************)
EXTENDS DuccPath, DuccSocket, DuccEnv

CONSTANTS
  Targets,        \* user names -u may give: identities, or unknown names
  Callers,        \* real uids ducc_ling may be started by
  Installs,       \* subset of {"setuid_root", "plain"}
  WorkDirs,       \* -w arguments
  Listeners,      \* DUCC_CONSOLE_LISTENER values, or Unset
  DuccAccount,    \* whether getpwnam("ducc") finds the account: subset of BOOLEAN
  Named,          \* the uids getpwuid() finds a passwd entry for
  SetuidMayFail   \* whether setuid() may fail for root (EAGAIN on NPROC)

ASSUME /\ Callers \subseteq Users
       /\ Installs \subseteq {"setuid_root", "plain"}
       /\ SetuidMayFail \in BOOLEAN
       /\ DuccAccount \subseteq BOOLEAN
       /\ Named \subseteq Users

VARIABLES
  pc,         \* the block of main() the process is in
  req,        \* the inputs of this run
  redirect,   \* main's "redirect" flag (lines 560-566)
  logfile,    \* main's "logfile": the result of the early mklogfile
  logs,       \* log files created: [name, owner]
  peer        \* the port connected to, NULL until connect() succeeds

lingVars == <<pc, req, redirect, logfile, logs, peer, limVars, envVars>>
vars == <<procVars, pathVars, lingVars, limVars>>

Requests ==
  [caller : Callers, install : Installs, duccExists : DuccAccount,
   user : Targets \cup {NULL}, file : LogTemplates \cup {NULL},
   wd : WorkDirs \cup {NULL}, badopt : BOOLEAN, cmd : {"ok", "bad"},
   listener : Listeners]

Init ==
  /\ req \in Requests
  /\ status = "running"
  /\ ruid = req.caller
  /\ euid = IF req.install = "setuid_root" THEN Root ELSE req.caller
  /\ egid = req.caller
  /\ cwd \in Cwds
  /\ fds = InitFds /\ outbuf = <<>> /\ written = [d \in Dests |-> <<>>]
  /\ fs \in InitFs /\ mk = IdleFrame /\ made = {} /\ others = 0
  /\ pc = "start" /\ redirect = FALSE /\ logfile = NULL /\ logs = {}
  /\ peer = NULL
  /\ env \in Envs /\ soft \in InitSofts /\ inherited = soft /\ niceness = 0
  /\ EnvInit

Goto(l) == pc' = l

(***************************************************************************)
(* The blocks of main().                                                   *)
(***************************************************************************)

\* Lines 524-530: print the banner; refuse a root caller.
Start ==
  /\ status = "running" /\ pc = "start"
  /\ IF ruid = Root
     THEN Exit(<<"version">>) /\ UNCHANGED pc
     ELSE Say(<<"version">>) /\ Goto("args") /\ UNCHANGED status
  /\ UNCHANGED <<ruid, euid, egid, cwd, fds, pathVars, req, redirect, logfile, logs, peer, limVars, envVars>>

\* Lines 532-557: getopt; -h or an unknown option calls usage(), which
\* exits; a missing -u exits with "200 missing userid".
ParseArgs ==
  /\ status = "running" /\ pc = "args"
  /\ IF req.badopt \/ req.user = NULL
     THEN Exit(<<>>) /\ UNCHANGED pc
     ELSE Goto("decide") /\ UNCHANGED <<status, outbuf, written>>
  /\ UNCHANGED <<ruid, euid, egid, cwd, fds, pathVars, req, redirect, logfile, logs, peer, limVars, envVars>>

\* Lines 560-572: the listener wins over -f; when redirecting with -f,
\* mklogfile is called right away, before any identity switch.
Decide ==
  /\ status = "running" /\ pc = "decide"
  /\ LET red == req.listener # Unset \/ req.file # NULL
         L   == IF red THEN <<"note">> ELSE <<>>
     IN /\ redirect' = red
        /\ IF red /\ req.file # NULL
           THEN /\ Say(L)
                /\ mk' = MkStart(req.file)
                /\ Goto("mklog_early")
           ELSE /\ Say(L \o <<"note">>)
                /\ Goto("resolve")
                /\ UNCHANGED mk
  /\ UNCHANGED <<status, ruid, euid, egid, cwd, fds, fs, made, others, req, logfile, logs, peer, limVars, envVars>>

\* Line 569 continued: mklogfile has returned; a NULL result is kept
\* without a check.
MkEarlyDone ==
  /\ status = "running" /\ pc = "mklog_early" /\ mk.st = "done"
  /\ logfile' = mk.res
  /\ mk' = IdleFrame
  /\ Goto("resolve")
  /\ UNCHANGED <<procVars, fs, made, others, req, redirect, logs, peer, limVars, envVars>>

\* The "ducc" account exists and is the caller: only then are ids switched.
Trusted(r) == r.duccExists /\ ruid = Ducc

\* Lines 575-600: the "0 <pid>" marker, then the trusted-account check;
\* 600, or 700 and 800, are printed when not switching.  Both print
\* getpwuid(getuid())->pw_name without checking the result (lines 581, 595):
\* a caller with no passwd entry dies there, its buffered lines unsent.
ResolveTrusted ==
  /\ status = "running" /\ pc = "resolve"
  /\ CASE Trusted(req)   -> Say(<<"marker">>) /\ Goto("switch") /\ UNCHANGED status
       [] ruid \in Named -> Say(<<"marker", "note">>) /\ Goto("limits")
                             /\ UNCHANGED status
       [] OTHER          -> Crash /\ UNCHANGED pc
  /\ UNCHANGED <<ruid, euid, egid, cwd, fds, fs, mk, made, others, req, redirect, logfile, logs, peer, limVars, envVars>>

\* setgid(g) and setuid(u) succeed for root, and for anyone when the id
\* is already one of its own; setuid may also fail for root with EAGAIN
\* when the target is at RLIMIT_NPROC (kernels before 3.1).
GidSettable(g) == euid = Root \/ g = egid
UidOutcomes(u) ==
  IF euid = Root THEN (IF SetuidMayFail THEN BOOLEAN ELSE {TRUE})
                 ELSE {u = ruid \/ u = euid}

\* Mutant: setuid before setgid; the group is then set without privilege.
SwitchIdsUidFirst ==
  /\ status = "running" /\ pc = "switch"
  /\ LET u == req.user IN
     IF u \notin Users \/ u = Root
     THEN Exit(<<>>) /\ UNCHANGED pc
     ELSE \E uidOk \in UidOutcomes(u) :
            /\ euid' = IF uidOk THEN u ELSE euid
            /\ ruid' = IF uidOk THEN u ELSE ruid
            /\ egid' = IF euid' = Root \/ u = egid THEN u ELSE egid
            /\ Say(<<"note", "note">>)
            /\ Goto("limits")
            /\ UNCHANGED <<status, cwd, fds>>
  /\ UNCHANGED <<pathVars, req, redirect, logfile, logs, peer, limVars, envVars>>

\* Lines 605-633: an unknown target or root exits; otherwise setgid then
\* setuid, each failure only reported with perror.
SwitchIds ==
  /\ status = "running" /\ pc = "switch"
  /\ LET u == req.user IN
     IF u \notin Users \/ u = Root
     THEN Exit(<<>>) /\ UNCHANGED pc
     ELSE \E uidOk \in UidOutcomes(u) :
            /\ egid' = IF GidSettable(u) THEN u ELSE egid
            /\ euid' = IF uidOk THEN u ELSE euid
            /\ ruid' = IF uidOk THEN u ELSE ruid
            /\ Say(<<"note", "note">>)
            /\ Goto("limits")
            /\ UNCHANGED <<status, cwd, fds>>
  /\ UNCHANGED <<pathVars, req, redirect, logfile, logs, peer, limVars, envVars>>

\* Lines 635-636: set_limits() and renice() (DuccLimits), after the
\* switch; neither can end the process.
SetLimits ==
  /\ status = "running" /\ pc = "limits"
  /\ ApplyLimits
  /\ Goto("chdir")
  /\ UNCHANGED <<status, ruid, euid, egid, cwd, fds, pathVars, req, redirect, logfile, logs, peer, envVars>>

\* Lines 641-650: chdir to -w, fatal on failure.
Chdir ==
  /\ status = "running" /\ pc = "chdir"
  /\ IF req.wd = NULL
     THEN Goto("env") /\ UNCHANGED <<status, cwd, outbuf, written>>
     ELSE IF Reach(euid, egid, req.wd) /\ CanSearch(euid, egid, req.wd)
          THEN /\ cwd' = req.wd /\ Say(<<"note">>) /\ Goto("env")
               /\ UNCHANGED status
          ELSE Exit(<<>>) /\ UNCHANGED pc
  /\ UNCHANGED <<ruid, euid, egid, fds, pathVars, req, redirect, logfile, logs, peer, limVars, envVars>>

\* Lines 657-685: DUCC_LD_LIBRARY_PATH is renamed in place (DuccEnv);
\* 3000 and 3002, or 3001, then 1000 with the command.
TranslateEnv ==
  /\ status = "running" /\ pc = "env"
  /\ TranslateEnvp
  /\ Say(IF FindPathstr(envp) = 0 THEN Notes(2) ELSE Notes(3))
  /\ Goto("redirect")
  /\ UNCHANGED <<status, ruid, euid, egid, cwd, fds, pathVars, req, redirect, logfile, logs, peer, limVars>>

\* Line 690: no redirection requested.
RedirectNone ==
  /\ status = "running" /\ pc = "redirect" /\ ~redirect
  /\ Goto("launch")
  /\ UNCHANGED <<procVars, pathVars, req, redirect, logfile, logs, peer, limVars, envVars>>

(***************************************************************************)
(* The limits set at line 635 bind the launcher itself from then on.       *)
(***************************************************************************)

\* open() and socket() return the lowest free descriptor, which is 3 while
\* fds 0-2 are the agent's; they fail with EMFILE unless it is below the
\* soft RLIMIT_NOFILE.
DescriptorFree == fds[3] = "closed" /\ 3 < soft["NOFILE"]

\* A write() that takes a regular file past the soft RLIMIT_FSIZE raises
\* SIGXFSZ, whose default action ends the process.
FileSizeExceeded(n) == soft["FSIZE"] # RLIM_INFINITY /\ soft["FSIZE"] < n

\* What the flush at line 706 writes to a fresh log: the banner (61 bytes
\* with the build's __DATE__ and __TIME__) and "1001 Command launching...".
LaunchLogBytes == 61 + 26

\* How redirect_to_socket can end: a malformed address exits (1700-1703);
\* socket() failing leaves sock = -1, so connect() fails with EBADF, and
\* nothing listens on port 0, so a connect() to it fails too (1707).
SocketOutcomes ==
  CASE ParseListener(req.listener).err # "none" -> {"bad_address"}
    [] ~DescriptorFree -> {"connect_failed"}
    [] ParseListener(req.listener).port = 0 -> {"connect_failed"}
    [] OTHER -> {"connect_failed", "getsockname_failed", "connected"}

\* Mutant: no fflush between the status lines of redirect_to_socket and
\* the dup2 calls.
RedirectToSocketNoFlush ==
  /\ status = "running" /\ pc = "redirect" /\ redirect
  /\ req.listener # Unset
  /\ \E outcome \in SocketOutcomes :
       IF outcome # "connected"
       THEN Exit(Notes(3)) /\ UNCHANGED <<pc, peer>>
       ELSE /\ written' = [written EXCEPT ![fds[1]] = @ \o outbuf \o <<"note">>]
            /\ fds' = [fds EXCEPT ![0] = "sock", ![1] = "sock", ![2] = "sock",
                                  ![3] = "sock"]
            /\ outbuf' = Notes(5) \o <<"version">>
                          \o (IF req.file # NULL THEN <<"note">> ELSE <<>>)
            /\ peer' = ParseListener(req.listener).port
            /\ Goto("launch")
            /\ UNCHANGED <<status, ruid, euid, egid, cwd>>
  /\ UNCHANGED <<pathVars, req, redirect, logfile, logs, limVars, envVars>>

(* Lines 691-699 with redirect_to_socket (407-490): print and fflush       *)
(* (693-694); parse "host:port" and connect, any failure exiting; the      *)
(* getsockname() call reads the uninitialised namelen, so it may fail and *)
(* exit too.  On success: fflush (482-483), dup2 the socket onto 0, 1 and  *)
(* 2 (the socket itself stays open as fd 3), then the banner and, with -f, *)
(* "1002 CONSOLE_REDIRECT".                                                *)
RedirectToSocket ==
  /\ status = "running" /\ pc = "redirect" /\ redirect
  /\ req.listener # Unset
  /\ \E outcome \in SocketOutcomes :
       IF outcome # "connected"
       THEN Exit(Notes(3)) /\ UNCHANGED <<pc, peer>>
       ELSE /\ written' = [written EXCEPT ![fds[1]] = @ \o outbuf \o Notes(6)]
            /\ fds' = [fds EXCEPT ![0] = "sock", ![1] = "sock", ![2] = "sock",
                                  ![3] = "sock"]
            /\ outbuf' = <<"version">> \o (IF req.file # NULL THEN <<"note">> ELSE <<>>)
            /\ peer' = ParseListener(req.listener).port
            /\ Goto("launch")
            /\ UNCHANGED <<status, ruid, euid, egid, cwd>>
  /\ UNCHANGED <<pathVars, req, redirect, logfile, logs, limVars, envVars>>

\* Line 701 and 375: redirect_to_file first calls mklogfile again, now
\* with the switched identity and after the chdir.
RedirectToFile ==
  /\ status = "running" /\ pc = "redirect" /\ redirect
  /\ req.listener = Unset
  /\ mk' = MkStart(req.file)
  /\ UNCHANGED <<outbuf, written>>
  /\ Goto("mklog_late")
  /\ UNCHANGED <<status, ruid, euid, egid, cwd, fds, fs, made, others, req, redirect, logfile, logs, peer, limVars, envVars>>

\* open(logfile, O_CREAT|O_WRONLY|O_TRUNC, 0644) needs a reachable
\* directory the process may write.
CanCreateLog(n) ==
  /\ Reach(euid, egid, n.dir) /\ CanSearch(euid, egid, n.dir)
  /\ CanWrite(euid, egid, n.dir)

\* Mutant: no fflush before the log is opened and dup2'ed.
OpenLogNoFlush ==
  /\ status = "running" /\ pc = "mklog_late" /\ mk.st = "done"
  /\ mk' = IdleFrame
  /\ IF mk.res # NULL /\ CanCreateLog(mk.res) /\ DescriptorFree
     THEN /\ UNCHANGED written
          /\ logs' = logs \cup {[name |-> mk.res, owner |-> euid]}
          /\ fds' = [fds EXCEPT ![1] = "log", ![2] = "log", ![3] = "log"]
          /\ outbuf' = outbuf \o <<"note", "version">>
          /\ Goto("launch")
          /\ UNCHANGED <<status, ruid, euid, egid, cwd>>
     ELSE /\ Exit(IF mk.res = NULL THEN <<>> ELSE <<"note">>)
          /\ UNCHANGED <<pc, logs>>
  /\ UNCHANGED <<fs, made, others, req, redirect, logfile, peer, limVars, envVars>>

\* Mutant: the result of open() used without the fd >= 0 check; dup2 of
\* -1 fails and the streams stay where they were.
OpenLogUnchecked ==
  /\ status = "running" /\ pc = "mklog_late" /\ mk.st = "done"
  /\ mk' = IdleFrame
  /\ IF mk.res # NULL
     THEN LET opened == CanCreateLog(mk.res) /\ DescriptorFree IN
          /\ written' = [written EXCEPT ![fds[1]] = @ \o outbuf \o <<"note">>]
          /\ logs' = IF opened THEN logs \cup {[name |-> mk.res, owner |-> euid]}
                              ELSE logs
          /\ fds' = IF opened THEN [fds EXCEPT ![1] = "log", ![2] = "log", ![3] = "log"]
                             ELSE fds
          /\ outbuf' = <<"version">>
          /\ Goto("launch")
          /\ UNCHANGED <<status, ruid, euid, egid, cwd>>
     ELSE Exit(<<>>) /\ UNCHANGED <<pc, logs>>
  /\ UNCHANGED <<fs, made, others, req, redirect, logfile, peer, limVars, envVars>>

(* Lines 376-399: exit if mklogfile failed; print 1200 and fflush; open    *)
(* the log (fatal on failure: no permission on the directory, or EMFILE   *)
(* under RLIMIT_NOFILE); dup2 it onto 1 and 2 (it stays open as fd        *)
(* 3); print the banner.                                                   *)
OpenLog ==
  /\ status = "running" /\ pc = "mklog_late" /\ mk.st = "done"
  /\ mk' = IdleFrame
  /\ IF mk.res # NULL /\ CanCreateLog(mk.res) /\ DescriptorFree
     THEN /\ written' = [written EXCEPT ![fds[1]] = @ \o outbuf \o <<"note">>]
          /\ logs' = logs \cup {[name |-> mk.res, owner |-> euid]}
          /\ fds' = [fds EXCEPT ![1] = "log", ![2] = "log", ![3] = "log"]
          /\ outbuf' = <<"version">>
          /\ Goto("launch")
          /\ UNCHANGED <<status, ruid, euid, egid, cwd>>
     ELSE /\ Exit(IF mk.res = NULL THEN <<>> ELSE <<"note">>)
          /\ UNCHANGED <<pc, logs>>
  /\ UNCHANGED <<fs, made, others, req, redirect, logfile, peer, limVars, envVars>>

\* Mutant: execve without the fflush of line 706; what stdout still
\* buffers is discarded with the old image.
ExecCommandNoFlush ==
  /\ status = "running" /\ pc = "launch"
  /\ IF fds[1] = "log" /\ FileSizeExceeded(LaunchLogBytes)
     THEN Crash
     ELSE /\ UNCHANGED <<outbuf, written>>
          /\ status' = IF req.cmd = "ok" THEN "exec" ELSE "exited"
  /\ UNCHANGED <<ruid, euid, egid, cwd, fds, pathVars, lingVars, limVars>>

\* Lines 705-716: "1001 Command launching...", fflush, execve; if execve
\* returns, perror and exit(1).  The flush into a log beyond the file size
\* limit kills the process.
ExecCommand ==
  /\ status = "running" /\ pc = "launch"
  /\ IF fds[1] = "log" /\ FileSizeExceeded(LaunchLogBytes)
     THEN Crash
     ELSE /\ FlushAfter(<<"note">>)
          /\ status' = IF req.cmd = "ok" THEN "exec" ELSE "exited"
  /\ UNCHANGED <<ruid, euid, egid, cwd, fds, pathVars, lingVars, limVars>>

\* The process has become the command, or has exited.
Terminated ==
  /\ status # "running"
  /\ UNCHANGED vars

Launcher ==
  \/ Start \/ ParseArgs \/ Decide \/ MkEarlyDone \/ ResolveTrusted
  \/ SwitchIds \/ SetLimits \/ Chdir \/ TranslateEnv
  \/ RedirectNone \/ RedirectToSocket \/ RedirectToFile \/ OpenLog
  \/ ExecCommand
  \/ MkSteps /\ UNCHANGED <<lingVars, limVars>>

Next ==
  \/ Launcher
  \/ OtherProcessCreates /\ UNCHANGED <<lingVars, limVars>>
  \/ Terminated

(* ducc_ling is single-threaded and every call it makes returns (a        *)
(* connect() that gets no answer times out), so the process keeps running  *)
(* while it can: weak fairness of Launcher.  Other processes need none.    *)
(* Launcher has a step in every running state (each block has a step for  *)
(* each outcome; TLC's deadlock check holds it to that, since the other    *)
(* processes stop after MaxOther creations), so WF_vars(Launcher) says     *)
(* the process stops running or keeps taking steps; it is written that way *)
(* because TLC then need not evaluate ENABLED Launcher in every state.     *)
LauncherFairness == <>(status # "running") \/ []<><<Launcher>>_vars

Spec == Init /\ [][Next]_vars /\ LauncherFairness

(***************************************************************************)
(* Refinement: main() implements DuccLaunch.  The launch is the execve     *)
(* that succeeds; the identity, streams and environment are those the      *)
(* process has at that moment.                                             *)
(***************************************************************************)
Abs == INSTANCE DuccLaunch WITH
         phase   <- CASE status = "exec"   -> "launched"
                      [] status \in {"exited", "crashed"} -> "failed"
                      [] OTHER             -> "setup",
         runAs   <- IF status = "exec" THEN [uid |-> euid, gid |-> egid] ELSE NULL,
         streams <- IF status = "exec"
                    THEN [in |-> fds[0], out |-> fds[1], err |-> fds[2]]
                    ELSE NULL,
         environ <- envp0,
         cmdEnv  <- IF status = "exec" THEN envp ELSE NULL,
         Translated <- LdRenamed

\* Every run of main() is a run of DuccLaunch: it fails or execs the
\* command once, never as root, as the target or (switch failed) as the
\* trusted account, with the streams precedence chooses and the library
\* path variable renamed; setup ends.
LaunchRefined == Abs!Spec

(***************************************************************************)
(* Properties of the output the agent and the console listener read.       *)
(***************************************************************************)

\* The first line to reach the log file or the console socket is the
\* version banner (spec.md 4.4): every status line printed before the
\* dup2 in redirect_to_file / redirect_to_socket was flushed to the agent
\* first (lines 383-384, 482-483, 694).
BannerFirst ==
  \A d \in {"log", "sock"} : written[d] # <<>> => Head(written[d]) = "version"

\* The "0 <pid>" marker the agent greps for (line 575) reaches the agent's
\* stdout and no other destination, although it is only flushed when the
\* redirection starts or the process ends.
MarkerOnlyToAgent ==
  \A d \in Dests \ {"agent_out"} : ~Contains(written[d], "marker")

\* The agent learns that setup passed from the "0 <pid>" marker (line 575),
\* so the command never starts before the marker has reached the agent's
\* stdout, whichever redirection follows; stdio buffers die with the old
\* image at execve, and only the fflush calls of lines 383, 482, 694 and
\* 706 push the marker out.
MarkerReachesAgent ==
  status = "exec" => Contains(written["agent_out"], "marker")

(***************************************************************************)
(* Properties about privilege.                                             *)
(***************************************************************************)

\* spec.md 8: the process never reaches the handoff with effective uid 0,
\* whoever calls it and however setuid() fares (lines 593-633).
NeverExecAsRoot == status = "exec" => euid # Root

\* spec.md 7: a malformed limit value is a configuration error, so the
\* launcher exits and the command never runs.  set_limits (line 338)
\* only prints 4010 on stderr and returns, and main goes on to execve.
MalformedLimitNeverLaunches == status = "exec" => ~Malformed(env)

\* spec.md 4.4 and 9: a listener value whose port is not numeric is
\* rejected, and the launcher connects to the port the value names.
\* redirect_to_socket (lines 429-434, 459) takes an empty port as 0 (strtol
\* reads no digit and en points at the NUL), accepts a sign and leading
\* blanks, and htons() keeps only the low 16 bits of the number.
ConnectsToNamedPort ==
  peer # NULL => /\ IsNonNegInteger(PortName(req.listener))
                 /\ RefStrToLL(PortName(req.listener)).val = peer

\* spec.md 5: every failure ends the launcher with a non-zero exit status
\* and a diagnostic; it never dies of a signal.  main dereferences the
\* result of getpwuid (lines 591, 596) without a NULL check, and
\* mklogfile indexes path_components[] without a bound (lines 180, 196).
NeverCrashes == status # "crashed"

\* spec.md 1, 4.1 and 4.4, and the comment at line 688: the log directories
\* are set up after the identity switch, so the launcher creates nothing
\* with the privilege it drops, and only the directories of the log it
\* opens.  main calls mklogfile at line 569, before the switch of lines
\* 605-633 and the chdir of line 642, and again at line 701 after both; a
\* relative template is resolved in two different directories.
LogDirsMadeForLog ==
  \A p \in made : /\ fs[p].owner # Root
                 /\ \A l \in logs : IsPrefix(p, l.name.dir)

(***************************************************************************)
(* Descriptors handed to the command.                                      *)
(***************************************************************************)

\* spec.md 5 and 9: the streams are replaced by duplicate-and-close; the
\* command inherits only fds 0-2.  Neither redirect_to_file nor
\* redirect_to_socket closes the descriptor it duplicated (lines 387-391,
\* 462-487) and neither sets close-on-exec.
OnlyStdStreamsInherited == status = "exec" => fds[3] = "closed"
=============================================================================
