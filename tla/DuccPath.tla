------------------------------ MODULE DuccPath ------------------------------
(***************************************************************************)
(* The log path builder of ducc_ling.c: mklogfile(), mksubdir() and        *)
(* concat().  mklogfile splits a template "c1/c2/.../stem" on '/', walks   *)
(* the intermediate components in a fixed-size buffer, makes sure each one *)
(* is a directory (creating it with mode 0750 if it is missing) and        *)
(* returns "<dirs>/<stem>-<pid>.log".                                      *)
(*                                                                         *)
(* The filesystem is a function from paths (sequences of names) to         *)
(* entries.  Other processes (the DUCC CLI pre-creating the user's log     *)
(* directory, another ducc_ling of the same job) may create entries at any *)
(* moment, in particular between mksubdir's stat() and its mkdir().        *)
(*                                                                         *)
(* Lengths are abstracted: each name has a length, and the buffer is       *)
(* BUFLEN characters (PATH_MAX in the code) including the terminating NUL. *)
(***************************************************************************)
EXTENDS DuccProc, FiniteSets

CONSTANTS
  Names,          \* path component names
  NameLen,        \* Names -> number of characters
  Depth,          \* length of the longest path the filesystem holds
  BUFLEN,         \* size of buf[] in mklogfile, NUL included
  SuffixLen,      \* length of "-<pid>.log"
  OtherUsers,     \* identities of the other processes creating entries
  MaxOther,       \* bound on creations by other processes
  InitFs,         \* the filesystems a run may start from
  LogTemplates,   \* the -f templates a run may pass
  MAX_COMPONENTS, \* entries of path_components[] (10 in the code)
  Cwds            \* the working directories a run may start in

ASSUME /\ NameLen \in [Names -> Nat \ {0}]
       /\ BUFLEN \in Nat /\ BUFLEN >= 2   \* so concat(buf, "/") at line 185 fits
       /\ SuffixLen \in Nat /\ MaxOther \in Nat
       /\ OtherUsers \subseteq Users

VARIABLES
  fs,         \* path -> entry
  mk,         \* the frame of the running mklogfile call
  made,       \* history: paths this process created with mkdir
  others      \* number of entries other processes created

pathVars == <<fs, mk, made, others>>

Paths == UNION {[1..n -> Names] : n \in 0..Depth}
Parent(p) == SubSeq(p, 1, Len(p) - 1)

(* Permission modes: "private" is 0750 (owner rwx, group r-x), "shared"    *)
(* is 0755 and "open" is 1777 (world-writable, like /tmp).                 *)
Modes == {"private", "shared", "open"}
Entries == [kind : {"none", "dir", "reg", "sock", "blk"}, owner : Users,
            grp : Users, mode : Modes]

(* The file type field of st_mode, in units of 0010000: S_IFDIR 004,       *)
(* S_IFREG 010, S_IFSOCK 014, S_IFBLK 006.  mksubdir tests the single bit *)
(* S_IFDIR (lines 96 and 114) instead of S_ISDIR, so every type whose      *)
(* code has that bit passes as a directory.                                *)
TypeCode == [dir |-> 4, reg |-> 8, sock |-> 12, blk |-> 6]
HasDirBit(k) == (TypeCode[k] \div 4) % 2 = 1
NoEntry == [kind |-> "none", owner |-> Root, grp |-> Root, mode |-> "private"]

(* A -f template is the string strtok() sees, a sequence of names and "/" *)
(* (a name stands for its characters).  The loop of lines 176-181 keeps    *)
(* the non-empty components; line 183 tests the first character.          *)
Components(t) == SelectSeq(t, LAMBDA c : c # "/")
IsAbsolute(t) == t # <<>> /\ t[1] = "/"

\* "junk" is a stem read from outside path_components[].
LogNames == [dir : Paths, stem : Names \cup {"junk"}, lost : Nat]
IdleFrame == [st |-> "idle", arg |-> NULL, tmpl |-> NULL, j |-> 0, len |-> 0,
              res |-> NULL]

(***************************************************************************)
(* Kernel semantics of lookup, stat and mkdir for identity (u, g).         *)
(***************************************************************************)
CanSearch(u, g, d) ==
  /\ fs[d].kind = "dir"
  /\ u = Root \/ fs[d].owner = u \/ fs[d].grp = g \/ fs[d].mode # "private"

CanWrite(u, g, d) ==
  /\ fs[d].kind = "dir"
  /\ u = Root \/ fs[d].owner = u \/ fs[d].mode = "open"

\* Every proper prefix of p is a directory the identity may search.
Reach(u, g, p) == \A q \in Prefixes(p) \ {p} : CanSearch(u, g, q)

\* stat(p) as the code reads it: the kind, or "none" when stat() fails.
Stat(p) == IF Reach(euid, egid, p) THEN fs[p].kind ELSE "none"

\* mkdir(p, 0750): "OK", "EEXIST", or any other errno ("EOTHER").
Mkdir(p) ==
  CASE ~Reach(euid, egid, p)           -> "EOTHER"
    [] fs[p].kind # "none"             -> "EEXIST"
    [] ~CanWrite(euid, egid, Parent(p)) -> "EOTHER"
    [] OTHER                           -> "OK"

NewDir == [kind |-> "dir", owner |-> euid, grp |-> egid, mode |-> "private"]

(***************************************************************************)
(* mklogfile.  buf holds Buf(t, k) after k components were concatenated.   *)
(* A relative template is resolved against the working directory.          *)
(***************************************************************************)
Buf(t, k) == (IF t.abs THEN <<>> ELSE cwd) \o SubSeq(t.comps, 1, k)

\* Mutant: the check forgets the byte of the terminating NUL.
OverflowsNoNul(len, n) == len + n > BUFLEN

\* concat()'s check (line 142): strlen(buf) + strlen(thing) + 1 > BUFLEN.
Overflows(len, n) == len + n + 1 > BUFLEN

\* The frame of a new call mklogfile(t) (lines 162-175).
MkStart(t) == [IdleFrame EXCEPT !.st = "tok", !.arg = t]

\* The process dies of a signal; the stdio buffer is lost with it.
Crash ==
  /\ status' = "crashed"
  /\ UNCHANGED <<outbuf, written, mk>>

(* Lines 174-186: strdup, print "Dir:", split with strtok into             *)
(* path_components[MAX_COMPONENTS] printing each component, and start buf  *)
(* with "/" for an absolute template.  Nothing bounds the split: more than *)
(* MAX_COMPONENTS components write past the array (line 180); no component *)
(* at all ("" or "/") makes line 196 read path_components[-1].  Both are  *)
(* undefined: the process crashes, or goes on with what it finds.          *)
MkTokenize ==
  /\ status = "running" /\ mk.st = "tok"
  /\ LET cs    == Components(mk.arg)
         tm    == [abs |-> IsAbsolute(mk.arg), comps |-> cs]
         frame == [mk EXCEPT !.st = "comp", !.tmpl = tm,
                             !.len = IF tm.abs THEN 1 ELSE 0]
         Go(f) == mk' = f /\ Say(Notes(1 + Len(cs))) /\ UNCHANGED status
     IN CASE Len(cs) > MAX_COMPONENTS -> Crash \/ Go(frame)
          [] cs = <<>> ->
               \/ Crash
               \/ Go([frame EXCEPT !.st = "done",
                                   !.res = [dir |-> Buf(tm, 0), stem |-> "junk",
                                            lost |-> 0]])
          [] OTHER -> Go(frame)
  /\ UNCHANGED <<ruid, euid, egid, cwd, fds, fs, made, others>>

\* mksubdir returned 1: concat(buf, "/") (line 192) and go to the next
\* component; len is strlen(buf) with the component, L the lines printed.
SubdirOk(len, L) ==
  IF Overflows(len, 1)
  THEN Exit(L) /\ UNCHANGED mk
  ELSE /\ Say(L)
       /\ mk' = [mk EXCEPT !.st = "comp", !.j = @ + 1, !.len = len + 1]
       /\ UNCHANGED status

\* mksubdir returned 0: mklogfile returns NULL (line 190).
SubdirFailed(L) ==
  /\ Say(L)
  /\ mk' = [mk EXCEPT !.st = "done", !.res = NULL]
  /\ UNCHANGED status

(* One iteration of the loop of lines 187-189 up to mksubdir's first stat: *)
(* concat the component, then stat it (lines 93-103).                     *)
MkComp ==
  /\ status = "running" /\ mk.st = "comp"
  /\ mk.j < Len(mk.tmpl.comps) - 1
  /\ LET c == mk.tmpl.comps[mk.j + 1]
         p == Buf(mk.tmpl, mk.j + 1)
     IN IF Overflows(mk.len, NameLen[c])
        THEN Exit(<<>>) /\ UNCHANGED mk
        ELSE CASE Stat(p) = "none" -> /\ Say(<<"note">>)
                                      /\ mk' = [mk EXCEPT !.st = "mkdir",
                                                          !.len = @ + NameLen[c]]
                                      /\ UNCHANGED status
               [] HasDirBit(Stat(p)) -> SubdirOk(mk.len + NameLen[c], <<"note">>)
               [] OTHER            -> SubdirFailed(<<"note">>)
  /\ UNCHANGED <<ruid, euid, egid, cwd, fds, fs, made, others>>

\* Mutant: EEXIST taken as success without the re-stat.
MkMkdirNoRestat ==
  /\ status = "running" /\ mk.st = "mkdir"
  /\ LET p == Buf(mk.tmpl, mk.j + 1) IN
     CASE Mkdir(p) = "OK" ->
            /\ fs' = [fs EXCEPT ![p] = NewDir]
            /\ made' = made \cup {p}
            /\ SubdirOk(mk.len, <<>>)
       [] Mkdir(p) = "EEXIST" ->
            /\ UNCHANGED <<fs, made>>
            /\ SubdirOk(mk.len, <<"note">>)
       [] OTHER ->
            /\ UNCHANGED <<fs, made>>
            /\ SubdirFailed(<<>>)
  /\ UNCHANGED <<ruid, euid, egid, cwd, fds, others>>

\* Mutant: mkdir retried on EEXIST until it succeeds.
MkMkdirRetry ==
  /\ status = "running" /\ mk.st = "mkdir"
  /\ LET p == Buf(mk.tmpl, mk.j + 1) IN
     CASE Mkdir(p) = "OK" ->
            /\ fs' = [fs EXCEPT ![p] = NewDir]
            /\ made' = made \cup {p}
            /\ SubdirOk(mk.len, <<>>)
       [] Mkdir(p) = "EEXIST" ->
            UNCHANGED <<procVars, fs, made, mk>>
       [] OTHER ->
            /\ UNCHANGED <<fs, made>>
            /\ SubdirFailed(<<>>)
  /\ UNCHANGED <<ruid, euid, egid, cwd, fds, others>>

(* mksubdir's mkdir (lines 104-127), including the re-stat on EEXIST that  *)
(* tolerates a concurrent creator.                                         *)
MkMkdir ==
  /\ status = "running" /\ mk.st = "mkdir"
  /\ LET p == Buf(mk.tmpl, mk.j + 1) IN
     CASE Mkdir(p) = "OK" ->
            /\ fs' = [fs EXCEPT ![p] = NewDir]
            /\ made' = made \cup {p}
            /\ SubdirOk(mk.len, <<>>)
       [] Mkdir(p) = "EEXIST" /\ Stat(p) # "none" ->
            /\ UNCHANGED <<fs, made>>
            /\ IF HasDirBit(Stat(p)) THEN SubdirOk(mk.len, <<"note">>)
                                       ELSE SubdirFailed(<<"note">>)
       [] OTHER ->                       \* perror "2100 Cannot create ..."
            /\ UNCHANGED <<fs, made>>
            /\ SubdirFailed(<<>>)
  /\ UNCHANGED <<ruid, euid, egid, cwd, fds, others>>

(* The last component is the stem: snprintf(buf, STRLEN, "%s%s-%d.log")    *)
(* (line 196) writes at most STRLEN-1 = BUFLEN-2 characters and silently   *)
(* drops the rest; "lost" counts the characters cut off.                   *)
MkFinal ==
  /\ status = "running" /\ mk.st = "comp"
  /\ mk.j = Len(mk.tmpl.comps) - 1
  /\ LET full == mk.len + NameLen[Last(mk.tmpl.comps)] + SuffixLen
         kept == IF full > BUFLEN - 2 THEN BUFLEN - 2 ELSE full
     IN mk' = [mk EXCEPT !.st = "done",
                         !.res = [dir  |-> Buf(mk.tmpl, mk.j),
                                  stem |-> Last(mk.tmpl.comps),
                                  lost |-> full - kept]]
  /\ UNCHANGED <<procVars, fs, made, others>>

MkSteps == MkTokenize \/ MkComp \/ MkMkdir \/ MkFinal

(* Another process creates a directory or a file where it has the right,   *)
(* mode 0755 (its umask 022).                                              *)
OtherProcessCreates ==
  /\ others < MaxOther
  /\ \E p \in Paths \ {<<>>}, u \in OtherUsers, k \in {"dir", "reg"} :
       /\ fs[p].kind = "none"
       /\ CanWrite(u, u, Parent(p))
       /\ Reach(u, u, p)
       /\ fs' = [fs EXCEPT ![p] = [kind |-> k, owner |-> u, grp |-> u,
                                   mode |-> "shared"]]
  /\ others' = others + 1
  /\ UNCHANGED <<procVars, mk, made>>

(***************************************************************************)
(* mklogfile on its own: one call, by a process of any identity, racing    *)
(* the other processes.  The call ends in "done" (a name or NULL) or in    *)
(* exit(1) from concat().                                                  *)
(***************************************************************************)
PathInit ==
  /\ status = "running"
  \* any identity mklogfile runs with: a user after the switch, or Root
  \* before it in a setuid-root install (real uid and group still Ducc's)
  /\ euid \in Users
  /\ ruid = IF euid = Root THEN Ducc ELSE euid
  /\ egid = ruid
  /\ cwd \in Cwds
  /\ fds = InitFds /\ outbuf = <<>> /\ written = [d \in Dests |-> <<>>]
  /\ fs \in InitFs
  /\ \E t \in LogTemplates : mk = MkStart(t)
  /\ made = {} /\ others = 0

PathFinished ==
  /\ status # "running" \/ mk.st = "done"
  /\ UNCHANGED <<procVars, pathVars>>

PathNext == MkSteps \/ OtherProcessCreates \/ PathFinished

pathAll == <<procVars, pathVars>>

\* The process is scheduled whenever it can run (weak fairness); the other
\* processes need no fairness.
PathSpec == PathInit /\ [][PathNext]_pathAll /\ WF_pathAll(MkSteps)

(***************************************************************************)
(* Properties of mklogfile.                                                *)
(***************************************************************************)

\* Every component mklogfile has walked past is a directory at every later
\* moment: mksubdir's stat/mkdir/re-stat sequence (lines 93-127) only
\* reports success for a directory, even when another process creates the
\* entry between the stat and the mkdir.  spec.md 4.1: a present component
\* that is not a directory fails with NotADirectory.
WalkedDirsAreDirs ==
  mk.st # "idle" => \A k \in 1..mk.j : fs[Buf(mk.tmpl, k)].kind = "dir"

\* The string in buf never needs more than BUFLEN bytes: every concat()
\* along the walk (lines 185, 188, 192) keeps room for the NUL.
BufferBounded == mk.st # "idle" => mk.len <= BUFLEN - 1

\* mklogfile always returns, exits or dies: the walk cannot stall, whatever
\* other processes create.
PathTerminates == <>(status \in {"exited", "crashed"} \/ mk.st = "done")

\* spec.md 4.1 and 8: the capacity of the path buffer is enforced by
\* failing with PathTooLong, which "creates no additional directories", so
\* that no name is silently truncated.  concat() only exits when it reaches
\* the long component (line 142), after mksubdir has created the ones
\* before it, and the final snprintf (line 196) truncates without failing.
PathCapacityEnforced ==
  /\ status = "exited" => made = {}
  /\ mk.res # NULL => mk.res.lost = 0
=============================================================================
