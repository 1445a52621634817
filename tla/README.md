# TLA+ models of ducc_ling

`ducc_ling` (`src/uima-ducc-spawn/src/ducc_ling.c`) is the small privileged
launcher the DUCC agent runs to start a job process. It drops to the job's
user, optionally builds a log directory and redirects its console to the log
file or to a TCP listener, and then `execve`s the command. This directory holds
TLA+ models of that program and the TLC configurations that check them.

## The system and its parts

The program is one single-threaded process. Its parts are the sections of
`spec.md`, and each is one or more functions of `ducc_ling.c`:

| Part | Code | State it changes | Can fail by |
|---|---|---|---|
| Path Builder | `mklogfile`, `mksubdir`, `concat` (88-198) | directories on disk, the stack buffer `buf` | exit in `concat`, NULL return |
| Identity Resolver / Dropper | `main` 574-633 | real/effective uid, effective gid | exit on unknown or root target; setgid/setuid failures are only reported |
| Resource Limit Configurator | `set_limits`, `set_one_limit`, `renice` (280-370) | soft rlimits, nice value | never exits; a malformed value only stops the loop |
| Console Redirector | `redirect_to_file`, `redirect_to_socket` (372-490) | fds 0-2 (and a new fd 3), stdio buffers | exit on every error |
| Environment Translator | `main` 657-677 | one entry of `envp`, rewritten in place | never exits |
| Launch Supervisor | `main` 511-716 | orders all of the above; prints the banner, the `0 <pid>` marker and status lines | exit(1) on every fatal condition; success is `execve` |

How they interact:
- The supervisor calls the Path Builder twice when `-f` is given. The first
  call is at line 569, before the identity switch; its result is only printed
  later. The second call, from `redirect_to_file` at line 701, comes after the
  switch and after `chdir`.
- stdout is a pipe to the agent, so stdio buffers it fully. Everything printed
  before a redirection sits in the buffer until an `fflush`. The code flushes at
  lines 383, 482, 694 and 706, and then `dup2`s a new target onto the fds. The
  agent greps stdout for the banner (050) and the `0 <pid>` marker.
- The identity the process has when it reaches the Path Builder and `open`
  decides who owns the directories and the log.
- Outside the process, other processes (the CLI, other launchers, NFS) may
  create directories on the log path at any time. `mksubdir`'s EEXIST re-stat
  exists for that race (comment at lines 106-111).

## Modules

| Module | Models | Kind |
|---|---|---|
| `DuccProc` | process-wide state: status (running, exec, exited, crashed), ruid/euid/egid, cwd, fds 0-3, the stdout buffer and what each destination received; helpers `Say`, `FlushAfter`, `Exit` | shared state |
| `DuccPath` | the Path Builder: filesystem, permissions, `mklogfile`'s frame (`mk`), and other processes creating entries; stands alone as `PathSpec` | component |
| `DuccLimits` | the Resource Limit Configurator: `strtoll` as a recursive operator, the `set_limits` loop as a recursive fold, `set_one_limit`, `renice` | component |
| `DuccSocket` | the address parsing of `redirect_to_socket`: `strchr`, `strtol` with the end-pointer check, `htons` | component (operators) |
| `DuccEnv` | the Environment Translator: the `envp` scan and the in-place `sprintf`, on the entry's bytes; stands alone as `EnvSpec` | component |
| `DuccLing` | the whole of `main`, one action per block. It uses `DuccPath` for both `mklogfile` calls, `DuccLimits` for `SetLimits` (whose limits then bind the redirection and the last flush), `DuccSocket` for the listener and `DuccEnv` for `TranslateEnv` | composition |
| `DuccLaunch` | what a launch promises (spec 4.3, 4.4, 4.6, 8): fail, or exec once with an allowed identity and the chosen streams | abstract spec |
| `MCDuccPath`, `MCDuccLimits`, `MCDuccEnv`, `MCDuccLing` | finite filesystems, templates, environments, listener values and widths for TLC | model checking |

### Correspondence with the code

**Data abstraction.**
- Identities are model values. A user's primary group is named by the user.
- File names are model values, and `NameLen` gives each its `strlen`.
- A path is a sequence of names.
- A `-f` template is a string: a sequence of names and `"/"`.
- Environment values, listener values and `envp` entries are sequences of
  one-character strings, because what the parsing and copying make of them is
  the question. The one exception is the host part of a listener value, which
  is one symbol: `"ip"` (a literal inet_aton accepts) or anything else.
- A filesystem entry is `[kind, owner, grp, mode]`:
  - the kind is none, dir, reg, sock or blk;
  - the mode is one of three classes: `private` = 0750, the mode `mksubdir`
    uses; `shared` = 0755; and `open` = 1777.
- `CanSearch`, `CanWrite` and `Reach` give the kernel's permission checks for
  these classes.
- Integers keep their width. `W` is the width of long long, long and rlim_t:
  64 in the build, 6 for TLC. `PortW` is the width of in_port_t: 16 in the
  build, 4 for TLC.
- Output lines are abstracted to their kind: `version`, `marker` or `note`.
  stderr text is not modelled, only where fd 2 points.

**DuccPath.**
- `MkStart` is the entry of `mklogfile`.
- `MkTokenize` is the `strtok` split (`Components`) into
  `path_components[MAX_COMPONENTS]`, and the leading "/" (`IsAbsolute`). It
  has two undefined outcomes:
  - more than `MAX_COMPONENTS` components (line 180): the process `Crash`es
    or goes on;
  - no component, for `""` or `"/"` (line 196): it crashes or returns a name
    with a junk stem.
- `MkComp` is one loop iteration up to `mksubdir`'s first `stat`: the
  `concat` of the component, then the stat. `HasDirBit` is the code's
  `st_mode & S_IFDIR` test, which sockets and block devices also pass.
- `MkMkdir` is `mkdir(path, 0750)` with the EEXIST re-stat.
- `SubdirOk` is the `concat(buf, "/")`, and `SubdirFailed` the NULL return.
- `MkFinal` is the last `snprintf`. It writes at most `BUFLEN-2` characters.
  `lost` counts what it cuts; it is a ghost for `PathCapacityEnforced`, since
  the code never looks at `snprintf`'s return.
- `Overflows` is `concat`'s test, `len + n + 1 > BUFLEN`.
- `OtherProcessCreates` is another process, bounded by `MaxOther`. It may
  create a directory or a regular file wherever its identity is allowed to.

**DuccLimits.**
- `StrToLL` is glibc's `strtoll`, built from two recursive operators:
  - `SkipSpace` skips blanks; an optional sign follows;
  - `AccDigits` reads the digits, with saturation at `LLONG_MIN`/`LLONG_MAX`;
  - with no digit the value is 0 and the rest is the whole string.
- `ToRlim` is the assignment to rlim_t (`% 2^W`), so `-1` becomes
  `RLIM_INFINITY`.
- `SetLimitsFrom` is the `set_limits` loop over `LimitTable`, the 16 entries
  in their order (RLIMIT_STACK twice):
  - an unset variable is skipped;
  - trailing characters return from the whole function;
  - any other value goes to `SetOneLimit`, where setrlimit fails (only
    reported) above the hard limit.
- `Renice` is `renice`:
  - `strtol` of DUCC_NICE with no end check, 10 when unset;
  - the kernel's clamping;
  - the permission to lower niceness (root or RLIMIT_NICE).
- `ApplyLimits` is lines 635-636 as one step. `DuccLing`'s `SetLimits` uses it.

**DuccSocket.** `ParseListener` is lines 418-459. It returns the error the
code exits with (1700, 1702, 1703), or the port given to `connect`.

**DuccEnv.**
- `FindPathstr` is the scan of lines 657-667, and `MatchesKey` the `strncmp`.
- `SprintfInPlace` is line 676 on the entry's bytes with its NUL:
  - `PutStr` writes the literal;
  - the `%s` bytes are copied from 5 bytes higher, forward (`CopyUp`) or as
    by memmove (`Moved`);
  - a NUL ends the result.
- `TranslateEnvp` is the whole block.

**DuccLing.**
- `pc` names the block of `main` about to run. Each action is one block,
  including every call that block makes:
  `Start`, `ParseArgs`, `Decide` (with the early `mklogfile`), `MkEarlyDone`,
  `ResolveTrusted`, `SwitchIds`, `SetLimits`, `Chdir`, `TranslateEnv`,
  `RedirectNone`, `RedirectToSocket`, `RedirectToFile` + `OpenLog` (with the
  late `mklogfile`) and `ExecCommand`.
- `ResolveTrusted` crashes when the caller is untrusted and has no passwd
  entry. This is the unchecked `getpwuid` of lines 591 and 596.
- `req` is the request, fixed at `Init`:
  - the caller and the install: setuid-root or plain;
  - whether the `ducc` account exists;
  - the `-u`, `-f` and `-w` options, and whether getopt sees a bad option;
  - the value of DUCC_CONSOLE_LISTENER, or `Unset`;
  - whether `execve` succeeds.
- `redirect_to_socket` fails with a bad address when `ParseListener` rejects
  the value. A port that parses as 0 can only fail to connect, since nothing
  listens on port 0. Otherwise there are three outcomes: a connect failure,
  a getsockname failure, and connected.
  - The getsockname failure exists because the uninitialised `namelen` makes
    that call's outcome depend on the stack.
  - When connected, `peer` records the port, and fds 0-3 point at the socket.
- `OpenLog` points fds 1-3 at the log. Both redirections leave their
  descriptor open as fd 3, as the code does.
- `TranslateEnv` is `DuccEnv`'s `TranslateEnvp`, the in-place rewrite of
  `envp`, with its status lines.
- The limits `SetLimits` applies bind the launcher itself from then on:
  - `DescriptorFree`: `open` and `socket` get the lowest free descriptor,
    3, and fail with EMFILE unless 3 is below the soft RLIMIT_NOFILE.
    `OpenLog` then exits with 1300. In `SocketOutcomes`, `socket` returns
    -1 and `connect` on it fails, so the launcher exits with 1707.
  - `FileSizeExceeded`: the flush at line 706 writes the banner and the
    1001 line (`LaunchLogBytes`, 87 bytes) into the fresh log. A soft
    RLIMIT_FSIZE below that raises SIGXFSZ, and `ExecCommand` ends in
    `Crash`.

**Refinement.**
`DuccLing` defines `Abs == INSTANCE DuccLaunch WITH ...`:
- `phase` is `launched` at a successful exec, `failed` after exit(1) or a
  crash, and `setup` otherwise;
- `runAs` is the euid/egid at exec;
- `streams` are fds 0-2 at exec;
- `environ` is the environment received (`envp0`), and `cmdEnv` is `envp`
  at exec. `Translated` is `LdRenamed`, the rename of spec.md 4.5 written
  as a reference in `DuccEnv`.

## Runs

| Run | Config | Expect | Checks |
|---|---|---|---|
| `path_race` | `MCDuccPath.cfg` | pass (23,965 states) | `WalkedDirsAreDirs`, `BufferBounded`, `PathTerminates` |
| `launch_trusted` | `MCDuccLing.cfg` | pass (201,800 states) | `BannerFirst`, `MarkerOnlyToAgent`, `MarkerReachesAgent`, `LaunchRefined` |
| `limits` | `MCDuccLimits.cfg` | pass (1,152 states) | `LimitsFollowTable`, `NiceUnderRequestedLimits` |
| `env_translate` | `MCDuccEnv.cfg` | pass (312 states) | `EnvTranslatedInPlace` |
| `exec_as_root` | `ExecAsRoot.cfg` | violation | `NeverExecAsRoot` |
| `early_log_dirs` | `EarlyLogDirs.cfg` | violation | `LogDirsMadeForLog` |
| `inherited_descriptors` | `InheritedDescriptors.cfg` | violation | `OnlyStdStreamsInherited` |
| `path_capacity` | `PathCapacity.cfg` | violation | `PathCapacityEnforced` |
| `malformed_limit_launches` | `MalformedLimit.cfg` | violation | `MalformedLimitNeverLaunches` |
| `launcher_crashes` | `LauncherCrashes.cfg` | violation | `NeverCrashes` |
| `socket_as_dir` | `SocketAsDir.cfg` | violation | `WalkedDirsAreDirs` |
| `port_misread` | `PortMisread.cfg` | violation | `ConnectsToNamedPort` |

What the passing runs show:

- **`path_race`.** `mklogfile` runs for every identity: Root before the
  switch, or a user after it. It runs on four filesystems:
  - `/a` shared, owned by Alice;
  - `/a` with a regular file `/a/a`;
  - `/a/a` private;
  - `/b` world-writable, owned by Root.

  There are seven templates: `//a/a/` (empty components), `/a/a/a`,
  `/bb/bb/bb/a`, `/bb/bb/a/a`, the relative `a/a`, `""` and `"/"`.
  `MAX_COMPONENTS` is 3, so the two four-component templates overrun the
  array, and the last two have no component. Both undefined outcomes of each
  case are explored. The working directory is `/` or `/b`. Alice and Bob
  may create up to two entries at any moment. The run shows three things:
  - every directory the walk has passed stays a directory, even when
    another user creates the entry between `stat` and `mkdir`;
  - `buf` never needs more than `BUFLEN` bytes;
  - the call always returns, exits or dies.
- **`launch_trusted`.** The callers are `ducc` and root; root is refused at
  line 526. Both installs are covered. The targets are Alice, root and an
  unknown user. `-f` is on or off, and `-w` is given or not. The listener is
  unset, `<ip>:9`, or `<ip>` without a port. `/a/bb` is absent or already
  present, owned by Alice. The limit variables come in four sets:
  - none;
  - a non-numeric DUCC_RLIMIT_CPU together with DUCC_NICE=-9;
  - DUCC_RLIMIT_NOFILE=3;
  - DUCC_RLIMIT_FSIZE=0.

  `envp` is empty or holds `DUCC_LD_LIBRARY_PATH=ab`. The run shows four
  things:
  - `main` refines `DuccLaunch` (`LaunchRefined`);
  - the first line to reach the log or the socket is the banner;
  - the `0 <pid>` marker only reaches the agent;
  - the marker has reached the agent before the command starts
    (`MarkerReachesAgent`).

  That the refinement holds means several things:
  - every exec runs as the target, or as `ducc` when the switch failed;
  - it has the streams that precedence chooses and the renamed environment;
  - setup always ends;
  - a redirection the descriptor limit prevents ends the launch cleanly.
    The launch never goes on with the agent's streams.
- **`limits`.** `set_limits` and `renice` run once, as root or as Alice.
  - **Inputs.** CPU takes 8 values (unset, `""`, `9`, `-1`, `x`, ` 9`,
    `99`, `9x`). STACK takes 4, NICE 3 (unset, 25, 30) and DUCC_NICE 3.
  - **Limits.** The hard limit of STACK is 8 and of NICE 30.
  - **Checks.**
    - Once `set_limits` has run, the soft limits are exactly what the table
      prescribes up to the first malformed value (`LimitsFollowTable`). A
      run that skipped the call or applied nothing fails it. The prescription takes the
      last entry for each resource, so the second STACK entry counts, and a
      setrlimit above the hard limit leaves that limit alone.
    - `renice` runs under the RLIMIT_NICE that `set_limits` has just set
      (`NiceUnderRequestedLimits`). With DUCC_RLIMIT_NICE=30, Alice's
      DUCC_NICE=-9 takes effect; with 25, or after a malformed CPU value
      stopped the loop, it is refused.
- **`env_translate`.** There are all 156 environments of up to three
  entries over five kinds:
  - DUCC_LD_LIBRARY_PATH with a 6-byte, a 2-byte and an empty value;
  - `DUCC_LD_LIBRARY_PATHX=a`;
  - `LD_LIBRARY_PATH=b`.

  The run shows that the in-place rewrite renames exactly the first match and
  keeps its value. It holds for a forward copy and for a memmove.

No run checks a type invariant. Any realistic change to the code that
would break one breaks one of the properties below first. Every property
of a passing run is killed by a mutant of the code (see
`mutants` in PROJECT.json). The mutants are:
- the overflow check without the NUL byte;
- `mksubdir` without the EEXIST re-stat;
- `mksubdir` retrying mkdir on EEXIST;
- setuid before setgid;
- the redirections without their `fflush`;
- `execve` without the `fflush` of line 706;
- `open`'s result used without the `fd >= 0` check;
- `renice` before `set_limits`;
- `set_limits` skipping a malformed value instead of returning;
- the `strncmp` length one short, so the `=` is not compared.

The violation runs are findings. Each takes a few steps to reach:

- **`exec_as_root`.** This happens on a setuid-root install in two ways:
  - A caller that is not `ducc` never drops privilege. The branches at
    lines 580-599 go on without a switch, and the command is exec'd as
    root, even with `-u root`.
  - A failed `setuid` (line 626, e.g. EAGAIN at RLIMIT_NPROC) is only
    reported, so the command runs as root. spec.md 8 says this never happens.
- **`early_log_dirs`.** The early `mklogfile` at line 569 runs before the
  switch, so it creates the log directories as root with mode 0750. The
  comment at line 688 claims the opposite order, and the later `open` as the
  target then fails.

  With a relative template and `-w`, the same call builds the directories
  under the launcher's first working directory. `redirect_to_file` then
  builds and uses another set under the `-w` directory.
- **`inherited_descriptors`.** The log or socket descriptor is never closed
  and is inherited by the command.
- **`path_capacity`.** Two things go wrong at the buffer limit. spec.md 4.1
  and 8 rule out both:
  - `concat` exits in the middle of the walk, after directories were
    created;
  - the final `snprintf` truncates the log name silently.
- **`malformed_limit_launches`.** A DUCC_RLIMIT value that is `""`, `-1` or
  `x` does not stop the launch:
  - `""` is applied as 0;
  - `-1` is applied as RLIM_INFINITY;
  - `x` stops the loop, but main still execs.
- **`launcher_crashes`.** The process dies of a signal instead of exiting,
  in three ways:
  - a caller without a passwd entry reaches `getpwuid(...)->pw_name`;
  - a template of `""`, or one with more components than the array, reaches
    `path_components` out of bounds;
  - a DUCC_RLIMIT_FSIZE meant for the job is already in force when line 706
    flushes the banner into the log, so SIGXFSZ kills the launcher after the
    agent has seen the `0 <pid>` marker.
- **`socket_as_dir`.** A socket at `/a/a` passes `mksubdir`'s
  `st_mode & S_IFDIR` test.
- **`port_misread`.** DUCC_CONSOLE_LISTENER ports are misread:
  - `<ip>:-1` connects to the highest port;
  - `<ip>:99` wraps in `htons`;
  - `<ip>:` is not rejected as malformed either; it is read as port 0, and
    only the `connect` fails (1707).

### Bounds

- **`MCDuccPath`.** `BUFLEN = 8`, `Depth = 3` and `MAX_COMPONENTS = 3`.
  - Names have length 1 (`a`) or 2 (`bb`, the model value `"b"`).
  - The templates are chosen to sit on both sides of the buffer limit and
    of the array:
    - `/a/a/a` fits every `concat` but not the final name, which the
      `snprintf` at line 196 truncates;
    - `/bb/bb/bb/a` overflows `concat` on its third directory;
    - `/bb/bb/a/a` fills `buf` to its last byte with `/bb/bb/` and
      overflows `concat` on its third directory, `a`;
    - both have four components, one more than the array;
    - `""` and `"/"` have none.
  - Two creations by another process, by Alice or by Bob, give both race
    outcomes: a directory the walk accepts, or a file it refuses. They also
    allow a directory and then an entry inside it.
  - `path_capacity` uses `MAX_COMPONENTS = 4`, so that the buffer is the
    only limit in play.
- **`MCDuccLing`.** `BUFLEN = 16` keeps the path short, because its questions
  are about identity and streams. One template `/a/b/a` and one working
  directory `/a` are enough. The three listener values, the two `/a/bb`
  states and the three targets reach every exit in `main`. `PortW = 4` is
  wider than the port `9` the good listener names.
  - At `W = 6`, every finite RLIMIT_FSIZE is below the 87 bytes of the last
    flush. In the build, the case is a limit below 87 bytes. NOFILE=3 is the
    largest limit that leaves no descriptor free.
  - One `envp` entry whose value is shorter than the 5-byte overlap keeps
    the composed run small. The copy orders are `MCDuccEnv`'s question.
- **`MCDuccLimits`.** `W = 6`: limits run from 0 to 63, and long long from
  -32 to 31. `99` saturates, and `-1` wraps to RLIM_INFINITY.
- **`MCDuccEnv`.** Entries keep their real names, because the 21- and
  16-byte keys decide the overlap. A value of 6 bytes is longer than the
  5-byte distance between source and destination.

### Fairness

The launcher is single-threaded, and every call it makes returns. A
`connect` with no answer returns when the kernel times out, and spec.md 5
accepts that wait. So both specifications assume weak fairness on the
launcher's own steps, `MkSteps` and `Launcher`. The other processes get no
fairness. `CHECK_DEADLOCK` is never disabled, because the terminal states
stutter explicitly (`Terminated`, `PathFinished`, the limits and env done
states).

In `DuccLing` the weak fairness of `Launcher` is written as
`LauncherFairness`: the process stops running, or it takes launcher steps
infinitely often. The two forms agree because `Launcher` has a step in
every running state. The deadlock check holds the model to that: the
other processes stop after `MaxOther` creations, so a running state
without a launcher step would end in a deadlock. The second form spares
TLC from evaluating `ENABLED Launcher` in every state, which made
`launch_trusted` about nine times slower.

## Not modelled

- **A C library whose `memcpy` copies from the top down.** glibc's
  `__memcpy_ssse3_back` is one. It would corrupt a value longer than 5
  bytes, because the `sprintf` source and destination overlap. The model
  allows only the forward and memmove copies.
- **The other limits' effect on the launcher.** These are RLIMIT_AS, DATA,
  CPU and so on. The `strdup` calls after `set_limits` are served from the
  heap that the early calls made, and the launcher ends long before any CPU
  limit. Only NOFILE and FSIZE are modelled.
- **SIGXFSZ ignored by the agent.** That disposition would be inherited, so
  the flush would fail with EFBIG instead and the last lines would be lost.
  The model takes the default action.
- **What a malformed DUCC_NICE should do.** strtol without an end check
  gives nice(0). `Renice` models this, but spec.md only calls the adjustment
  best-effort. A nice(0) also leaves the process as a refused call would,
  so no property states it.
- **`int` narrowing in `renice`.** `niceval = strtol(...)` stores a long
  in an int. A DUCC_NICE of 4294967295, or any value strtol saturates to
  LONG_MAX, becomes -1: a request for the lowest priority turns into
  nice(-1), a priority raise. It takes effect only where RLIMIT_NICE
  allows it, for instance with a DUCC_RLIMIT_NICE of 21 or more in the
  same environment. `NiceVal` keeps one width `W` for long and long long,
  as LP64 has them. A second, narrower width for int would also have to
  scale the kernel's fixed bounds of -20..19 and ±40 that `Renice` keeps
  at their real values. So this edge is recorded as a hazard rather than
  checked.
- **Supplementary groups.** They are kept because no `setgroups` is called.
- **Code that is never called.**
  - `mklogfileOld`: `mklogfile` replaced it, and no caller is left.
  - `show_env`: its only call (line 655) is commented out, and it only
    prints.
- **Text.** The text of messages and the contents of stderr.
- **After `execve`.** The launched program.
