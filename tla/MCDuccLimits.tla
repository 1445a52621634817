---------------------------- MODULE MCDuccLimits ----------------------------
(***************************************************************************)
(* set_limits and renice on their own, for TLC: main() calls them once,   *)
(* after the identity switch, as root or as the target user.              *)
(***************************************************************************)
EXTENDS DuccLimits

CONSTANTS Alice

VARIABLE called   \* lines 635-636 have run


\* Variables the model varies; every other one is unset.
Varied == {"DUCC_RLIMIT_CPU", "DUCC_RLIMIT_STACK", "DUCC_RLIMIT_NICE", "DUCC_NICE"}
Values ==
  [ DUCC_RLIMIT_CPU   : {Unset, <<>>, <<"9">>, <<"-", "1">>, <<"x">>,
                         <<" ", "9">>, <<"9", "9">>, <<"9", "x">>},
    DUCC_RLIMIT_STACK : {Unset, <<"9">>, <<"x">>, <<"-", "1">>},
    DUCC_RLIMIT_NICE  : {Unset, <<"2", "5">>, <<"3", "0">>},
    DUCC_NICE         : {Unset, <<"-", "9">>, <<"x">>} ]
MCEnvs ==
  { [n \in EnvNames |-> IF n \in Varied THEN v[n] ELSE Unset] : v \in Values }

\* Hard limits: unlimited except a stack of 8 and a nice ceiling of 30.
MCHard == [r \in Resources |-> CASE r = "STACK" -> 8
                                 [] r = "NICE"  -> 30
                                 [] OTHER       -> RLIM_INFINITY]
MCInitSofts == { [r \in Resources |-> CASE r = "STACK" -> 8
                                        [] r = "NICE"  -> 0
                                        [] OTHER       -> RLIM_INFINITY] }

LimInit ==
  /\ env \in Envs /\ soft \in InitSofts /\ inherited = soft /\ niceness = 0
  /\ status = "running" /\ euid \in {Root, Alice} /\ ruid = euid /\ egid = euid
  /\ cwd = <<>> /\ fds = InitFds /\ outbuf = <<>> /\ written = [d \in Dests |-> <<>>]
  /\ called = FALSE

LimNext ==
  \/ /\ ~called /\ ApplyLimits /\ called' = TRUE
     /\ UNCHANGED <<status, ruid, euid, egid, cwd, fds>>
  \/ called /\ UNCHANGED <<procVars, limVars, called>>

LimSpec == LimInit /\ [][LimNext]_<<procVars, limVars, called>>

\* Once set_limits has run, every soft limit is the value of the last
\* table entry for it that the loop reached and the kernel accepted: an
\* unset variable leaves the inherited limit (spec.md 8), a value with
\* trailing characters stops the remaining entries (spec.md 4.2), and the
\* second RLIMIT_STACK entry overrides the first.
LimitsFollowTable == called => soft = ExpectedSoft(env, inherited)

\* spec.md 4.6 orders the limits before the nice adjustment, so renice()
\* runs under the RLIMIT_NICE that DUCC_RLIMIT_NICE asked for: a priority
\* raise that limit allows takes effect, and one it forbids does not,
\* unless the process is root.  An earlier malformed value stops set_limits
\* before RLIMIT_NICE (line 338), and the raise is then refused.
NiceUnderRequestedLimits ==
  called => niceness = Renice(env, 0, ExpectedSoft(env, inherited))
=============================================================================
