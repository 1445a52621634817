----------------------------- MODULE MCDuccLing -----------------------------
(***************************************************************************)
(* Model of a whole launch.  Alice is the usual target, Bob a caller that  *)
(* is not the ducc account, Nobody a -u name with no passwd entry.  The    *)
(* log template is "/a/b/a": Alice's log base /a, the per-job directory    *)
(* /a/bb (present or missing) and the stem "a".  The buffer is large       *)
(* enough that no name is truncated (that case is MCDuccPath's).           *)
(***************************************************************************)
EXTENDS DuccLing, TLC

CONSTANTS Alice, Bob, Nobody

MCNames == {"a", "b"}
MCNameLen == [n \in MCNames |-> IF n = "a" THEN 1 ELSE 2]

Dir(u, m) == [kind |-> "dir", owner |-> u, grp |-> u, mode |-> m]

BareFs == [p \in Paths |-> IF p = <<>> THEN Dir(Root, "shared") ELSE NoEntry]

\* Alice's log base and working directory /a exist; the job directory
\* /a/bb is missing or was made by the CLI as Alice.
MCInitFs ==
  { [BareFs EXCEPT ![<<"a">>] = Dir(Alice, "shared")],
    [BareFs EXCEPT ![<<"a">>] = Dir(Alice, "shared"),
                   ![<<"a", "b">>] = Dir(Alice, "shared")] }

MCLogTemplates == { <<"/", "a", "/", "b", "/", "a">> }
\* A relative template "b/a", the agent's directory /b open to all, and -w /a.
MCRelTemplates == { <<"b", "/", "a">> }
MCStrayCwds == { <<"b">> }
MCStrayFs ==
  { [BareFs EXCEPT ![<<"a">>] = Dir(Alice, "shared"), ![<<"b">>] = Dir(Root, "open")] }

\* DUCC_CONSOLE_LISTENER unset, "<ip>:9", or "<ip>" without a port.
MCListeners == { Unset, <<"ip", ":", "9">>, <<"ip">> }
\* Ports strtol reads differently from what they say: "", "-1" and "99".
MCOddListeners == { <<"ip", ":">>, <<"ip", ":", "-", "1">>, <<"ip", ":", "9", "9">> }

\* -f "" and "/a/b/a", the latter with more components than an array of two.
MCCrashTemplates == { <<>>, <<"/", "a", "/", "b", "/", "a">> }

\* No environment, or one DUCC_LD_LIBRARY_PATH=ab entry.
MCEnvps == { <<>>, << DuccKey \o <<"a", "b">> >> }

MCWorkDirs == { <<"a">> }
MCCwds == { <<>> }

\* No limit variable set; DUCC_RLIMIT_CPU not a number and DUCC_NICE
\* asking for a higher priority; a descriptor limit of 3, which leaves the
\* launcher no descriptor for its log or socket; a file size limit of 0.
NoEnv == [n \in EnvNames |-> Unset]
MCEnvs == { NoEnv,
            [NoEnv EXCEPT !["DUCC_RLIMIT_CPU"] = <<"x">>,
                          !["DUCC_NICE"] = <<"-", "9">>],
            [NoEnv EXCEPT !["DUCC_RLIMIT_NOFILE"] = <<"3">>],
            [NoEnv EXCEPT !["DUCC_RLIMIT_FSIZE"] = <<"0">>] }
\* Limit values that are not non-negative integers: empty, negative, text.
MCBadEnvs == { [NoEnv EXCEPT !["DUCC_RLIMIT_CPU"] = v] : v \in {<<>>, <<"-", "1">>, <<"x">>} }
MCHard == [r \in Resources |-> IF r = "NICE" THEN 0 ELSE RLIM_INFINITY]
MCInitSofts == { [r \in Resources |-> IF r = "NICE" THEN 0 ELSE RLIM_INFINITY] }
=============================================================================
