----------------------------- MODULE DuccLimits -----------------------------
(***************************************************************************)
(* The Resource Limit Configurator of ducc_ling.c: set_limits(),           *)
(* set_one_limit() and renice(), which main() calls one after the other    *)
(* (lines 635-636).                                                        *)
(*                                                                         *)
(* An environment value is a sequence of one-character strings, because    *)
(* what strtoll() makes of it is the point.  long long, long and rlim_t    *)
(* keep their width as the constant W (64 in the build, smaller for TLC):  *)
(* strtoll saturates at LLONG_MIN/LLONG_MAX, and the assignment to rlim_t *)
(* reduces modulo 2^W, so "-1" becomes RLIM_INFINITY.                      *)
(***************************************************************************)
EXTENDS DuccProc, Integers

CONSTANTS
  W,          \* bits of long long, long and rlim_t
  Unset,      \* getenv() returned NULL
  Envs,       \* the environments the launcher may be started with
  InitSofts,  \* the soft limits it may inherit: resource -> rlim value
  Hard        \* the hard limits, which nothing here changes

VARIABLES
  env,        \* variable name -> string or Unset; never changed
  soft,       \* resource -> soft limit (rlim_cur)
  niceness,   \* the nice value of the process
  inherited   \* the soft limits the process started with (history only)

limVars == <<env, soft, niceness, inherited>>

LLONG_MAX == 2^(W - 1) - 1
LLONG_MIN == -(2^(W - 1))
RLIM_INFINITY == 2^W - 1

\* The table of set_limits (lines 306-325, Linux build), in its order;
\* RLIMIT_STACK appears twice.
LimitTable ==
  << [name |-> "DUCC_RLIMIT_CORE",       res |-> "CORE"],
     [name |-> "DUCC_RLIMIT_CPU",        res |-> "CPU"],
     [name |-> "DUCC_RLIMIT_DATA",       res |-> "DATA"],
     [name |-> "DUCC_RLIMIT_FSIZE",      res |-> "FSIZE"],
     [name |-> "DUCC_RLIMIT_MEMLOCK",    res |-> "MEMLOCK"],
     [name |-> "DUCC_RLIMIT_NOFILE",     res |-> "NOFILE"],
     [name |-> "DUCC_RLIMIT_NPROC",      res |-> "NPROC"],
     [name |-> "DUCC_RLIMIT_RSS",        res |-> "RSS"],
     [name |-> "DUCC_RLIMIT_STACK",      res |-> "STACK"],
     [name |-> "DUCC_RLIMIT_AS",         res |-> "AS"],
     [name |-> "DUCC_RLIMIT_LOCKS",      res |-> "LOCKS"],
     [name |-> "DUCC_RLIMIT_SIGPENDING", res |-> "SIGPENDING"],
     [name |-> "DUCC_RLIMIT_MSGQUEUE",   res |-> "MSGQUEUE"],
     [name |-> "DUCC_RLIMIT_NICE",       res |-> "NICE"],
     [name |-> "DUCC_RLIMIT_STACK",      res |-> "STACK"],
     [name |-> "DUCC_RLIMIT_RTPRIO",     res |-> "RTPRIO"] >>

Resources == {LimitTable[i].res : i \in DOMAIN LimitTable}
LimitNames == {LimitTable[i].name : i \in DOMAIN LimitTable}
EnvNames == LimitNames \cup {"DUCC_NICE"}

(***************************************************************************)
(* strtoll(s, &en, 10), as glibc does it: skip isspace, an optional sign,  *)
(* the longest run of digits with saturation; no digit at all gives 0 and  *)
(* en = s.  "rest" is the string at en.                                    *)
(***************************************************************************)
Spaces == {" ", "\t", "\n"}
DigitChars == <<"0", "1", "2", "3", "4", "5", "6", "7", "8", "9">>
IsDigit(c) == \E i \in DOMAIN DigitChars : DigitChars[i] = c
DigitVal(c) == CHOOSE d \in 0..9 : DigitChars[d + 1] = c

RECURSIVE SkipSpace(_)
SkipSpace(s) == IF s # <<>> /\ s[1] \in Spaces THEN SkipSpace(Tail(s)) ELSE s

\* The digit loop; the magnitude is capped one past what any result needs.
RECURSIVE AccDigits(_, _)
AccDigits(acc, s) ==
  IF s # <<>> /\ IsDigit(s[1])
  THEN AccDigits(IF acc > 2^(W - 1) THEN acc ELSE acc * 10 + DigitVal(s[1]),
                 Tail(s))
  ELSE [mag |-> acc, rest |-> s]

StrToLL(s) ==
  LET t   == SkipSpace(s)
      neg == t # <<>> /\ t[1] = "-"
      u   == IF t # <<>> /\ t[1] \in {"+", "-"} THEN Tail(t) ELSE t
      d   == AccDigits(0, u)
  IN IF u = <<>> \/ ~IsDigit(u[1])
     THEN [val |-> 0, rest |-> s]
     ELSE [val |-> IF neg THEN IF d.mag > 2^(W - 1) THEN LLONG_MIN ELSE -d.mag
                          ELSE IF d.mag > LLONG_MAX THEN LLONG_MAX ELSE d.mag,
           rest |-> d.rest]

\* The conversion of the long long to rlim_t (line 335).
ToRlim(v) == v % 2^W

(***************************************************************************)
(* set_one_limit (lines 280-302): rlim_cur = val; setrlimit fails with     *)
(* EINVAL when the soft limit would exceed the hard one, and the failure   *)
(* is only reported.  It prints 4000 and 4030, and 4040 on success.        *)
(***************************************************************************)
SetOneLimit(r, v, acc) ==
  IF v <= Hard[r]
  THEN [acc EXCEPT !.soft[r] = v, !.lines = @ + 3]
  ELSE [acc EXCEPT !.lines = @ + 2]

\* Mutant: a non-numeric value skips that entry and the loop goes on.
RECURSIVE SetLimitsFromNoAbort(_, _, _)
SetLimitsFromNoAbort(i, e, acc) ==
  IF i > Len(LimitTable) THEN acc
  ELSE LET ent == LimitTable[i]
           p   == StrToLL(e[ent.name])
       IN IF e[ent.name] = Unset \/ p.rest # <<>>
          THEN SetLimitsFromNoAbort(i + 1, e, acc)
          ELSE SetLimitsFromNoAbort(i + 1, e, SetOneLimit(ent.res, ToRlim(p.val), acc))

(***************************************************************************)
(* The loop of set_limits (lines 329-347) from entry i on: an unset        *)
(* variable is skipped; a value with characters after the number ends the  *)
(* whole function (line 338 "return", reported on stderr only); any other  *)
(* value is converted and set.                                             *)
(***************************************************************************)
RECURSIVE SetLimitsFrom(_, _, _)
SetLimitsFrom(i, e, acc) ==
  IF i > Len(LimitTable) THEN acc
  ELSE LET ent == LimitTable[i]
           p   == StrToLL(e[ent.name])
       IN CASE e[ent.name] = Unset -> SetLimitsFrom(i + 1, e, acc)
            [] p.rest # <<>>       -> acc
            [] OTHER -> SetLimitsFrom(i + 1, e, SetOneLimit(ent.res, ToRlim(p.val), acc))

(***************************************************************************)
(* renice (lines 351-364): DUCC_NICE through strtol with the end pointer   *)
(* never looked at, 10 when unset; then nice(niceval).  The kernel clamps  *)
(* the increment to [-40, 40] and the result to [-20, 19], and refuses a   *)
(* negative increment (EPERM, reported only) unless the process is root   *)
(* or 20 - result is within its RLIMIT_NICE soft limit.                    *)
(***************************************************************************)
Clamp(v, lo, hi) == IF v < lo THEN lo ELSE IF v > hi THEN hi ELSE v
NiceVal(e) == IF e["DUCC_NICE"] = Unset THEN 10 ELSE StrToLL(e["DUCC_NICE"]).val
CanNice(n, lims) ==
  euid = Root \/ lims["NICE"] = RLIM_INFINITY \/ 20 - n <= lims["NICE"]
Renice(e, cur, lims) ==
  LET inc == Clamp(NiceVal(e), -40, 40)
      n   == Clamp(cur + inc, -20, 19)
  IN IF inc < 0 /\ ~CanNice(n, lims) THEN cur ELSE n

\* Mutant: renice() before set_limits(), under the limits inherited.
ApplyLimitsReniceFirst ==
  LET r == SetLimitsFrom(1, env, [soft |-> soft, lines |-> 0])
  IN /\ soft' = r.soft
     /\ niceness' = Renice(env, niceness, soft)
     /\ Say(Notes(r.lines + 1))
     /\ UNCHANGED <<env, inherited>>

(***************************************************************************)
(* Lines 635-636: set_limits() then renice(); neither can end the process. *)
(* The lines printed are 4000/4030/4040 per limit and 4050.                *)
(***************************************************************************)
ApplyLimits ==
  LET r == SetLimitsFrom(1, env, [soft |-> soft, lines |-> 0])
  IN /\ soft' = r.soft
     /\ niceness' = Renice(env, niceness, r.soft)
     /\ Say(Notes(r.lines + 1))
     /\ UNCHANGED <<env, inherited>>

(***************************************************************************)
(* What spec.md (4.2, 7, 8) says, in its own terms: a value is an integer  *)
(* when it is a non-empty string of digits; anything else set is malformed *)
(* and a configuration error.                                              *)
(***************************************************************************)
IsNonNegInteger(s) == s # <<>> /\ \A i \in DOMAIN s : IsDigit(s[i])
Malformed(e) == \E n \in LimitNames : e[n] # Unset /\ ~IsNonNegInteger(e[n])

(***************************************************************************)
(* Reference definitions, written from the C standard (7.22.1.4) and from *)
(* what set_limits is for rather than from its loop.                       *)
(***************************************************************************)
\* strtoll: s = spaces, at most one sign, a maximal non-empty run of
\* digits, the rest; the value of the digits with the sign, saturated.
RefStrToLL(s) ==
  LET N == 0..Len(s)
      Splits == {x \in N \X N \X N :
                   /\ x[1] <= x[2] /\ x[2] <= x[1] + 1 /\ x[2] < x[3]
                   /\ \A i \in 1..x[1] : s[i] \in Spaces
                   /\ x[2] = x[1] + 1 => s[x[2]] \in {"+", "-"}
                   /\ \A i \in x[2] + 1..x[3] : IsDigit(s[i])
                   /\ x[3] < Len(s) => ~IsDigit(s[x[3] + 1])}
  IN IF Splits = {} THEN [val |-> 0, rest |-> s]
     ELSE LET x == CHOOSE x \in Splits : TRUE
              m == SumFunction([i \in x[2] + 1..x[3] |-> DigitVal(s[i]) * 10^(x[3] - i)])
              v == IF x[2] > x[1] /\ s[x[2]] = "-" THEN -m ELSE m
          IN [val |-> Clamp(v, LLONG_MIN, LLONG_MAX),
              rest |-> SubSeq(s, x[3] + 1, Len(s))]

\* The entries set_limits reaches: those before the first value with
\* trailing characters.
Reached(e) ==
  LET Bad == {i \in DOMAIN LimitTable :
                e[LimitTable[i].name] # Unset
                /\ StrToLL(e[LimitTable[i].name]).rest # <<>>}
  IN {i \in DOMAIN LimitTable : \A j \in Bad : i < j}

\* The soft limits after set_limits: each resource takes the converted
\* value of the last reached entry for it that the kernel accepts.
ExpectedSoft(e, s0) ==
  [r \in Resources |->
     LET Val(i) == ToRlim(StrToLL(e[LimitTable[i].name]).val)
         Eff == {i \in Reached(e) : LimitTable[i].res = r
                                    /\ e[LimitTable[i].name] # Unset
                                    /\ Val(i) <= Hard[r]}
     IN IF Eff = {} THEN s0[r] ELSE Val(Max(Eff))]

=============================================================================
