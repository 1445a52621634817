----------------------------- MODULE MCDuccPath -----------------------------
(***************************************************************************)
(* Model of mklogfile on its own.  Two names, "a" of one character and    *)
(* "bb" of two; a buffer of 8 bytes stands for PATH_MAX and a suffix of 2  *)
(* for "-<pid>.log", so that the templates below reach every boundary:    *)
(* "/a/a" fits, "/a/a/a" fits the walk but not the final name, and        *)
(* "/bb/bb/bb/a" overflows concat() at its third component and            *)
(* "/bb/bb/a/a" fills the buffer to its last byte before overflowing.     *)
(***************************************************************************)
EXTENDS DuccPath, TLC

CONSTANTS Alice, Bob   \* two ordinary users

MCNames == {"a", "b"}
MCNameLen == [n \in MCNames |-> IF n = "a" THEN 1 ELSE 2]


Dir(u, m) == [kind |-> "dir", owner |-> u, grp |-> u, mode |-> m]
Reg(u) == [kind |-> "reg", owner |-> u, grp |-> u, mode |-> "shared"]

\* "/" owned by root, everything else absent.
BareFs == [p \in Paths |-> IF p = <<>> THEN Dir(Root, "shared") ELSE NoEntry]

\* Alice's log base /a exists; /a/a is free, a regular file, or a directory.
MCInitFs ==
  { [BareFs EXCEPT ![<<"a">>] = Dir(Alice, "shared")],
    [BareFs EXCEPT ![<<"a">>] = Dir(Alice, "shared"), ![<<"a", "a">>] = Reg(Alice)],
    [BareFs EXCEPT ![<<"a">>] = Dir(Alice, "private"), ![<<"a", "a">>] = Dir(Alice, "private")],
    [BareFs EXCEPT ![<<"b">>] = Dir(Root, "open")] }

\* /a/a is a UNIX socket Alice has bound there.
MCSocketFs ==
  { [BareFs EXCEPT ![<<"a">>] = Dir(Alice, "shared"),
                   ![<<"a", "a">>] = [kind |-> "sock", owner |-> Alice, grp |-> Alice,
                                      mode |-> "shared"]] }

\* The templates as strings: "//a/a/" (strtok skips the empty components),
\* "/a/a/a", "/bb/bb/bb/a", "/bb/bb/a/a" and the relative "a/a".
MCLogTemplates ==
  { <<"/", "/", "a", "/", "a", "/">>, <<"/", "a", "/", "a", "/", "a">>,
    <<"/", "b", "/", "b", "/", "b", "/", "a">>,
    <<"/", "b", "/", "b", "/", "a", "/", "a">>, <<"a", "/", "a">> }

\* Templates without a component: "" and "/".
MCEmptyTemplates == { <<>>, <<"/">> }

MCAllTemplates == MCLogTemplates \cup MCEmptyTemplates

MCCwds == { <<>>, <<"b">> }
=============================================================================
