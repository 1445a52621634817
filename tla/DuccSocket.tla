----------------------------- MODULE DuccSocket -----------------------------
(***************************************************************************)
(* The address parsing of redirect_to_socket() (lines 407-462): what the   *)
(* launcher makes of DUCC_CONSOLE_LISTENER before it connects.  A value is *)
(* a sequence of one-character strings, except that the host part is      *)
(* abstracted to one symbol: "ip" for a dotted IPv4 literal inet_aton()   *)
(* accepts, "name" for anything else.  The port goes through strtol (the   *)
(* StrToLL of DuccLimits, long having the width W), is assigned to an int  *)
(* and then given to htons(), which keeps its low PortW bits (16 in the   *)
(* build).                                                                 *)
(***************************************************************************)
EXTENDS DuccLimits

CONSTANT PortW   \* bits of in_port_t

\* The result of parsing: the error the code exits with, or "none" and the
\* port that connect() is given.
ParseListener(s) ==
  LET c        == SelectInSeq(s, LAMBDA x : x = ":")
      host     == SubSeq(s, 1, c - 1)
      portname == SubSeq(s, c + 1, Len(s))
      p        == StrToLL(portname)
  IN CASE c = 0            -> [err |-> "missing_port", port |-> 0]   \* 1700
       [] p.rest # <<>>    -> [err |-> "not_numeric", port |-> 0]    \* 1702
       [] host # <<"ip">>  -> [err |-> "bad_ip", port |-> 0]         \* 1703
       [] OTHER            -> [err |-> "none", port |-> p.val % 2^PortW]

\* The port text of a listener value that has a colon.
PortName(s) == SubSeq(s, SelectInSeq(s, LAMBDA x : x = ":") + 1, Len(s))
====
