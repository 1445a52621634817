------------------------------ MODULE DuccEnv ------------------------------
(***************************************************************************)
(* The Environment Translator of ducc_ling.c (main, lines 657-677): find   *)
(* the first envp entry that starts with "DUCC_LD_LIBRARY_PATH=", and      *)
(* rewrite it in place: sprintf( *pathstr, "LD_LIBRARY_PATH=%s", val),   *)
(* where val = getenv("DUCC_LD_LIBRARY_PATH") points into that same entry, *)
(* 21 bytes after its start.                                               *)
(*                                                                         *)
(* An entry is the sequence of its characters; the in-place rewrite is     *)
(* modelled on the entry's bytes with its terminating NUL.  Copying a      *)
(* string onto an overlapping one is undefined (C 7.21.6.6); the C        *)
(* libraries in use copy %s forward byte by byte or as by memmove, and     *)
(* CopyOrders chooses among these.                                         *)
(***************************************************************************)
EXTENDS Naturals, Sequences, SequencesExt

CONSTANTS
  Envps,       \* the environments the launcher may receive
  CopyOrders   \* subset of {"forward", "memmove"}

VARIABLES
  envp,        \* the environment array, entry by entry
  envp0,       \* the environment as received (history only)
  translated   \* the block of lines 657-677 has run

envVars == <<envp, envp0, translated>>

NUL == "\\0"

DuccKey == <<"D", "U", "C", "C", "_", "L", "D", "_", "L", "I", "B", "R", "A",
             "R", "Y", "_", "P", "A", "T", "H", "=">>
\* "LD_LIBRARY_PATH=", the last 16 characters of DuccKey.
LdKey == SubSeq(DuccKey, 6, Len(DuccKey))

\* Mutant: the compared length one short, so the '=' is not compared.
MatchesKeyShort(e) == IsPrefix(SubSeq(DuccKey, 1, Len(DuccKey) - 1), e)

\* strncmp(e, "DUCC_LD_LIBRARY_PATH=", strlen(...)) == 0
MatchesKey(e) == IsPrefix(DuccKey, e)

\* The loop of lines 661-669: the index of the first match, 0 for none.
FindPathstr(ep) == SelectInSeq(ep, MatchesKey)

(***************************************************************************)
(* sprintf into the bytes b (1-based, NUL-terminated) at offset 1: the     *)
(* literal, then the string at offset s, then a NUL.                       *)
(***************************************************************************)
RECURSIVE PutStr(_, _, _)
PutStr(b, d, str) ==
  IF str = <<>> THEN b ELSE PutStr([b EXCEPT ![d] = Head(str)], d + 1, Tail(str))

\* strlen of the string at offset s of b.
StrLenAt(b, s) == SelectInSeq(SubSeq(b, s, Len(b)), LAMBDA c : c = NUL) - 1

\* Copy n bytes from s to d, lowest address first.
RECURSIVE CopyUp(_, _, _, _)
CopyUp(b, d, s, n) ==
  IF n = 0 THEN b ELSE CopyUp([b EXCEPT ![d] = b[s]], d + 1, s + 1, n - 1)

\* The same n bytes moved as by memmove: each read before any write.
Moved(b, d, s, n) == [i \in DOMAIN b |-> IF i \in d..d + n - 1 THEN b[s + i - d] ELSE b[i]]

\* The string left in entry e by the sprintf, the %s copy done in order o.
SprintfInPlace(e, o) ==
  LET b0 == e \o <<NUL>>
      s  == Len(DuccKey) + 1
      n  == StrLenAt(b0, s)
      d  == Len(LdKey) + 1
      b1 == PutStr(b0, 1, LdKey)
      b2 == IF o = "forward" THEN CopyUp(b1, d, s, n) ELSE Moved(b1, d, s, n)
      b3 == [b2 EXCEPT ![d + n] = NUL]
  IN SubSeq(b3, 1, SelectInSeq(b3, LAMBDA c : c = NUL) - 1)

EnvInit ==
  /\ envp \in Envps /\ envp0 = envp /\ translated = FALSE

(* Lines 657-677 as one step: no match prints 3001 and leaves envp alone;  *)
(* a match is rewritten in place.                                          *)
TranslateEnvp ==
  /\ ~translated
  /\ LET k == FindPathstr(envp) IN
     IF k = 0 THEN UNCHANGED envp
     ELSE \E o \in CopyOrders : envp' = [envp EXCEPT ![k] = SprintfInPlace(@, o)]
  /\ translated' = TRUE
  /\ UNCHANGED envp0

EnvNext == TranslateEnvp \/ (translated /\ UNCHANGED envVars)

EnvSpec == EnvInit /\ [][EnvNext]_envVars

(***************************************************************************)
(* Properties                                                              *)
(***************************************************************************)

(* spec.md 4.5, as a reference: the first entry whose name is             *)
(* DUCC_LD_LIBRARY_PATH is renamed LD_LIBRARY_PATH and keeps its value.    *)
LdRenamed(ep) ==
  LET IsDucc(e) == Len(e) >= Len(DuccKey) /\ SubSeq(e, 1, Len(DuccKey)) = DuccKey
      k == SelectInSeq(ep, IsDucc)
  IN [i \in DOMAIN ep |-> IF i = k THEN LdKey \o SubSeq(ep[i], Len(DuccKey) + 1, Len(ep[i]))
                                   ELSE ep[i]]

\* spec.md 4.5: the first DUCC_LD_LIBRARY_PATH entry is renamed to
\* LD_LIBRARY_PATH with its value preserved, and no other entry changes.
\* The rewrite copies the value onto itself 5 bytes lower (line 676), and
\* the match at line 662 must not take a longer name for this one.
EnvTranslatedInPlace == translated => envp = LdRenamed(envp0)
====
