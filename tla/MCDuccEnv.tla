----------------------------- MODULE MCDuccEnv -----------------------------
(***************************************************************************)
(* The Environment Translator on environments of up to three entries: a   *)
(* DUCC_LD_LIBRARY_PATH with a six-byte value (longer than the 5-byte      *)
(* distance between source and destination), one with a short and one     *)
(* with an empty value, a longer name that only shares the prefix, and    *)
(* a plain LD_LIBRARY_PATH.                                                *)
(***************************************************************************)
EXTENDS DuccEnv

Ducc(v) == DuccKey \o v

MCEntries ==
  { Ducc(<<"a", "b", "c", "d", "e", "f">>), Ducc(<<"a", "b">>), Ducc(<<>>),
    SubSeq(DuccKey, 1, Len(DuccKey) - 1) \o <<"X", "=", "a">>,
    LdKey \o <<"b">> }

MCEnvps == SeqOf(MCEntries, 3)
====
