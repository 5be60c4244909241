----------------------------- MODULE MCConsole -----------------------------
(***************************************************************************)
(* Small instances of Console: a screen of a few cells, texts of one or    *)
(* two characters.                                                         *)
(***************************************************************************)
EXTENDS Console

MCPrompt  == <<">">>
MCBoot    == <<"m", "newline">>
MCEcho    == <<"e">>
MCClear   == <<"c">>
MCOutputs == {<<"?", "newline">>}
=============================================================================
