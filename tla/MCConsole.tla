----------------------------- MODULE MCConsole -----------------------------
(* A small instance of Console for TLC.  There is room for two characters: *)
(* some lines fill it, some are cut in a number, a string or after a sign, *)
(* one is empty and one has a newline.                                     *)
EXTENDS Console

MC_TINT2   == <<0, 0>>
MC_Formats ==
  {<<>>, <<Plain("\n")>>, <<Item("u", 205)>>, <<Item("b", 1), Item("h", 31)>>,
   <<Plain("="), Item("i", -12)>>, <<Item("s", <<"a">>), Item("s", <<"b", "c">>)>>}
MC_Texts   == {<<"a">>}
=============================================================================
