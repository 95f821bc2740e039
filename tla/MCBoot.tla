------------------------------- MODULE MCBoot -------------------------------
(* Small instances of Boot for TLC. *)
EXTENDS Boot

MC_Calls  == {"send", "recv", "reply_recv", "proc_create"}
MC_Ret    == {OK, ERR}
DuePoints == UnmaskPoints
=============================================================================
