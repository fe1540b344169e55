------------------------------ MODULE MCOutbox -------------------------------
(***************************************************************************)
(* Small instances of SyncOutbox for TLC.                                  *)
(***************************************************************************)
EXTENDS SyncOutbox

OneThenTwo == <<1, 2>>
Minutes    == <<1, 5, 30, 120>>    \* the steps of the code
=============================================================================
