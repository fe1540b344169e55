------------------------------- MODULE MCExport ------------------------------
(***************************************************************************)
(* Small instances of CalendarExport for TLC.                              *)
(***************************************************************************)
EXTENDS CalendarExport

OneStep == <<1>>
=============================================================================
