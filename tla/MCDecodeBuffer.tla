--------------------------- MODULE MCDecodeBuffer ---------------------------
(***************************************************************************)
(* Small instances of DecodeBuffer for TLC.                                *)
(***************************************************************************)
EXTENDS DecodeBuffer, TLC

CONSTANTS a, b

DictContent == <<a, b>>
=============================================================================
