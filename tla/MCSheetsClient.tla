----------------------------- MODULE MCSheetsClient -----------------------------
(* SheetsClient on a sheet with one row and two keys.                         *)
EXTENDS SheetsClient

CONSTANTS old, new, v1

MCFirstRows == <<[key |-> old, val |-> v1]>>
=============================================================================
