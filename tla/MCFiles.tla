------------------------------ MODULE MCFiles ------------------------------
(***************************************************************************)
(* Three months of two days; the archive may lack a day of the second.     *)
(***************************************************************************)
EXTENDS BarFiles

HolesValue == {{}, {2}}
=============================================================================
