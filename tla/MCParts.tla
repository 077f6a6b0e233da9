------------------------------- MODULE MCParts --------------------------------
(***************************************************************************)
(* What the programs of MCServices, MCTools and MCPrograms share: nothing  *)
(* but the place their state is kept in.  Each behaviour exercises one of  *)
(* them, which the variable part names; v1 to v13 are its variables, in    *)
(* the order it declares them.                                             *)
(***************************************************************************)
VARIABLES part, v1, v2, v3, v4, v5, v6, v7, v8, v9, v10, v11, v12, v13

vs == <<v1, v2, v3, v4, v5, v6, v7, v8, v9, v10, v11, v12, v13>>
===============================================================================
