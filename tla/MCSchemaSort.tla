----------------------------- MODULE MCSchemaSort -----------------------------
(***************************************************************************)
(* Every import relation over four files: whatever their names, one order of *)
(* writing stands for all.                                                   *)
(***************************************************************************)
EXTENDS SchemaSort

MCFiles == 1..4
MCGenerated == <<1, 2, 3, 4>>
=============================================================================
