------------------------- MODULE MCSchemaMigrations --------------------------
(***************************************************************************)
(* Instances of SchemaMigrations for TLC: releases that bundle one or two  *)
(* of two versions, and one that changed the first script.                 *)
(***************************************************************************)
EXTENDS SchemaMigrations, TLC

CONSTANTS c1, c2     \* checksums

MCBundles == {1 :> c1, (1 :> c1) @@ (2 :> c2), (1 :> c2) @@ (2 :> c2), 2 :> c2}
=============================================================================
