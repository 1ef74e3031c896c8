---------------------------- MODULE MCTableVersion ----------------------------
(* Model-checking instance of TableVersion.  The pass run starts the       *)
(* broadcaster at every one of the 32 versions with two version changes   *)
(* and losses, so the wrap 31 -> 0 and every masked bit are reached.  The  *)
(* violation runs start at 7 (next version 8 sets bit 3) without loss,     *)
(* and at 0 with loss (a whole version can be missed).                    *)
EXTENDS TableVersion

MCAllVersions == 0..31
=============================================================================
