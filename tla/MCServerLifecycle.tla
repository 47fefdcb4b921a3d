------------------------- MODULE MCServerLifecycle --------------------------
(***************************************************************************)
(* The instance of ServerLifecycle for TLC: a single object and a VRT, in  *)
(* a bucket.  Rasters elsewhere are read as that VRT is.                   *)
(***************************************************************************)
EXTENDS ServerLifecycle

SomeConfigs == [bucket : {TRUE}, remote : {FALSE}, vrt : BOOLEAN]
=============================================================================
