---------------------------- MODULE MCGeoUpdate ----------------------------
(***************************************************************************)
(* Instances of GeoUpdate and GeoReader for TLC: one updater, for which    *)
(* nothing or everything may fail; or one for which nothing fails, beside  *)
(* hbbs, which may stop or be unable to copy the file, and an operator who *)
(* writes onto it.                                                         *)
(***************************************************************************)
EXTENDS GeoReader

CONSTANT u1

MCUpdater == {u1}
MCOutages ==
    {{}, {"net", "data", "disk", "kill"}, {"read", "overwrite"},
     {"read", "quit"}, {"read", "folder"}}
=============================================================================
