------------------------- MODULE MCWallpaperPlaylist --------------------------
(***************************************************************************)
(* WallpaperPlaylist for TLC: four pictures, one of which cannot be drawn, *)
(* in a folder for three, so that one added picture is one too many and is *)
(* trimmed; the limits are small enough that each of them is met.          *)
(***************************************************************************)
EXTENDS WallpaperPlaylist

\* For EveryPictureReturns: a sleep tries often enough to get past every file
\* that cannot be decoded.
ASSUME RetriesAssumption == Cardinality(Corrupt) < Retries

MCImages == 1..4
MCCorrupt == {2}
MCStock == <<3, 2, 1>>

=============================================================================
