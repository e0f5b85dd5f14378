----------------------------- MODULE MCKaxFile -----------------------------
(***************************************************************************)
(* KaxFile on files put together from pieces: bytes of three bits, IDs of  *)
(* two bytes for level 1 and of one for EbmlVoid.                          *)
(***************************************************************************)
EXTENDS KaxFile

CONSTANT MaxPieces   \* bound: pieces of a file

TracksId == 19   \* bytes 2 3
MCClusterId == 17   \* bytes 2 1
VoidId == 5
MCLevel1Ids == {TracksId, MCClusterId}

(* Elements: Tracks that hold an EbmlVoid, an empty Cluster, an EbmlVoid   *)
(* with a byte of content, an element of no known ID; and a stray byte.    *)
Tracks  == <<2, 3, 6, 5, 4>>
Cluster == <<2, 1, 4>>
Void    == <<5, 5, 1>>
Unknown == <<6, 4>>
Stray   == <<0>>

(* A master of unknown size; a level 1 ID with an overlong size that is    *)
(* negative, -4; a level 1 ID the file ends behind or no size follows.     *)
Endless  == <<2, 3, 7>>
Negative == <<2, 3, 0, 7, 7, 4>>
Sizeless == <<2, 3>>

(* The first byte of the ID of Tracks.                                     *)
Cut == <<2>>

(* The same with -19: behind a stray byte and two Tracks the position it   *)
(* leads to is -1, which fseek refuses.                                    *)
Wrapping == <<2, 3, 0, 7, 5, 5>>

(* A Cluster whose size is overlong for libebml.                           *)
Headless == <<2, 1, 0>>

(* As many Clusters as resync looks for.                                   *)
Four == Cluster \o Cluster \o Cluster \o Cluster

Glue(parts) ==
  LET glued[i \in 0 .. Len(parts)] ==
        IF i = 0 THEN <<>> ELSE glued[i - 1] \o parts[i]
  IN  glued[Len(parts)]

FilesOf(pieces) ==
  {Glue(parts) : parts \in UNION {[1 .. n -> pieces] : n \in 0 .. MaxPieces}}

MCContents == FilesOf({Tracks, Cluster, Void, Unknown, Stray})
MCOddContents == FilesOf({Tracks, Endless, Negative, Wrapping, Sizeless, Cut})
MCMixedContents == FilesOf({Tracks, Cluster, Void, Headless, Four, Stray})
=============================================================================
