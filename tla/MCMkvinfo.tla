----------------------------- MODULE MCMkvinfo -----------------------------
(***************************************************************************)
(* Mkvinfo with the part of the semantics of libmatroska that has each of  *)
(* their shapes: children at several depths, a class that may lie in       *)
(* itself, one without a name in ms_names, the Cluster last.               *)
(***************************************************************************)
EXTENDS Mkvinfo

MCContext ==
  [class \in {"KaxSegment", "KaxInfo", "KaxTitle", "KaxTracks", "KaxTrackEntry",
              "KaxTrackType", "KaxTrackNumber", "KaxLanguageIETF",
              "KaxTrackVideo", "KaxVideoPixelWidth", "KaxTrackAudio",
              "KaxAudioSamplingFreq", "KaxTags", "KaxTag", "KaxTagSimple",
              "KaxTagName", "KaxCluster", "KaxClusterTimecode"} |->
     CASE class = "KaxSegment"    -> <<"KaxInfo", "KaxTracks", "KaxTags", "KaxCluster">>
       [] class = "KaxInfo"       -> <<"KaxTitle">>
       [] class = "KaxTracks"     -> <<"KaxTrackEntry">>
       [] class = "KaxTrackEntry" -> <<"KaxTrackType", "KaxTrackNumber", "KaxLanguageIETF",
                                        "KaxTrackVideo", "KaxTrackAudio">>
       [] class = "KaxTrackVideo" -> <<"KaxVideoPixelWidth">>
       [] class = "KaxTrackAudio" -> <<"KaxAudioSamplingFreq">>
       [] class = "KaxTags"       -> <<"KaxTag">>
       [] class = "KaxTag"        -> <<"KaxTagSimple">>
       [] class = "KaxTagSimple"  -> <<"KaxTagSimple", "KaxTagName">>
       [] class = "KaxCluster"    -> <<"KaxClusterTimecode">>
       [] OTHER                   -> <<>>]

MCClasses == DOMAIN MCContext

MCNames ==
  [KaxSegment |-> "Segment", KaxInfo |-> "Segment_information", KaxTitle |-> "Title",
   KaxTracks |-> "Tracks", KaxTrackEntry |-> "Track", KaxTrackType |-> "Track_type",
   KaxTrackNumber |-> "Track_number",
   KaxLanguageIETF |-> "Language_(IETF_BCP_47)", KaxTrackVideo |-> "Video_track",
   KaxVideoPixelWidth |-> "Pixel_width", KaxTrackAudio |-> "Audio_track",
   KaxAudioSamplingFreq |-> "Sampling_frequency", KaxTags |-> "Tags", KaxTag |-> "Tag",
   KaxTagSimple |-> "Simple", KaxTagName |-> "Name", KaxCluster |-> "Cluster",
   KaxClusterTimecode |-> "Cluster_timestamp",
   EbmlVoid |-> "EBML_void", EbmlCrc32 |-> "EBML_CRC-32"]

(* An ID is written as the name of its class; KaxOther stands for those    *)
(* ms_names does not hold.                                                 *)
MCId == [class \in DOMAIN MCNames \cup {"KaxOther"} |-> class]

MCNameOf == [id \in DOMAIN MCId |-> IF id = "KaxOther" THEN "" ELSE MCNames[id]]

MCOddNames == {"Language_(IETF_BCP_47)"}

Leaf(id, value) == [at \in {<<>>} |-> [id |-> id, value |-> value]]

Parent(id, children) ==
  [at \in {<<>>} \cup UNION {{<<i>> \o below : below \in DOMAIN children[i]}
                              : i \in DOMAIN children} |->
     IF at = <<>> THEN [id |-> id, value |-> ""] ELSE children[Head(at)][Tail(at)]]

Number(value) == Leaf("KaxTrackNumber", value)
Type(value) == Leaf("KaxTrackType", value)
Width == Parent("KaxTrackVideo", <<Leaf("KaxVideoPixelWidth", "1920")>>)
Audio == Parent("KaxTrackAudio", <<Leaf("KaxAudioSamplingFreq", "48000")>>)
Track(children) == Parent("KaxTrackEntry", children)
Simple(children) == Parent("KaxTagSimple", children)
Name(value) == Leaf("KaxTagName", value)

Infos == {Parent("KaxInfo", titles) :
            titles \in {<<Leaf("KaxTitle", "one")>>,
                        <<Leaf("KaxTitle", "one"), Leaf("KaxTitle", "two")>>,
                        <<Leaf("KaxTitle", Blank)>>,
                        <<Leaf("KaxTitle", Reference), Leaf("KaxOther", "two")>>,
                        <<Leaf("KaxTitle", Invalid)>>}}

Trackss == {Parent("KaxTracks", tracks) :
              tracks \in {<<Track(<<Number("1"), Type("1")>>)>>,
                          <<Track(<<Number("1"), Type("1"), Width>>),
                            Track(<<Leaf("EbmlVoid", "size"), Type("2"), Audio, Number("2")>>)>>,
                          <<Track(<<Number("1"), Type("17"), Leaf("KaxLanguageIETF", "und")>>)>>}}

Tagss == {Parent("KaxTags", <<Parent("KaxTag", simples)>>) :
            simples \in {<<Simple(<<Name("one"), Simple(<<Name("two")>>)>>)>>,
                         <<Simple(<<Simple(<<Simple(<<Name("one")>>)>>), Name("two"), Name("one")>>),
                           Simple(<<Name("two"), Leaf("KaxTitle", "stray")>>)>>}}

Globals == {Leaf("EbmlVoid", "size"), Leaf("EbmlCrc32", "0x00000000")}

(* What resynchronising can bring up at level 1 that has no place there.   *)
Strays == {Parent("KaxTrackVideo", <<Leaf("KaxVideoPixelWidth", "1920")>>),
           Name("stray"), Leaf("KaxOther", "stray")}

Level1 == Infos \cup Trackss \cup Tagss \cup Globals \cup Strays

ClusterElement == Parent("KaxCluster", <<Leaf("KaxClusterTimecode", "0")>>)

(* Any element, then one of each kind.                                     *)
Second == {Parent("KaxTracks", <<Track(<<Number("1"), Type("1"), Width>>)>>),
           Parent("KaxTags", <<Parent("KaxTag", <<Simple(<<Simple(<<Name("one")>>)>>)>>)>>),
           Leaf("EbmlVoid", "size"), Name("stray")}

MCFiles == {<<a, b, ClusterElement>> : a \in Level1, b \in Second}

(* The hypothesis of MkvinfoProofs!ScriptAlwaysServed.                     *)
ASSUME RegularTracks == TracksAreRegular
=============================================================================
