------------------------------- MODULE Mkvinfo -------------------------------
(***************************************************************************)
(* info() (src/mkvinfo.cpp), called again and again in one process: the    *)
(* elements of a Segment as read_one_element reads them, with the table of *)
(* semantics that outlives a call; their text, parsed; and the JSON made   *)
(* of it.                                                                  *)
(*                                                                         *)
(* What the other modules show is used, not repeated: KaxFile, that the    *)
(* level 1 elements come in their order, and that behind one that cannot   *)
(* be read the reader takes up again somewhere or not at all; Traverser,   *)
(* that the text of a document without quirks has every element where it   *)
(* lies, and which tags are left open when no Cluster is reached.  The     *)
(* files have no other quirks than an odd name and a missing Cluster.      *)
(***************************************************************************)
EXTENDS ReadOneElement, XmlJson

CONSTANTS
  NameOf,     \* ms_names: from IDs to texts, "" where it has none
  OddNames,   \* texts that are no XML names
  MaxCalls    \* bound: calls of info()

ASSUME MkvinfoAssumption == MaxCalls \in Nat /\ DOMAIN NameOf = Ids

(* No two classes of libebml and libmatroska have the same ID.             *)
ASSUME IdsAssumption == \A one, other \in DOMAIN Id : Id[one] = Id[other] => one = other

VARIABLES
  pc,      \* where info() stands
  answer,  \* what the last call has answered
  calls

vars == <<pc, reading, answer, calls, heap, s_cache>>

-----------------------------------------------------------------------------
(* handle_segment                                                          *)

(* Each element is shown as it comes; a Cluster ends the loop.             *)
NextElement ==
  /\ pc = "segment"
  /\ read_one_element
  /\ pc' = IF reached' THEN "text" ELSE "segment"
  /\ UNCHANGED <<answer, calls>>

(* There is nothing more to read, and there was no Cluster.                *)
LeaveSegment ==
  /\ pc = "segment"
  /\ file = <<>>
  /\ pc' = "text"
  /\ UNCHANGED <<reading, answer, calls, heap, s_cache>>

-----------------------------------------------------------------------------
(* The text traverse() writes, as the XML parser reads it.                 *)

(* As all elements around it, it is not passed over.                       *)
Shown(element, at) ==
  \A n \in 0 .. Len(at) :
    LET around == element[SubSeq(at, 1, n)] IN
    around.class \notin {Dummy, Void} /\ NameOf[around.id] # ""

(* Blank text is dropped by the parser, character references are resolved. *)
Blank     == "blank"
Invalid   == "invalid"      \* no UTF-8
Reference == "reference"
Resolved  == "resolved"

Parsed(value) == IF value = Reference THEN Resolved ELSE value

Text(element, at) ==
  IF IsMaster(element, at) \/ element[at].value = Blank THEN NoText
  ELSE Parsed(element[at].value)

(* The document around the elements of the Segment.                        *)
Frame ==
  [at \in {<<>>, <<1>>, <<1, 1>>, <<2>>} |->
     CASE at = <<>>     -> Node("root", NoText)
       [] at = <<1>>    -> Node("EBML_head", NoText)
       [] at = <<1, 1>> -> Node("Document_type", "matroska")
       [] at = <<2>>    -> Node("Segment", NoText)]

Document(elements) ==
  LET within == UNION {{<<2, i>> \o at : at \in {at \in DOMAIN elements[i] : Shown(elements[i], at)}}
                         : i \in DOMAIN elements}
      NodeOf(element, at) == Node(NameOf[element[at].id], Text(element, at))
  IN  [place \in DOMAIN Frame \cup within |->
         IF place \in DOMAIN Frame THEN Frame[place]
         ELSE NodeOf(elements[place[2]], SubSeq(place, 3, Len(place)))]

(* Whatever comes at level 1, the Cluster or another element that is no    *)
(* Void, closes the tags of the level 1 element before it; nothing closes  *)
(* those of a master that comes last.                                      *)
Closed ==
  LET closing == SelectSeq(shown, LAMBDA element : element[<<>>].class # Void)
  IN  reached \/ closing = <<>> \/ ~IsMaster(Last(closing), <<>>)

Parses(document) == Closed /\ \A at \in DOMAIN document : document[at].name \notin OddNames

-----------------------------------------------------------------------------
(* info()                                                                  *)

NoAnswer == [kind |-> "none"]

Call(segment) ==
  /\ pc = "idle"
  /\ calls < MaxCalls
  /\ calls' = calls + 1
  /\ OpenSegment(segment)
  /\ answer' = NoAnswer
  /\ pc' = "segment"

(* Mutant: the first pass alone.                                           *)
AnswerUnshortened ==
  /\ pc = "text"
  /\ pc' = "idle"
  /\ answer' = [kind |-> "json", json |-> xmlToJsonObject(Document(shown))]
  /\ CloseSegment
  /\ UNCHANGED calls

(* The parser is content, or info() answers ""; dump() throws for a string *)
(* that is no UTF-8.                                                       *)
Answer ==
  /\ pc = "text"
  /\ pc' = "idle"
  /\ LET document == Document(shown)
         json == recursiveIteration(xmlToJsonObject(document))
     IN  answer' = CASE ~Parses(document) -> [kind |-> "empty"]
                     [] Parses(document) /\ Invalid \in Strings(json) -> [kind |-> "raised"]
                     [] OTHER -> [kind |-> "json", json |-> json]
  /\ CloseSegment
  /\ UNCHANGED calls

-----------------------------------------------------------------------------
Init ==
  /\ pc = "idle"
  /\ answer = NoAnswer
  /\ calls = 0
  /\ ReadInit

Next ==
  \/ \E segment \in Files : Call(segment)
  \/ NextElement
  \/ LeaveSegment
  \/ Answer

Spec == Init /\ [][Next]_vars

-----------------------------------------------------------------------------
(* Properties                                                              *)

(* An element of the file, read with the semantics of its own class.       *)
ReadAsItself(raw) ==
  LET class == ClassOf(raw[<<>>].id, Base)
  IN  Read(raw, IF class \in Classes THEN class ELSE Base)

(* However often info() was called before, with whatever files: every      *)
(* value of the elements read arrives in the JSON under the names of the   *)
(* elements it lies in, in its order among its namesakes, and nothing else *)
(* does, although lists of one text are replaced by it.                    *)
EveryValueInPlace ==
  answer.kind = "json" =>
    /\ IsJson(answer.json)
    /\ Leaves(answer.json)
         = Values(Document([i \in DOMAIN delivered |-> ReadAsItself(delivered[i])]))

(* Tracks as the script expects them in a file: at least one, each with    *)
(* one type and one number, and a video and an audio that have something   *)
(* in them.                                                                *)
ShownNamed(element, at, name) ==
  {child \in Children(element, at) : Shown(element, child) /\ NameOf[element[child].id] = name}

HasOneText(element, at, name) ==
  \E child \in Children(element, at) :
    ShownNamed(element, at, name) = {child} /\ Text(element, child) # NoText

HasOnlyMasters(element, at, name) ==
  \A child \in ShownNamed(element, at, name) : IsMaster(element, child)

IsTracks(element) == Shown(element, <<>>) /\ NameOf[element[<<>>].id] = "Tracks"

HasRegularTracks(element) ==
  IsTracks(element) =>
    /\ ShownNamed(element, <<>>, "Track") # {}
    /\ \A track \in ShownNamed(element, <<>>, "Track") :
         /\ \A name \in {"Track_type", "Track_number"} : HasOneText(element, track, name)
         /\ \A name \in {"Video_track", "Audio_track"} : HasOnlyMasters(element, track, name)

TracksAreRegular ==
  \A segment \in Files : \A raw \in Range(segment) : HasRegularTracks(ReadAsItself(raw))

(* test/test.py:10-31 indexes its way down from a list of Segments, each   *)
(* an object, over a list of Tracks to a list of objects, one per track,   *)
(* and takes of each the type and the number for texts, the video and the  *)
(* audio, where it has them, for lists.  So they are whenever the Tracks   *)
(* were read, for one track as for several.  (Where they were not read,    *)
(* there being none, or only behind the Cluster, line 10 raises; whether a *)
(* text is one int() takes, line 31, is up to the file.)                   *)
ScriptFindsTracks ==
  LET json == answer.json
      segments == <<<<"Segment", 0>>>>
      segment == <<<<"Segment", 1>>>>
      tracks == Append(segment, <<"Tracks", 1>>)
      IsA(type, way) == way \in DOMAIN json /\ json[way].type = type
  IN  answer.kind = "json" /\ (\E i \in DOMAIN delivered : IsTracks(ReadAsItself(delivered[i]))) =>
        /\ IsA("array", segments) /\ IsA("object", segment)
        /\ IsA("array", Append(segment, <<"Tracks", 0>>)) /\ IsA("object", tracks)
        /\ IsA("array", Append(tracks, <<"Track", 0>>))
        /\ \A i \in 1 .. json[Append(tracks, <<"Track", 0>>)].size :
             LET track == Append(tracks, <<"Track", i>>) IN
             /\ IsA("object", track)
             /\ \A name \in {"Track_type", "Track_number"} : IsA("string", Append(track, <<name, 0>>))
             /\ \A name \in {"Video_track", "Audio_track"} :
                  Append(track, <<name, 0>>) \in DOMAIN json => IsA("array", Append(track, <<name, 0>>))
=============================================================================
