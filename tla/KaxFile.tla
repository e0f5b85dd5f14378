------------------------------- MODULE KaxFile -------------------------------
(***************************************************************************)
(* KaxFile (src/KaxFile.cpp): the reader of the elements of a Segment, and *)
(* the loop of handle_segment (src/Traverser.cpp) that calls it.           *)
(*                                                                         *)
(* read_next_level1_element_internal and resync_to_level1_element_internal *)
(* call each other in tail position only, so a call is a sequence of       *)
(* steps: one step per activation of the former, one per byte the latter   *)
(* scans.  Nothing in a call may depend on anything but the file, which    *)
(* may hold anything; positions are the ones of the program.               *)
(***************************************************************************)
EXTENDS Vint, SequencesExt

CONSTANTS
  Level1Ids,    \* IDs of the semantic context of KaxSegment
  GlobalIds,    \* EbmlVoid and EbmlCrc32
  ClusterId,    \* the one of KaxCluster, a level 1 ID
  WantedId,     \* what the caller asks for: 0 is any level 1 element
  Asks,         \* the functions it asks, of read_next and resync
  Beyond,       \* how many bytes may follow a Segment that states its size
  Missing,      \* how many of its bytes a file that was cut off may lack
  MaxDamaged,   \* bound: the last position Read may throw at, the first is 1
  Contents      \* the bytes of the Segments to read, and of what follows

ASSUME IdsAssumption ==
  /\ Contents \subseteq Seq(Byte)
  /\ Beyond \in Nat /\ Missing \in Nat /\ MaxDamaged \in Nat
  /\ ClusterId \in Level1Ids
  /\ WantedId \in Level1Ids \cup {0}
  /\ Asks \in {{"read_next"}, {"read_next", "resync"}}
  /\ WantedId = 0 => Asks = {"read_next"}
  /\ 0 \notin Level1Ids \cup GlobalIds
  /\ Level1Ids \cap GlobalIds = {}

(* A level 1 ID has the length read_uint32_be reads, and says so; the bits *)
(* of an ID are not all ones.                                              *)
ASSUME CodedIdsAssumption ==
  /\ IdBytes \in 2 .. ByteBits
  /\ \A id \in Level1Ids :
       id \in Power2[(ByteBits - 1) * IdBytes] .. 2 * Power2[(ByteBits - 1) * IdBytes] - 1
  /\ \A id \in Level1Ids \cup GlobalIds : \A n \in 1 .. ByteBits :
       id # 2 * Power2[(ByteBits - 1) * n] - 1

(* A position in a file, and some headers further, is an int64_t.          *)
ASSUME PositionsAssumption ==
  \A content \in Contents :
    Len(content) + ByteBits + 2 * IdBytes + 2 <= Power2[Word - 1]

VARIABLES
  file,              \* the file and its pointer
  pc,                \* what runs: the caller, read_next, resync or its loop
  l0,                \* the Segment: where it ends, and whether it says so
  segment_end,
  resynced,
  resync_start_pos,
  actual_id,         \* resync's window: the last IdBytes bytes as a number
  l1,                \* what the call of the caller has returned
  damaged,           \* the environment: where Read throws
  delivered,         \* history: the elements returned so far
  accepted           \* history: the headers the last resync went by

kax == <<segment_end, resynced, resync_start_pos>>
constant == <<l0, damaged>>
vars == <<file, pc, kax, actual_id, l1, constant, delivered, accepted>>

file_size == get_size(file)

(* A read at pos, when nothing behind the end of the file decides it.      *)
VintAt(f, pos, mode) ==
  (CHOOSE outcome \in read(setFilePointer(f, pos), mode) : TRUE).vint

Unsigned(n) == n % Power2[Word]

is_level1_element_id(id) == id \in Level1Ids
is_global_element_id(id) == id \in GlobalIds

(* The test resync makes of four bytes.                                    *)
Matches(id) == IF WantedId = 0 THEN is_level1_element_id(id) ELSE id = WantedId

-----------------------------------------------------------------------------
(* libebml, as read_one_element uses it.                                   *)

NoElement == [pos |-> 0, id |-> 0, end |-> 0]

(* What stands at pos, read as a header: an ID, and a size of no more than *)
(* ByteBits bytes; an element of unknown size has to be a master.          *)
HeaderOf(pos, id, size) ==
  [decodes |-> /\ is_valid(id) /\ is_valid(size)
               /\ size.coded_size <= ByteBits
               /\ is_unknown(size) => is_level1_element_id(id.value),
   pos     |-> pos,
   id      |-> id.value,
   content |-> pos + id.coded_size + size.coded_size,
   unknown |-> is_unknown(size),
   size    |-> size.value,
   id_size |-> id.coded_size]

Header(f, pos) ==
  CHOOSE header \in UNION {{HeaderOf(pos, id, size)
                              : size \in {VintAt(f, pos + id.coded_size, "rm_normal")}}
                            : id \in {VintAt(f, pos, "rm_ebml_id")}} : TRUE

(* Read takes elements as children of a master of unknown size up to the   *)
(* next level 1 ID; this is where the last of them ends.                   *)
ChildrenEnd(f, content) ==
  LET end[p \in 0 .. get_size(f)] ==
        LET child == Header(f, p) IN
        IF /\ child.decodes
           /\ ~is_level1_element_id(child.id)
           /\ child.content + child.size <= get_size(f)
        THEN end[child.content + child.size] ELSE p
  IN  end[content]

(* Mutant: the ID is not counted.                                          *)
get_element_sizeWithoutId(f, header) ==
  (header.content - header.pos) - header.id_size + header.size

(* Without children the size field of such a master is not counted.        *)
get_element_size(f, header) ==
  IF ~header.unknown THEN (header.content - header.pos) + header.size
  ELSE LET end == ChildrenEnd(f, header.content) IN
       IF end > header.content THEN end - header.pos ELSE header.id_size

Element(f, header) ==
  [pos |-> header.pos, id |-> header.id, end |-> header.pos + get_element_size(f, header)]

(* The first header behind the file pointer, however far.                  *)
FindNextElement(f, fp) ==
  LET headers == {h \in {Header(f, pos) : pos \in fp .. get_size(f) - 1} : h.decodes}
      first   == {h \in headers : \A other \in headers : h.pos <= other.pos}
  IN  IF headers = {} THEN NoElement
      ELSE CHOOSE element \in {Element(f, header) : header \in first} : TRUE

-----------------------------------------------------------------------------
(* read_one_element, as the outcomes it can have: nothing when Read throws. *)
read_one_element(fp) ==
  IF segment_end # 0 /\ fp >= segment_end THEN {NoElement}
  ELSE {IF element.pos \in damaged THEN NoElement ELSE element
          : element \in {FindNextElement(file, fp)}}

-----------------------------------------------------------------------------
(* read_next_level1_element and the functions it tail-calls                *)

Return(element) ==
  /\ pc' = "caller"
  /\ l1' = element

Again(step, fp) ==
  /\ pc' = step
  /\ file' = setFilePointer(file, fp)
  /\ UNCHANGED l1

(* Mutant: was_resynced() is forgotten.                                    *)
ResetPositionOnly == resync_start_pos' = 0 /\ UNCHANGED resynced

ResetResync == resynced' = FALSE /\ resync_start_pos' = 0

(* Mutant: EbmlVoid and EbmlCrc32 are not taken for what they are.         *)
DirectLevel1Only(id) ==
  id.value = WantedId \/ (WantedId = 0 /\ is_level1_element_id(id.value))

(* The two tests of the ID read: read what it announces, or pass over it.  *)
Direct(id) ==
  \/ id.value = WantedId
  \/ WantedId = 0 /\ (is_level1_element_id(id.value) \/ is_global_element_id(id.value))

Skip(id) ==
  WantedId # 0 /\ (is_level1_element_id(id.value) \/ is_global_element_id(id.value))

(* Mutant: what was read is not looked at.                                 *)
ReallyReadAnything(one) == TRUE

ReallyRead(one) == WantedId \in {0, one.id}

(* With the ID read and what read_one_element gives, which is the same when *)
(* it is called a second time.                                             *)
Proceed(id, one) ==
  \/ /\ ~is_valid(id) \/ ~(Direct(id) \/ Skip(id)) \/ one = NoElement
     /\ Again("resync", file.fp)
  \/ /\ is_valid(id) /\ Direct(id) /\ one # NoElement
     /\ IF ReallyRead(one)
        THEN Return(one) /\ file' = setFilePointer(file, one.end)
        ELSE Again("read_next", one.end)
  \/ /\ is_valid(id) /\ ~Direct(id) /\ Skip(id) /\ one # NoElement
     /\ Again("read_next", one.end)

read_next_level1_element ==
  /\ pc = "read_next"
  /\ \/ /\ segment_end # 0 /\ file.fp >= segment_end
        /\ Return(NoElement)
        /\ UNCHANGED <<file, kax>>
     \/ /\ segment_end = 0 \/ file.fp < segment_end
        /\ ResetResync
        /\ UNCHANGED segment_end
        /\ \E id \in read_ebml_id(file), one \in read_one_element(file.fp) :
             Proceed(id.vint, one)
  /\ UNCHANGED <<actual_id, constant, delivered, accepted>>

-----------------------------------------------------------------------------
(* resync_to_level1_element                                                *)

resync_to_level1_element ==
  /\ pc = "resync"
  /\ \/ /\ segment_end # 0 /\ file.fp >= segment_end
        /\ Return(NoElement)
        /\ UNCHANGED <<file, kax, actual_id>>
     \/ /\ segment_end = 0 \/ file.fp < segment_end
        /\ resynced' = TRUE
        /\ resync_start_pos' = file.fp
        /\ \E window \in read_uint32_be(file) :
             actual_id' = window.value /\ file' = window.file
        /\ pc' = "scan"
        /\ UNCHANGED <<segment_end, l1>>
  /\ UNCHANGED <<constant, delivered, accepted>>

(* The search for three headers in a row.  A link holds the file behind    *)
(* the ID of the header to look at, where that header begins, the headers  *)
(* whose ID matched, the sizes read, and whether to look further.          *)
FirstLink(f) ==
  [file |-> f, element_pos |-> f.fp - IdBytes, num_headers |-> 1,
   valid_unknown_size |-> FALSE, sizes |-> <<>>, more |-> TRUE]

(* All of element_pos, length.value and the sum are unsigned here.         *)
Behind(link, length, n) ==
  Unsigned(link.element_pos + length.value + length.coded_size + n * IdBytes)

(* Mutant: the next ID may be cut off by the end of the file.              *)
LeavesFileAtId(link, length) == Behind(link, length, 1) >= file_size

LeavesFile(link, length) == Behind(link, length, 2) >= file_size

(* One turn of the loop, with the size read.                               *)
LinkWith(link, length, f) ==
  LET sizes == Append(link.sizes, [pos |-> link.element_pos, size |-> length])
      there == setFilePointer2(f, Signed(Behind(link, length, 1)))
  IN
  IF is_unknown(length)
  THEN {[link EXCEPT !.file = f, !.valid_unknown_size = TRUE, !.sizes = sizes,
                     !.more = FALSE]}
  ELSE IF ~is_valid(length) \/ LeavesFile(link, length) \/ ~there.ok
  THEN {[link EXCEPT !.file = f, !.sizes = sizes, !.more = FALSE]}
  ELSE {[link EXCEPT !.file = next.file, !.element_pos = there.file.fp, !.sizes = sizes,
                     !.num_headers = IF Matches(next.value) THEN @ + 1 ELSE @,
                     !.more = Matches(next.value)]
          : next \in read_uint32_be(there.file)}

NextLink(link) ==
  IF link.more
  THEN UNION {LinkWith(link, length.vint, length.file)
                : length \in read(link.file, "rm_normal")}
  ELSE {link}

Chains(f) ==
  LET chain[idx \in 0 .. 3] ==
        IF idx = 0 THEN {FirstLink(f)}
        ELSE UNION {NextLink(link) : link \in chain[idx - 1]}
  IN  chain[3]

Accepts(chain) == chain.num_headers = 4 \/ chain.valid_unknown_size

(* Mutant: more than the four bytes of an ID are kept.                     *)
WindowOfAll(id, byte) == id * Power2[ByteBits] + byte

Window(id, byte) == (id * Power2[ByteBits] + byte) % Power2[ByteBits * IdBytes]

(* Mutant: the candidate is put where the search began.                    *)
CandidateAtResyncStart(f) == resync_start_pos

Candidate(f) == f.fp - IdBytes

(* Mutant: the search goes on where the headers after a candidate led.     *)
WhereTheChainEnds(chain, candidate) == chain.file.fp

AfterRejected(chain, candidate) == candidate + IdBytes

(* A turn of the loop over the bytes.                                      *)
ScanByte ==
  /\ pc = "scan"
  /\ \/ /\ file.fp >= file_size
        /\ Return(NoElement)
        /\ UNCHANGED <<file, actual_id, accepted>>
     \/ /\ file.fp < file_size
        /\ \E byte \in read_uint8(file) :
             LET window == Window(actual_id, byte.value)
                 current_start_pos == Candidate(byte.file)
             IN
             /\ actual_id' = window
             /\ \/ /\ ~Matches(window)
                   /\ file' = byte.file
                   /\ UNCHANGED <<pc, accepted>>
                \/ /\ Matches(window)
                   /\ \E chain \in Chains(byte.file) :
                        IF Accepts(chain)
                        THEN /\ file' = setFilePointer(file, current_start_pos)
                             /\ pc' = "read_next"
                             /\ accepted' = chain.sizes
                        ELSE /\ file' = setFilePointer(file, AfterRejected(chain, current_start_pos))
                             /\ UNCHANGED <<pc, accepted>>
        /\ UNCHANGED l1
  /\ UNCHANGED <<kax, constant, delivered>>

-----------------------------------------------------------------------------
(* The caller.  For WantedId = 0 it is the loop of handle_segment, which   *)
(* stops at the first Cluster; else one of read_next_cluster and           *)
(* resync_to_cluster, who goes on behind what it has got until it gets     *)
(* nothing.                                                                *)

(* Mutant: the size the Segment states is not used.                        *)
SegmentEndOfFile == file_size

SegmentEnd == IF l0.finite THEN l0.end ELSE file_size

set_segment_end ==
  /\ pc = "start"
  /\ segment_end' = SegmentEnd
  /\ pc' \in Asks
  /\ UNCHANGED <<file, resynced, resync_start_pos, actual_id, l1, constant,
                 delivered, accepted>>

InParent(fp) == ~l0.finite \/ fp < l0.end

handle_segment ==
  /\ pc = "caller"
  /\ IF l1 = NoElement
     THEN /\ pc' = "done"
          /\ UNCHANGED <<file, delivered>>
     ELSE /\ delivered' = Append(delivered, l1)
          /\ \/ /\ WantedId = 0 /\ l1.id = ClusterId
                /\ pc' = "done"
                /\ UNCHANGED file
             \/ /\ WantedId = 0 /\ l1.id # ClusterId
                /\ file' = setFilePointer2(file, l1.end).file
                /\ pc' = IF InParent(file'.fp) THEN "read_next" ELSE "done"
             \/ /\ WantedId # 0
                /\ pc' \in Asks
                /\ UNCHANGED file
  /\ UNCHANGED <<kax, actual_id, l1, constant, accepted>>

-----------------------------------------------------------------------------
(* The Segment's data begin behind one byte that stands for its header.    *)
(* The size it states may fall short of what the file holds, or, where the *)
(* file was cut off, exceed it.                                            *)
Init ==
  /\ \E content \in Contents : file = [open |-> TRUE, bytes |-> <<0>> \o content, fp |-> 1]
  /\ \/ l0 = [finite |-> FALSE, end |-> 0]
     \/ \E end \in {file_size - Beyond, file_size, file_size + Missing} :
          end >= 1 /\ l0 = [finite |-> TRUE, end |-> end]
  /\ damaged \in {{}} \cup {{pos} : pos \in 1 .. MaxDamaged}
  /\ pc = "start"
  /\ segment_end = 0
  /\ resynced = FALSE
  /\ resync_start_pos = 0
  /\ actual_id = 0
  /\ l1 = NoElement
  /\ delivered = <<>>
  /\ accepted = <<>>

Next ==
  \/ set_segment_end
  \/ read_next_level1_element
  \/ resync_to_level1_element
  \/ ScanByte
  \/ handle_segment

Spec == Init /\ [][Next]_vars /\ WF_vars(Next)

-----------------------------------------------------------------------------
(* Properties                                                              *)

(* Every variable keeps its type; the window is a number of IdBytes bytes. *)
TypeOK ==
  /\ file \in File
  /\ pc \in {"start", "read_next", "resync", "scan", "caller", "done"}
  /\ l0 \in [finite : BOOLEAN, end : Nat]
  /\ segment_end \in Nat
  /\ resynced \in BOOLEAN
  /\ resync_start_pos \in 0 .. segment_end
  /\ actual_id \in 0 .. Power2[ByteBits * IdBytes] - 1
  /\ damaged \subseteq Nat
  /\ \A element \in Range(delivered) \cup {l1} :
       element \in [pos : 0 .. file_size, id : Nat, end : Nat]

(* Where the element really ends.                                          *)
EndOf(f, header) ==
  IF header.unknown THEN ChildrenEnd(f, header.content) ELSE header.content + header.size

(* No byte of the file is delivered as part of two elements, and elements  *)
(* come in the order of the file, however often the reader resynchronises  *)
(* and whatever sizes the headers on the way claim.                        *)
InOrder ==
  \A i, j \in DOMAIN delivered :
    i < j => EndOf(file, Header(file, delivered[i].pos)) <= delivered[j].pos

Wanted(element) == WantedId \in {0, element.id}

(* The element at pos as the format has it: known, inside the Segment and  *)
(* the file, readable.                                                     *)
Regular(f, end, broken, pos) ==
  LET header == Header(f, pos) IN
  /\ header.decodes
  /\ ~header.unknown
  /\ header.id \in Level1Ids \cup GlobalIds
  /\ header.content + header.size <= end
  /\ header.content + header.size <= get_size(f)
  /\ pos \notin broken

(* The regular elements from the start of the Segment on, up to and with   *)
(* the first Cluster when the caller stops there: those the caller wants.  *)
Document(f, end, broken) ==
  LET At(pos) == Element(f, Header(f, pos))
      from[pos \in 1 .. get_size(f)] ==
        IF ~Regular(f, end, broken, pos) THEN <<>>
        ELSE IF WantedId = 0 /\ At(pos).id = ClusterId THEN <<At(pos)>>
        ELSE (IF Wanted(At(pos)) THEN <<At(pos)>> ELSE <<>>) \o from[At(pos).end]
  IN  from[1]

(* As far as the Segment is regular, nothing of it is lost: the caller gets *)
(* every element it wants, before anything that comes of the rest.         *)
DeliversDocument ==
  pc = "done" => IsPrefix(Document(file, segment_end, damaged), delivered)

(* Who asks for a Cluster gets Clusters only, also where the ID was found  *)
(* but libebml has found another element behind it.                        *)
DeliversWanted == \A i \in DOMAIN delivered : Wanted(delivered[i])

KnownIdAt(f, pos) == VintAt(f, pos, "rm_ebml_id").value \in Level1Ids \cup GlobalIds

(* An element that begins behind the end of the Segment is delivered only  *)
(* for want of a size: FindNextElement has searched on behind a known ID   *)
(* inside the Segment whose header does not decode.                        *)
OutsideOnlyBehindBrokenHeader ==
  l0.finite =>
    \A i \in DOMAIN delivered :
      delivered[i].pos >= l0.end =>
        \E pos \in 1 .. l0.end - 1 : KnownIdAt(file, pos) /\ ~Header(file, pos).decodes

(* Four headers in a row, each where the size of the one before says, and  *)
(* a byte behind the ID of the last.                                       *)
IdAt(f, pos) == get_uint_be([i \in 1 .. IdBytes |-> f.bytes[pos + i]], IdBytes)

NextHeader(f, pos) ==
  LET size == VintAt(f, pos + IdBytes, "rm_normal")
  IN  IF is_unknown(size) THEN get_size(f)
      ELSE pos + IdBytes + size.coded_size + size.value

StartsHeader(f, pos) ==
  pos \in Nat /\ pos + IdBytes < get_size(f) /\ Matches(IdAt(f, pos))

FourHeadersInARow(f, pos) ==
  LET second == NextHeader(f, pos)
      third  == NextHeader(f, second)
      fourth == NextHeader(f, third)
  IN  /\ StartsHeader(f, pos)
      /\ second > pos   /\ StartsHeader(f, second)
      /\ third > second /\ StartsHeader(f, third)
      /\ fourth > third /\ StartsHeader(f, fourth)

(* A resync gives up only when there is nothing to find: behind its start  *)
(* and inside the Segment no place has four headers in a row, although     *)
(* every try has sent the file pointer all over the file.                  *)
OverlooksNothing ==
  pc = "caller" /\ resynced /\ l1 = NoElement =>
    \A pos \in resync_start_pos + 1 .. segment_end - 1 : ~FourHeadersInARow(file, pos)

(* was_resynced() never tells of a resync that has found something: the    *)
(* call that reads the element found takes the flag back.                  *)
ResyncedMeansNothingFound == pc = "caller" /\ resynced => l1 = NoElement

(* The bytes read_uint32_be and read_uint8 hand out without having read    *)
(* them do not decide whether a candidate is accepted, unless an overlong  *)
(* size is negative and the sum with it wraps around.                      *)
AcceptanceDetermined ==
  pc = "scan" /\ file.fp < file_size /\ file.fp >= IdBytes =>
    \A a, b \in Chains(file) :
      (Accepts(a) <=> Accepts(b)) \/ \E i \in DOMAIN a.sizes : a.sizes[i].size.value < 0

(* Every call comes to an end and the caller's loop with it: each resync   *)
(* that hands over to read_next has moved on in the file.                  *)
Termination == <>(pc = "done")

(* Whoever asks for any level 1 element gets into another call inside the  *)
(* one before only at the end of a resync.  These calls do not nest deeper *)
(* than the file has bytes: each begins behind the place the resync began  *)
(* at, whatever headers were tried in between.                             *)
ResyncMovesOn ==
  [][pc = "scan" /\ pc' = "read_next" => file'.fp > resync_start_pos]_vars

(* What the comment above the call of resync says: "Also try to locate at  *)
(* least three valid ID/sizes, not just one ID".                           *)
ThreeValidSizes ==
  accepted # <<>> =>
    /\ \A i \in DOMAIN accepted : is_valid(accepted[i].size)
    /\ Len(accepted) >= 3 \/ is_unknown(accepted[Len(accepted)].size)
=============================================================================
