# mkvinfo: specification and verification

`mkvinfo` is a Python extension module. `info(filename)` reads a Matroska file
up to the first Cluster of its Segment, writes every element it meets as an XML
text, parses that text and answers it as JSON. This directory holds TLA+
modules of the walk, of the reader below it, of the integers below that and of
`info()` as a whole, the TLC configurations that check them, and proofs about
the walk, the reader, the integers, the table of semantics, the elements read
with it and the JSON that `info()` answers. Paths such as
`Traverser.cpp:99` mean files of the repository's `src/` (the headers are in
`include/`).

## The system

| part | state | operations | called by |
|---|---|---|---|
| `info()` (mkvinfo.cpp) | none | traverse, parse, convert, dump | Python |
| the walk (Traverser.cpp) | `EBMLPointer`: `level`, `prev_level`, `key_stack`; the text `result` | `traverse`, `handle_segment`, `handle_elements_generic`, `ui_show_element` | `info()` |
| names (`get()`) | `ms_names`, filled by the first call, for the life of the process | look up an ID | the walk |
| values (`format_element_value`) | three empty tables of formatters | text of an element | the walk |
| `KaxFile` (KaxFile.cpp) | `segment_end`, `resynced`, `resync_start_pos`; the file pointer | `read_next_level1_element`, `resync_to_level1_element` and the Cluster variants, `set_segment_end`, `get_element_size` | `handle_segment` |
| `find_ebml_callbacks` | `s_cache`, for the life of the process | look up the semantics of an ID | `read_one_element` |
| `vint` (vint.cpp) | none | `read`, `is_valid`, `is_unknown` | `KaxFile` |
| `EBMLCallback` | `FILE *` and its pointer | seek, read, size | everybody, libebml |
| `Utils` | none | XML to JSON, strings, big-endian numbers, a clock | `info()`, `EBMLCallback` |
| libebml, libmatroska, pugixml | | find and read elements; parse XML | external |

There is one thread, nothing is written to the file and nothing persists but
the two tables, so there is no concurrency, no crash to recover from and no
message to lose. What is hard is sequential:

* **Bookkeeping spread over a recursion.** No tag is closed when an element
  ends. `ui_show_element` closes tags when it meets the *next* element, as many
  as the level has fallen since the last one shown (`prev_level - level`), with
  names from `key_stack`. Early returns, empty values, masters without
  children, the level that is set to 1 and never set back, and the single tag
  popped at the end all act on these three, several elements apart.
* **A reader that shares its file pointer.** `KaxFile`, `vint` and libebml all
  move one file pointer. `read_next` and `resync` call each other, and every
  candidate of a resync sends the pointer through up to three more headers.
* **Files that are damaged or cut off.** IDs without sizes, sizes longer than
  the file, headers libebml refuses, `Read` throwing, reads at the end of the
  file that leave their buffer uninitialised, sizes that are negative and sums
  that wrap around.

What makes each part correct:

* walk: it never pops an empty stack; closing tags meet their opening tags;
  every named element is written inside exactly the elements it lies in; a
  regular document gives a complete text; the walk ends;
* reader: nothing is delivered twice or out of order; nothing regular is lost;
  a resync overlooks nothing; a caller gets only what it asked for; calls end;
* vint: it gives what EBML says is coded, and steps exactly over it; bytes that
  nobody has read decide nothing;
* callbacks: the table that outlives every call never changes an answer; what
  may lie in a Segment is found at any depth; the upper level element is
  deleted exactly when nothing owns it;
* XML to JSON: every value arrives under the names of the elements it lies in,
  in its order, and in the shape the script that reads it takes for granted;
* names, values: see "What is not modelled".

## Modules

| module | stands for | uses |
|---|---|---|
| `Traverser` | the walk | `Transcript` as `Abstract` |
| `Transcript` | what the walk promises: a document written depth first | |
| `TraverserProofs` | theorems about the walk, and that it implements `Transcript` | `Traverser`, TLAPS |
| `EBMLCallback` | the file, as operators | |
| `Vint` | vint.cpp, as operators | `EBMLCallback` |
| `VintStream` | a file read as vints one after the other | `Vint` |
| `KaxFile` | KaxFile.cpp and the loop of `handle_segment` that calls it | `Vint` |
| `RecursionLemmas` | induction and recursion over the natural numbers and over trees | `Trees`, TLAPS |
| `VintProofs` | lemmas about `Vint`: what `vint::read` gives | `Vint`, `RecursionLemmas` |
| `VintStreamProofs` | theorems about the integers | `VintStream`, `VintProofs` |
| `KaxFileProofs` | theorems about the reader: its control, and the bytes of a file | `KaxFile`, `VintProofs` |
| `Trees` | what elements and XML documents are: functions from places | |
| `EbmlCallbacks` | `find_ebml_callbacks`, its search and its table | |
| `ReadOneElement` | `read_one_element`: the semantics it reads with, `found_in`, the upper level element | `EbmlCallbacks`, `Trees` |
| `ReadOneElementProofs` | theorems about the table, the search and the elements read | `ReadOneElement`, `RecursionLemmas` |
| `XmlJson` | `xmlToJsonObject`, `recursiveIteration` and what they use of `nlohmann::json` | `Trees` |
| `XmlJsonProofs` | a theorem about both passes over any document | `XmlJson`, `RecursionLemmas` |
| `Mkvinfo` | `info()` called repeatedly, from the elements read to the JSON | `ReadOneElement`, `XmlJson` |
| `MkvinfoProofs` | theorems about `info()` | `Mkvinfo`, `ReadOneElementProofs`, `XmlJsonProofs` |
| `MCTraverser`, `MCKaxFile`, `MCMkvinfo` | values of the constants for TLC | |

### Traverser

The variables `level`, `prev_level` and `key_stack` are the members of
`EBMLPointer`. `frames` is the C++ call stack: the masters whose children
`handle_elements_generic` is visiting. `result` is the text as an XML parser
sees it: the tags open, the element written last as a path of tags, and whether
the text is sound so far. `pc` is where `traverse` stands: before the head, in
it, between top-level elements (`top`), in the loop of `handle_segment`, after
a Segment (`rest`), or at one of its ends.

The document is not a constant. Each step lets the file deliver any element, or
end the innermost master, so one run goes through every document up to
`MaxElements` elements. An element is what the code can tell of it: master,
leaf or `EbmlDummy`, the text `get()` has for its ID, and whether its value is
empty, plain or holds a `<`. `NextElement`, `EndChildren`, `EnterSegment`,
`ReachCluster`, `LeaveSegment`, `NoHead`, `ReturnEarly`, `RaiseInHead`,
`ReadHead`, `SkipTopElement` and `Finish` are the places of the code where
something happens next; `ui_show_element(e)` is the part they share. Popping an empty
`std::stack` and using the null or dummy head lead to `pc = "undefined"`, from
where nothing more is said. `Read` of the head may throw (Traverser.cpp:25 is
inside no `try`), and `info()` raises: `pc = "raised"`.

The history variables `quirks`, `bare` and `seen` record what the document
really held: which of ten irregularities have occurred, and where the last
named element lies. Properties name the quirks they exclude, so each says
exactly which documents it is about. `Admitted` limits the quirks of a run.

### EBMLCallback, Vint, VintStream

A byte has `ByteBits` bits. Every width the code derives from 8 is derived from
`ByteBits`: the longest vint, the bits of a size, `int64_t` (`Signed`). A read
at the end of the file leaves `unsigned char value;` as it was, so
`read_uint8`, `read_uint32_be` and what is built on them answer with a *set* of
outcomes; `OneOutcome` shows that for `vint::read` it has one element.

### KaxFile

Calls between `read_next_level1_element_internal` and
`resync_to_level1_element_internal` are tail calls, so a call of the caller is
a sequence of steps: `read_next_level1_element` for each activation of the
former, `resync_to_level1_element` for the beginning of the latter, `ScanByte`
for each turn of its loop. The search for three more headers is one step of
`ScanByte` (nothing can interrupt it): `Chains` follows the links, with the
unsigned sum of line 151 in `Behind` and the failing seek in `setFilePointer`.
The caller is the loop of `handle_segment` when `WantedId = 0`, else somebody
who uses `read_next_cluster` and, if `Asks` says so, `resync_to_cluster`.

libebml is external: `Header` is what it takes for a header, `FindNextElement`
the first one at or behind the pointer, `ChildrenEnd` how far `Read` takes
elements as children of a master of unknown size. `Read` throws at the
positions in `damaged`, chosen once, since reading the same bytes twice gives
the same answer. The Segment ends where its header says (KaxFile.cpp:214): up to
`Beyond` bytes before the end of the file, at it, or, in a file that was cut
off, `Missing` bytes behind it; then `segment_end` is no position in the file,
and only failing reads end the loops. The timer of `resync`
(KaxFile.cpp:124-130) restarts itself and has no other effect; it is left out. A resync that has found something
calls `read_next` inside itself, so `ResyncMovesOn` bounds how deep the calls
nest: each such call begins further on than the resync before it.

### EbmlCallbacks

`do_find_ebml_callbacks` is a recursive function over the classes: the class
itself, then what lies directly in it, then what is found below each, passing
over a class whose context is the one searched (`OtherContext`, KaxFile.cpp:247).
`s_cache` is the static table. It is keyed by the ID alone and holds nullptr as
well, so it is right only while every search begins at the same base;
`LookupSpec` is the specification of such a caller, as `read_one_element` is one.

### Trees

A tree is a function from places: `<<>>` is its root, and the children of the
node at `at` are at `Append(at, i)`, in the order of `i`. What a recursion of
the code has built is so one function, of which properties can speak place by
place. Numbers may be missing among siblings, as they are when an element is
not shown.

### ReadOneElement

The level 1 elements of any number of files, one after the other.
`read_one_element` looks the semantics up, has libebml read the element with
them (or throw) and decides with `found_in` whether to delete the upper level
element. An element is a tree (`Trees`), in which `ClassesIn` gives each node its
class: the children of the level 1 element by the semantics looked up, theirs by
their own. A pointer is a place in the tree `Read` has built, so ownership is
membership. libebml may hand back any
element of that tree, or one outside it (`UpperElements`). `OpenSegment` and
`CloseSegment` are where a file begins and ends; `s_cache` is the only variable
they do not reset, apart from the histories. `ReadSpec` lets files be opened and
closed at any time, so what is proved of it holds for every caller.

### XmlJson

Both passes of `Utils.cpp` over trees of XML nodes (`Trees`): the first makes
every element an item of a list under its name, a text if its first child is
one, the second replaces each list of a single text by that text. A JSON value
is a function, too, from ways to what is found there: a step `<<key, i>>` leads
to item `i` of the member `key`, `<<key, 0>>` to the member itself. `push_back`
and `Strings` are what the code uses of `nlohmann::json`, with the conversions
of null those operations make. The loop of `xmlToJsonObject` is `jsonObj`, its
recursion `json`; the second pass touches no list that the other replacements
depend on, so it is one set of replacements.

### Mkvinfo

The composition. `Document` puts what is shown of the elements read into the
`Frame` of head and Segment, where `traverse` writes it. `Call` is Python calling `info()` with any of `Files`;
`NextElement` is a turn of the loop of `handle_segment`, which reads an element;
`LeaveSegment` ends a Segment without a Cluster; `Answer` is the parser and both
passes, and answers JSON, the empty string, or raises, which is what `dump()`
does for a string that is no UTF-8. Each action contains one of `ReadOneElement`
(`OpenSegment`, `read_one_element`, `CloseSegment`) or leaves its variables
alone, and `Init` contains `ReadInit`; so every behaviour of `Mkvinfo` is one of
`ReadSpec`.

`Mkvinfo` does not repeat the walk and the reader. It uses what the other
modules show: level 1 elements come in their order, and after one that cannot
be read the reader takes up again at some later one or at none (`KaxFile`);
the text of a document without quirks has each element where it lies
(`Traverser`). So its files have only two of the quirks of `Traverser`, names
that are no XML names and a missing Cluster; which of both leaves the text
unparsable is taken over in `Parses` and `Closed`.

## Runs

| run | config | bounds | shows |
|---|---|---|---|
| documents | MCTraverser | 6 elements, 2 names, all quirks | the safety invariants of the walk, the inductive one, and that the walk ends, heads that cannot be read included |
| regular | MCRegular | 9 elements, 2 names, no quirk | the walk implements `Transcript`: elements in their places, and no end but with a text that parses |
| odd_name, no_cluster, empty_value | MCOddName, MCNoCluster, MCEmptyValue | one quirk each | violations, see below |
| vint | MCVint | 3-bit bytes, all files of up to 5 bytes | what `vint::read` gives |
| kax_segment | MCKaxFile | files of 5 pieces, cut off or not | the loop of `handle_segment` |
| kax_cluster | MCKaxCluster | files of 4 pieces, `Read` throwing | `read_next_cluster` and `resync_to_cluster` in any order |
| kax_odd | MCKaxOdd | files of 5 odd pieces | unknown and negative sizes, cut off headers |
| kax_termination | MCKaxTermination | files of 3 odd pieces, `Read` throwing | calls end |
| kax_three_headers | MCKaxThreeHeaders | files of 4 odd pieces | violation, see below |
| calls | MCMkvinfo | 2 calls, 60 files of two level 1 elements and a Cluster, `Read` throwing | the table, ownership, JSON and its tracks over repeated calls |

*Why the bounds are enough.* The walk's defects need a head, a Segment, one
element that sets the state up, one that meets it and a Cluster: five elements;
six leave one more, and the properties that hold are proved for any number.
Bytes of three bits have vints of one, two and three bytes and an overlong one
of four, and five bytes hold the longest with one to spare at either end. A
level 1 ID has two bytes, so a resync can begin inside one, and a chain of four
headers, what resync looks for, fits in four or five pieces. The pieces are
chosen so that a header can be cut off by the end of the file, an element can
hold another, a size can be overlong, jump backwards (-4) or to a refused
negative offset (-19). Bytes may follow the Segment (`Beyond`), or the file may
lack three bytes of it (`Missing`), as many as an ID and a size take. The second call
of `calls` meets the table the first one has filled, which is the only thing
it inherits; each file is one of 15 elements that differ in a way the code can
tell (one or two namesakes, namesakes with another in between, blank, escaped
and undecodable text, tags nested in themselves, elements that resynchronising
brings up at level 1 where they have no place, IDs of no class), one of four
that may follow, and a Cluster, which a `Read` that throws may lose. The
semantics are a part of libmatroska's with each shape of context in it.

*Deadlock.* `CHECK_DEADLOCK FALSE` is set where the program stops: at the end
of the walk, of the caller's loop and of the last call. Reading vints never
stops, so `vint` checks for deadlock.

*Fairness.* The two liveness properties assume `WF_vars(Next)`: a call on a
single thread goes on as long as it has something to do. Nothing is assumed of
the file.

### What the runs found

* **A name that is no XML name** (`odd_name`). `ms_names` holds texts such as
  `Language_(IETF_BCP_47)` (Traverser.cpp:352). The text does not parse, and
  `info()` answers the empty string, which `test/test.py:5-6` passes to
  `json.loads`.
* **A Segment without a Cluster** (`no_cluster`). Only one tag is closed at the
  end (Traverser.cpp:50-53); the masters around the last element stay open.
* **A string element of length 0** (`empty_value`). Nothing tells it from a
  master (Traverser.cpp:115): it is pushed and never popped.
* **One ID is enough for resync** (`kax_three_headers`). The comment at
  KaxFile.cpp:55-57 asks for three valid ID/sizes. `is_unknown()` is also true
  of an invalid vint and is tested first (KaxFile.cpp:146), so a header whose
  size is cut off is accepted.

Four limits are part of the models or the properties, since the code promises
nothing there. `traverse` goes on to a second Segment (Traverser.cpp:35-48) with
the level the first one has set (line 131) and the `prev_level` its Cluster has
left (line 106), so it may be written inside the first one, or more tags be
popped than there are: `DefinedBehaviour` and `TextIsTranscript` except what
follows a Segment (`more_top`), `StackIsOpenTags` does not. A text that is no UTF-8 makes `info()` raise, and the document
it lies in has no answer (`Answer` in `Mkvinfo`).
`AcceptanceDetermined` excepts overlong negative sizes: behind one the sum of
KaxFile.cpp:151 can wrap so that the seek is refused and the next ID is read
at the end of the file, from bytes nothing has written. `OverlooksNothing` is
about places *behind* the start of a resync: the position it starts at is never
tried.

## Proofs

**The walk.** `TraverserProofs` proves, for every set of names, every
`Admitted` and every `MaxElements`:

| theorem | says |
|---|---|
| `Invariance` | `Spec => []IInv` |
| `TypeCorrectness` | the variables keep their types |
| `StackMirrorsText` | `StackIsOpenTags`: the tags open in the text are the root and `key_stack` |
| `NoUndefinedBehaviour` | `DefinedBehaviour`: without a named cause no empty stack is popped |
| `FaithfulTranscript` | `TextIsTranscript`: named elements are written where they lie |
| `RegularAnswer` | `RegularTextParses`: a document without quirks gives a complete text |
| `WalkImplementsTranscript` | `Spec /\ [](quirks = {})` implies `WritesTranscript` |
| `RegularDocumentsTranscribed` | with `Admitted = {}`, `Spec => WritesTranscript` |

The assumptions are those of the modules: `NamesAssumption` (the texts the
code treats specially are different from the others), `BoundAssumption`,
`AdmittedAssumption`.

The safety properties are not inductive: that no empty stack is popped says
nothing of how many entries it has. `IInv` adds three facts.
`LevelCountsFrames`: `level` is the number of masters being visited, plus one
in a Segment. `StackCoversLevels`: without a cause for undefined behaviour the
stack has at least `level` entries, and at least `prev_level` until a Cluster
has closed tags without updating it. `StackIsPath`: without a misplacing quirk
what the next element shown will find on the stack (`StackLeft`) is exactly the
path of masters around it, where `prev_level` is `level - 1` just behind a
master's tag (`bare`) and at least `level` otherwise. Each action is shown to
preserve each conjunct; a lemma says what `ui_show_element` does to the stack
and the text, and the actions that call it cite that lemma. `documents` checks
`IInv` on the same model.

The refinement rests on the same invariant. Tags are closed one element too
late, so the state of the text alone says nothing of where the document is;
`TextIsTranscript` and `StackIsPath` equate the last element written with
`seen`, the last named element of the document, and each action is then mapped
by what it did to the document: an element delivered is a step of `Transcript`
or, when it is not written, a stutter. The end of the walk is no stutter, as
`ended` tells it apart: `Transcript` lets it end only with a complete text, so
each of the ways out has to lead to a text that parses, or to need a quirk.
That the walk does come to an end is `Termination`, which only TLC checks.

**The reader.** `KaxFileProofs` first proves, for every file, every set of IDs
and whatever `vint::read` and libebml answer:

| theorem | says |
|---|---|
| `ReaderInvariance` | `Spec => []ReaderInv` |
| `ResyncLeavesFlagOnFailure` | `ResyncedMeansNothingFound`: a call that returns with the flag up hands back nothing |
| `OnlyWanted` | `DeliversWanted`: who asks for Clusters gets Clusters |
| `ResyncProgress` | `ResyncMovesOn`: a resync that finds something ends behind where it began |

`ReaderInv` says that the pointer is a position whatever seeks were refused,
that in the loop of a resync it is at least one ID behind the place the resync
began at or at the end of the file (`WindowBehindStart`), and that what is about
to be returned and what was delivered is what was asked for. `WindowBehindStart`
is what makes `ResyncMovesOn` inductive: an accepted candidate begins `IdBytes`
before the pointer, and the pointer has moved on by a byte by then.

These hold whatever `vint::read` and libebml answer. The second half of
`KaxFileProofs` takes the bytes in: for every file, every set of level 1 and global IDs, every choice
of positions at which `Read` throws,

| theorem | says |
|---|---|
| `SegmentInvariance` | `Spec => []SegmentInv`, the frame the others rest on |
| `TypeCorrect` | `TypeOK`: in particular what is returned begins inside the file |
| `OutsideBehindBrokenHeader` | `OutsideOnlyBehindBrokenHeader`: what lies behind the Segment is delivered only for want of a header inside |
| `CandidateDetermined` | `AcceptanceDetermined`: bytes nobody has read decide on no candidate |
| `NothingOverlooked` | `OverlooksNothing`: a resync that gives up had nothing to find |
| `DeliveredInOrder` | `InOrder`: no byte is delivered twice, elements come in the order of the file |
| `DocumentDelivered` | `DeliversDocument`: of the regular beginning of a Segment nothing is lost |

* `SegmentInv` says that the file keeps its bytes and that all the reader holds
  are elements of it, wherever the Segment claims to end: nothing is assumed of
  `segment_end` but that it is a number, so files that are cut off are included.
* `SearchInv`, for `OverlooksNothing`: in the loop of a resync `actual_id` is
  the number the last `IdBytes` bytes form, and no place the loop has passed
  has four headers in a row. A turn of the loop keeps it because the chain of
  such a place is the same whichever uninitialised bytes the reads hand out.
* `OrderInv`, for `InOrder`: all that was delivered ends at or before the file
  pointer. This is not quite so: behind an empty master of unknown size
  libebml leaves the pointer *at* the size field. The invariant therefore
  allows that place, and the proof needs that no known ID is read there or
  begins inside it, since such a size field is all ones and no ID is
  (`NoIdAtSizeField`, `NoIdInSizeField`).
* `DocumentInv`, for `DeliversDocument`: either the whole regular beginning has
  been delivered, or what was delivered, with what has just been returned,
  followed by the regular beginning of what lies at the file pointer, is the
  regular beginning of the Segment. The theorem assumes `Asks =
  {"read_next"}`, as `handle_segment` does: who asks for a resync passes over
  the element the reader stands at, by design.

`OrderInv` was model-checked on the three instances of the reader before it was
proved; no run repeats that.

**The integers.** `VintStreamProofs` proves, for bytes of any width, files of
any length and reads in either mode at every place:

| theorem | says |
|---|---|
| `TypeCorrect` | `TypeOK`: a read ends inside the file and gives what an `int64_t` holds |
| `ReadDeterministic` | `OneOutcome`: uninitialised bytes change nothing |
| `CodedRead` | `ReadsWhatIsCoded`: it gives what EBML says is coded there, and steps exactly over it |
| `NegativeOnlyOverlong` | `OnlyOverlongIsNegative`: IDs are positive, and a negative size is one byte too long |

The loops of `vint::read` are recursive functions; `VintProofs` shows by
induction what each has computed after every turn, in the arithmetic of
`int64_t`, and `StreamInvariant` is the sum of it for the last read.

**The table.** `ReadOneElementProofs` proves `TableNeverStale`: `LookupSpec =>
[]CacheIsTransparent`, for all classes, IDs and contexts; the invariant is
inductive as it stands. `TableFindsWhatIsBelow` adds that the answer is right
(`FindsWhatIsBelow`): a class is found exactly when it may lie in a Segment, at
any depth.

**The elements read.** It also proves of `ReadSpec`, for all
semantics, elements of any depth and any number of files:

| theorem | says |
|---|---|
| `TableServesReading` | `CacheIsTransparent` and `FindsWhatIsBelow`, since every step is a lookup from the base Segment, or none |
| `ReadingForgets` | `ReadsAlike`: every element is shown as a process that has read nothing before would show it |
| `OwnershipRespected` | `DeletesWhatNobodyOwns`: what lies in the tree is not deleted, what lies outside is |

All need `FileInv`: what is still to be read are elements of the files, so
that their IDs have an entry in every search. `ReadsAlike` is what
`CacheIsTransparent` is for: the element is read with the table *as the lookup
leaves it*, and that entry is what a search gives, although elements that could
not be read have left entries, too.

For `OwnershipRespected`, `FoundFromTheRoot` says that `found_in` finds a place
exactly if it lies in the tree. It is by induction on the way from the root to
the place: each element around a place in the tree is in the tree
(`AroundInTree`), and is a master, or it would have no child there. What
`Read` builds is a tree (`ReadIsTree`), although it leaves out whatever lies in
an element of no known class.

**The answer.** `XmlJsonProofs` proves, for every XML document whose texts are
in nodes without children (`IsDocument`; the walk writes no others),
`NoValueIsLost`: both passes make a complete JSON value (`IsJson`) of exactly
the document's values, each at its place (`Leaves(json) = Values(xml)`).
`MkvinfoProofs` proves of `Spec`, for all names, semantics and files and any
number of calls:

| theorem | says |
|---|---|
| `InfoImplementsReading` | `Spec => ReadSpec`: `info()` reads elements as `ReadOneElement` does |
| `InfoKeepsTableAndHeap` | so what is proved of it holds here: `CacheIsTransparent`, `FindsWhatIsBelow`, `DeletesWhatNobodyOwns` |
| `AnswerTellsAll` | `EveryValueInPlace`: a JSON answer holds every value of the elements shown, in its place, and nothing else |
| `ScriptAlwaysServed` | `ScriptFindsTracks`, of files with regular tracks: an answer of a call that has read them has all that test.py indexes |

* *Both passes.* An induction over the tree, within it one over the children
  of a node, gives the value of the first pass in a form without recursion
  (`IsPart`, `IsWhole`): which ways there are, and what is found at each. The
  step is `Pushed`: pushing the value of one more child adds the ways below it,
  makes its list longer by one, and leaves everything else. `IsShort` is the
  same after the second pass. What makes it provable is that a way is a place
  under another name (`WayToOnce`): siblings of one name are told apart by
  their numbers, so no two nodes are pushed to the same item.
* *The answer.* `AnswerInv` says that as long as an answer stands it is what
  the two passes make of the elements shown. With `ReadsAlike`, these are the
  elements as a fresh process would read them. What is left is that
  `EveryValueInPlace` speaks of an element read with the semantics of *its own*
  class, `ReadsAlike` of the class the search finds for its ID below a Segment.
  The two can differ, when an ID is found deeper down although no class of a
  Segment has it; but then the element is an `EbmlDummy` and nothing of it is
  shown (`OwnSemantics`, `ShownAsTheyAre`).
* *The script.* Every `Tracks` in the document is one of an element shown
  (`TracksAreFound`), and one that was read is there. Going down as test.py
  does: one without a text, as the Segment and the `Tracks` are, makes its
  namesakes a list, in an object, with a first item (`NamedMakeList`). The tracks hold
  a type each, so they are objects, and their list is never replaced by a text;
  a `Track_type` or `Track_number` is the only one of its name in its track and
  a text, so its list always is (`OneTextIs`); a video or an audio never is one
  (`MastersAre`). The hypothesis `TracksAreRegular` says of the files what
  Matroska says: a `Tracks` holds a `Track`, a `Track` one type and one number
  with a text, a `Video_track` or `Audio_track` something. Without a type the
  script would not find it, with two it would find a list, and a `Video_track`
  with nothing in it would be a leaf. `MCMkvinfo` assumes it of its files, which
  TLC evaluates, so the theorem speaks of the files of the run. Nothing is said
  of calls that have read no `Tracks`: there are none in the file, or only behind
  the Cluster, or a resync has passed over them; `data['Segment'][0]['Tracks']`
  (test.py:10) raises then. Nor is it said that a number is one `int()` takes
  (test.py:31): the wording of values is left out.

**How recursion is proved about.** A recursive function is a CHOOSE of a
solution of its equation, so nothing can be said of it before a solution is
known to exist. `RecursionLemmas` proves that one does when the right-hand side
looks only at arguments of a lower rank (`RecursionByRank`). It and `Induction`
speak of sets and functions, not of operators, so every step can cite them. The
rank is the number of turns left for a loop, the distance to the end of the
file for `Document` of the reader, the number of elements that lie deeper for
`found_in`, the depth for `ClassesIn`. `TreeInduction` goes from the leaves of a
tree up; with it the result of `xmlToJsonObject` is built node by node.
Nothing ranks the classes, so `SearchEquation` builds the solution class by
class instead.

**What is assumed of the constants**, beyond their types:

* `ByteAssumption`: a byte has at least two bits. With one bit a vint would
  have no bits left for its value.
* `CodedIdsAssumption`: a level 1 ID is coded in the `IdBytes` bytes that
  `read_uint32_be` reads, and no ID is all ones. EBML reserves the latter, and
  the IDs of libmatroska that KaxFile.cpp names are of four bytes.
* `PositionsAssumption`: a position in the file, and a few headers further, is
  an `int64_t`. Only absurd *sizes* wrap around, not positions.
* `SemanticsAssumption`: apart from classes that lie in themselves, no class
  lies at any depth in itself. `do_find_ebml_callbacks` would not return
  otherwise (KaxFile.cpp:246-252).
* `ElementsAssumption`: an element is a finite tree, and the level 1 elements
  have IDs the model knows (`Ids`, of which some belong to no class).
* `IdsAssumption`: no two classes of libebml and libmatroska have the same ID,
  so that an element has one class wherever it may lie.

**Only model-checked.** The two liveness properties, `Termination` of the walk
and of the reader: liveness under fairness is out of the prover's reach.
`ResyncProgress` is the safety part of the reader's.

## What is not modelled

* The wording of values (`format_element_value`, `strip`, `to_hex`, dates) and
  the constant table of names: only whether a value is empty, blank, holds
  markup or is no UTF-8, and whether a name is an XML name.
* `split` and `contains` of `Utils.cpp`, `EBMLCallback::write`: never called.
* `set_timestamp_scale` and `set_last_timestamp`, which assign their parameter
  to itself (KaxFile.cpp:205-211).
* The upper level element of the head, which `traverse` deletes without asking
  `found_in` (Traverser.cpp:29): whether the head may own it is libebml's affair.
* Allocation, and how many bytes of stack a nested call takes.
* Build files. Of the vendored nlohmann JSON library (`json.hpp`, 24596 lines,
  more than nine tenths of the repository's code) only the operations the
  program uses are modelled; parsing, the binary formats, JSON pointers,
  patches, iterators and number formatting are never reached.

## Order of the modules

Each builds on what the ones before it show.

1. `Traverser` with `Transcript`, its runs, `IInv` and its theorems.
2. `EBMLCallback`, `Vint`, `VintStream`, `KaxFile` and their runs.
3. `EbmlCallbacks`, `ReadOneElement`, `XmlJson` and their composition `Mkvinfo`.
4. `TraverserProofs` with the refinement, the first half of `KaxFileProofs`, the
   table in `ReadOneElementProofs`.
5. `RecursionLemmas` and what it opens: `VintProofs`, `VintStreamProofs`, the
   second half of `KaxFileProofs`, the search and the elements read in
   `ReadOneElementProofs`.
6. `XmlJsonProofs` and, on top of it and `ReadOneElementProofs`,
   `MkvinfoProofs`.
