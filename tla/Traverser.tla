------------------------------ MODULE Traverser ------------------------------
(***************************************************************************)
(* traverse() and the functions it calls (src/Traverser.cpp): the walk     *)
(* over the elements of a Matroska file that writes them as XML text.      *)
(*                                                                         *)
(* The code never closes a tag when an element ends.  ui_show_element      *)
(* closes tags when it meets the NEXT element, as many as the nesting      *)
(* level has fallen since the last element it showed (level, prev_level),  *)
(* and takes their names from key_stack.  The three have to stay in step   *)
(* with each other, with the recursion of handle_elements_generic and with *)
(* the text, for every document.                                           *)
(*                                                                         *)
(* The document is chosen by the environment while it is read: each step   *)
(* delivers any element, or the end of the children of the innermost       *)
(* master.  An element is what the code can tell of it: whether it is a    *)
(* master, a leaf with a value or an EbmlDummy, the text get() finds for   *)
(* its ID, and what kind of value it holds.                                *)
(***************************************************************************)
EXTENDS Integers, Sequences

CONSTANTS
  InnerNames,   \* texts of ms_names for elements below the top level
  OddNames,     \* those that are no XML names: "Language_(IETF_BCP_47)", ...
  Admitted,     \* the quirks documents may have (see Quirk)
  MaxElements   \* bound: how many elements the file delivers at most

Void    == "EBML_void"      \* get() of EbmlVoid
Cluster == "Cluster"        \* any text that contains "Cluster"
NoName  == ""               \* get() of an ID that ms_names does not hold
HeadTag == "EBML_head"
Segment == "Segment"
Root    == "root"

ASSUME NamesAssumption ==
  /\ InnerNames \cap {Void, Cluster, NoName, HeadTag, Segment, Root} = {}
  /\ OddNames \subseteq InnerNames

ASSUME BoundAssumption == MaxElements \in Nat

Names == InnerNames \cup {HeadTag, Segment}

(* The values format_element_value returns, as far as the text depends on  *)
(* them: no characters at all, plain text, or text with "<" in it.         *)
Values == {"empty", "plain", "markup"}

Element ==
       [class : {"master"}, text : Names \cup {NoName}, content : {"empty"}]
  \cup [class : {"leaf"}, text : Names, content : Values]
  \cup [class : {"leaf"}, text : {NoName, Void}, content : {"plain"}]
  \cup [class : {"dummy"}, text : Names \cup {NoName, Void, Cluster},
        content : {"plain"}]

(* Those that lie inside others: no semantic context of libmatroska holds  *)
(* an EbmlHead or a Segment.                                               *)
Child == {e \in Element : e.class # "dummy" => e.text \notin {HeadTag, Segment}}

Master(name) == [class |-> "master", text |-> name, content |-> "empty"]

(* What a document can hold that keeps the text from being its transcript. *)
Quirk == {"no_head",         \* no EbmlHead, or it has no children or is unreadable
          "childless",       \* a master with no child that is shown
          "unnamed_master",  \* a master whose ID ms_names does not hold
          "empty_value",     \* a named string element of length 0
          "odd_name",        \* an element whose text is in OddNames
          "markup",          \* a value with "<" in it
          "cluster_name",    \* a stray element whose text contains "Cluster"
          "no_segment",      \* no Segment
          "no_cluster",      \* a Segment whose walk does not end at a Cluster
          "more_top"}        \* anything but Void after the first Segment

ASSUME AdmittedAssumption == Admitted \subseteq Quirk

VARIABLES
  pc,          \* where traverse() stands
  level,       \* p->level
  prev_level,  \* p->prev_level
  key_stack,   \* p->key_stack, the top last
  frames,      \* the masters whose children handle_elements_generic visits
  result,      \* the text so far, as an XML parser sees it
  unread,      \* the environment: elements the file may still deliver
  quirks,      \* history: the quirks met in the document so far
  bare,        \* history: no element was shown since the last master
  seen         \* history: the last element met that has a name, as a path

walk == <<level, prev_level, key_stack, frames, result>>
history == <<unread, quirks, bare, seen>>
vars == <<pc, walk, history>>

-----------------------------------------------------------------------------
(* The text.  `open` are the tags opened and not closed, `last` is the     *)
(* element written last, as the path of tags that leads to it, and `sound` *)
(* is FALSE once a parser must refuse the text.                            *)

EmptyText == [open |-> <<Root>>, last |-> <<Root>>, sound |-> TRUE]

WithOpen(text, name) ==
  [open  |-> Append(text.open, name),
   last  |-> Append(text.open, name),
   sound |-> text.sound /\ name \notin OddNames]

WithLeaf(text, name, value) ==
  [open  |-> text.open,
   last  |-> Append(text.open, name),
   sound |-> text.sound /\ name \notin OddNames /\ value # "markup"]

(* Closing tags for `tags`, the last one first.                            *)
WithClosed(text, tags) ==
  LET kept == Len(text.open) - Len(tags) IN
  IF kept >= 0 /\ SubSeq(text.open, kept + 1, Len(text.open)) = tags
  THEN [text EXCEPT !.open = SubSeq(text.open, 1, kept)]
  ELSE [text EXCEPT !.sound = FALSE]

(* What pugi::xml_document::load_string answers in info().                 *)
Parses == result.sound /\ result.open = <<>>

-----------------------------------------------------------------------------
(* ui_show_element                                                         *)

(* format_element_value: the formatter map is never filled, a master has   *)
(* no value; a leaf can be empty, or hold markup, when it is a string.     *)
format_element_value(e) == IF e.class = "master" THEN "empty" ELSE e.content

(* Mutants: closes one tag however far the level has fallen; closes one    *)
(* tag too many; closes one too few.                                       *)
PopsAtMostOne == IF prev_level > level THEN 1 ELSE 0
PopsOneTooMany == IF prev_level > level THEN (prev_level - level) + 1 ELSE 0
PopsOneTooFew == IF prev_level > level THEN (prev_level - level) - 1 ELSE 0

Pops == IF prev_level > level THEN prev_level - level ELSE 0

(* Mutant: closes the tags and leaves them on the stack.                   *)
StackNotPopped == key_stack

StackLeft  == SubSeq(key_stack, 1, Len(key_stack) - Pops)
TagsPopped == SubSeq(key_stack, Len(key_stack) - Pops + 1, Len(key_stack))
TextClosed == WithClosed(result, TagsPopped)

(* "Unknown" and "Forbidden" are assigned to a local and never printed.    *)
WritesNothing(e) == e.text = NoName \/ e.class = "dummy"

ui_show_element(e) ==
  \/ /\ e.text = Void
     /\ UNCHANGED <<prev_level, key_stack, result>>
  \/ /\ e.text # Void
     /\ Pops <= Len(key_stack)
     /\ prev_level' = IF e.text = Cluster THEN prev_level ELSE level
     /\ \/ /\ e.text = Cluster \/ WritesNothing(e)
           /\ key_stack' = StackLeft
           /\ result' = TextClosed
        \/ /\ e.text # Cluster
           /\ ~WritesNothing(e)
           /\ format_element_value(e) # "empty"
           /\ key_stack' = StackLeft
           /\ result' = WithLeaf(TextClosed, e.text, format_element_value(e))
        \/ /\ e.text # Cluster
           /\ ~WritesNothing(e)
           /\ format_element_value(e) = "empty"
           /\ key_stack' = Append(StackLeft, e.text)
           /\ result' = WithOpen(TextClosed, e.text)

(* top() and pop() of an empty std::stack: anything may follow.            *)
PopsEmptyStack(e) == e.text # Void /\ Pops > Len(key_stack)

-----------------------------------------------------------------------------
(* The history of the document: what it really holds.                      *)

InSegment == pc = "segment"

(* The names of the elements around the one that comes next.               *)
Around == (IF InSegment THEN <<Segment>> ELSE <<>>) \o frames

Hidden(e) == e.text \in {Void, Cluster}

QuirksOf(e) ==
       (IF e.text = Cluster THEN {"cluster_name"} ELSE {})
  \cup (IF e.class = "master" /\ e.text = NoName THEN {"unnamed_master"} ELSE {})
  \cup (IF e.class = "leaf" /\ e.content = "empty" THEN {"empty_value"} ELSE {})
  \cup (IF e.class = "leaf" /\ e.content = "markup" THEN {"markup"} ELSE {})
  \cup (IF e.class # "dummy" /\ e.text \in OddNames THEN {"odd_name"} ELSE {})

(* The file delivers e; `more` are quirks of the place where it does.      *)
Deliver(e, more) ==
  /\ unread > 0
  /\ unread' = unread - 1
  /\ quirks' = quirks \cup QuirksOf(e) \cup more
  /\ bare' = IF Hidden(e) THEN bare ELSE e.class = "master"
  /\ seen' = IF e.class # "dummy" /\ e.text \in Names
             THEN <<Root>> \o Append(Around, e.text) ELSE seen

Abort ==
  /\ pc' = "undefined"
  /\ UNCHANGED walk

-----------------------------------------------------------------------------
(* handle_elements_generic                                                 *)

(* Mutant: the level is not raised for the children.                       *)
EnterAtSameLevel(e) ==
  /\ ui_show_element(e)
  /\ level' = level
  /\ frames' = IF e.class = "master" THEN Append(frames, e.text) ELSE frames

(* Entering the function with e, up to the loop over the children.         *)
handle_elements_generic(e) ==
  /\ ui_show_element(e)
  /\ IF e.class = "master"
     THEN /\ level' = level + 1
          /\ frames' = Append(frames, e.text)
     ELSE UNCHANGED <<level, frames>>

(* The loop over the children ends, and the call with it.                  *)
EndChildren ==
  /\ pc \in {"head", "segment"}
  /\ frames # <<>>
  /\ level' = level - 1
  /\ frames' = SubSeq(frames, 1, Len(frames) - 1)
  /\ pc' = IF pc = "head" /\ Len(frames) = 1 THEN "top" ELSE pc
  /\ quirks' = IF bare THEN quirks \cup {"childless"} ELSE quirks
  /\ bare' = FALSE
  /\ UNCHANGED <<prev_level, key_stack, result, unread, seen>>

(* The next child of the innermost master, or in the loop of               *)
(* handle_segment the next level 1 element that is not a Cluster.          *)
NextElement(e) ==
  /\ pc \in {"head", "segment"}
  /\ Deliver(e, {})
  /\ \/ /\ handle_elements_generic(e)
        /\ pc' = pc
     \/ /\ PopsEmptyStack(e)
        /\ Abort

-----------------------------------------------------------------------------
(* handle_segment                                                          *)

(* Mutant: the level is not set for the children of the Segment.           *)
EnterSegmentAtLevel0 ==
  /\ pc \in {"top", "rest"}
  /\ Deliver(Master(Segment), IF pc = "rest" THEN {"more_top"} ELSE {})
  /\ \/ /\ ui_show_element(Master(Segment))
        /\ pc' = "segment"
        /\ UNCHANGED <<level, frames>>
     \/ /\ PopsEmptyStack(Master(Segment))
        /\ Abort

(* The call: the Segment is shown, then p->level is set to 1.              *)
EnterSegment ==
  /\ pc \in {"top", "rest"}
  /\ Deliver(Master(Segment), IF pc = "rest" THEN {"more_top"} ELSE {})
  /\ \/ /\ ui_show_element(Master(Segment))
        /\ level' = 1
        /\ pc' = "segment"
        /\ UNCHANGED frames
     \/ /\ PopsEmptyStack(Master(Segment))
        /\ Abort

(* Mutant: the Cluster is passed over before any tag is closed.            *)
ReachClusterUnclosed ==
  /\ pc = "segment"
  /\ frames = <<>>
  /\ unread > 0
  /\ unread' = unread - 1
  /\ pc' = "rest"
  /\ UNCHANGED <<walk, quirks, bare, seen>>

(* The first Cluster ends the walk over the Segment.                       *)
ReachCluster ==
  /\ pc = "segment"
  /\ frames = <<>>
  /\ unread > 0
  /\ unread' = unread - 1
  /\ \/ /\ ui_show_element(Master(Cluster))
        /\ pc' = "rest"
        /\ UNCHANGED <<level, frames>>
     \/ /\ PopsEmptyStack(Master(Cluster))
        /\ Abort
  /\ UNCHANGED <<quirks, bare, seen>>

(* read_next_level1_element answers null, or the file pointer has left the *)
(* Segment: the loop ends without a Cluster.                               *)
LeaveSegment ==
  /\ pc = "segment"
  /\ frames = <<>>
  /\ pc' = "rest"
  /\ quirks' = quirks \cup {"no_cluster"}
  /\ UNCHANGED <<walk, unread, bare, seen>>

-----------------------------------------------------------------------------
(* traverse                                                                *)

(* FindNextID(EbmlHead) answers null or an EbmlDummy, neither of which     *)
(* the code tests for, or the file could not be opened.                    *)
NoHead ==
  /\ pc = "start"
  /\ quirks' = quirks \cup {"no_head"}
  /\ Abort
  /\ UNCHANGED <<unread, bare, seen>>

(* An EbmlHead with no children: traverse returns at once.                 *)
ReturnEarly ==
  /\ pc = "start"
  /\ pc' = "returned"
  /\ quirks' = quirks \cup {"no_head"}
  /\ UNCHANGED <<walk, unread, bare, seen>>

(* Read throws while it reads the children of the EbmlHead.  Nobody here   *)
(* catches what it throws, so info() raises it.                            *)
RaiseInHead ==
  /\ pc = "start"
  /\ pc' = "raised"
  /\ quirks' = quirks \cup {"no_head"}
  /\ UNCHANGED <<walk, unread, bare, seen>>

ReadHead ==
  /\ pc = "start"
  /\ Deliver(Master(HeadTag), {})
  /\ handle_elements_generic(Master(HeadTag))
  /\ pc' = "head"

(* FindNextID(KaxSegment) answers an EbmlDummy: any other element.         *)
SkipTopElement(e) ==
  /\ pc \in {"top", "rest"}
  /\ e.class = "dummy"
  /\ Deliver(e, IF pc = "rest" /\ e.text # Void THEN {"more_top"} ELSE {})
  /\ \/ /\ handle_elements_generic(e)
        /\ pc' = pc
     \/ /\ PopsEmptyStack(e)
        /\ Abort

(* Mutant: only a Segment lets the loop end.                               *)
FinishAfterSegment ==
  /\ pc = "rest"
  /\ key_stack # <<>>
  /\ key_stack' = SubSeq(key_stack, 1, Len(key_stack) - 1)
  /\ result' = WithClosed(WithClosed(result, <<key_stack[Len(key_stack)]>>), <<Root>>)
  /\ pc' = "done"
  /\ UNCHANGED <<level, prev_level, frames, history>>

(* FindNextID answers null.  One tag is popped, whatever the stack holds.  *)
Finish ==
  /\ pc \in {"top", "rest"}
  /\ quirks' = IF pc = "top" THEN quirks \cup {"no_segment"} ELSE quirks
  /\ \/ /\ key_stack = <<>>
        /\ Abort
     \/ /\ key_stack # <<>>
        /\ key_stack' = SubSeq(key_stack, 1, Len(key_stack) - 1)
        /\ result' = WithClosed(WithClosed(result, <<key_stack[Len(key_stack)]>>),
                                <<Root>>)
        /\ pc' = "done"
        /\ UNCHANGED <<level, prev_level, frames>>
  /\ UNCHANGED <<unread, bare, seen>>

-----------------------------------------------------------------------------
Init ==
  /\ pc = "start"
  /\ level = 0
  /\ prev_level = 0
  /\ key_stack = <<>>
  /\ frames = <<>>
  /\ result = EmptyText
  /\ unread = MaxElements
  /\ quirks = {}
  /\ bare = FALSE
  /\ seen = <<Root>>

(* What the code does next with whatever the file holds.                   *)
Step ==
  \/ NoHead
  \/ ReturnEarly
  \/ RaiseInHead
  \/ ReadHead
  \/ \E e \in Child : NextElement(e)
  \/ EndChildren
  \/ EnterSegment
  \/ ReachCluster
  \/ LeaveSegment
  \/ \E e \in Element : SkipTopElement(e)
  \/ Finish

(* The documents of the model have no other quirks than the ones admitted. *)
Next == Step /\ quirks' \subseteq Admitted

Spec == Init /\ [][Next]_vars

(* traverse() is one call on one thread: nothing but itself can hold it up.*)
FairSpec == Spec /\ WF_vars(Next)

-----------------------------------------------------------------------------
(* Properties                                                              *)

(* Every variable keeps its type.                                          *)
TypeOK ==
  /\ pc \in {"start", "head", "top", "segment", "rest",
             "done", "returned", "raised", "undefined"}
  /\ level \in Nat
  /\ prev_level \in Nat
  /\ key_stack \in Seq(Names)
  /\ frames \in Seq(Names \cup {NoName})
  /\ result \in [open : Seq(Names \cup {Root}), last : Seq(Names \cup {Root}),
                 sound : BOOLEAN]
  /\ unread \in Nat
  /\ quirks \subseteq Quirk
  /\ bare \in BOOLEAN
  /\ seen \in Seq(Names \cup {Root, NoName})

(* In every document, until the last step: the tags left open in the text  *)
(* are the root and the ones on key_stack, so no closing tag ui_show_element *)
(* writes can meet a different opening tag; what a parser has to refuse    *)
(* comes from a name or a value.                                           *)
StackIsOpenTags ==
  pc # "done" => /\ result.open = <<Root>> \o key_stack
                 /\ result.sound \/ quirks \cap {"odd_name", "markup"} # {}

(* The stack is popped empty, or the missing EbmlHead dereferenced, only   *)
(* in documents that give cause: surplus entries (empty values, masters    *)
(* without children) never make the level arithmetic pop too much.         *)
Perilous == {"no_head", "unnamed_master", "cluster_name", "no_segment",
             "more_top"}

DefinedBehaviour == quirks \cap Perilous = {} => pc # "undefined"

(* The text places every named element of the document under exactly the   *)
(* elements it lies in, and leaves none out, although tags are closed      *)
(* late: until the first document feature that breaks the bookkeeping.     *)
Misplacing == Perilous \cup {"childless", "empty_value"}

TextIsTranscript == quirks \cap Misplacing = {} => result.last = seen

(* What info() hands to the XML parser is complete for every document with *)
(* one Segment that reaches a Cluster and none of the quirks.              *)
RegularTextParses == pc = "done" /\ quirks = {} => Parses

(* The script that calls info() takes every answer for JSON; what does not *)
(* parse is answered with "", which is none.                               *)
InfoAnswersJson == pc = "done" => Parses

(* What a proof of these needs to know between the steps.  Walking: the    *)
(* level counts the masters entered, from 0, and from 1 once a Segment was *)
(* entered.                                                                *)
Walking == pc \in {"start", "head", "top", "segment", "rest"}

LevelCountsFrames ==
  /\ Walking => level = Len(frames) + IF pc \in {"segment", "rest"} THEN 1 ELSE 0
  /\ pc \in {"start", "top", "rest"} => frames = <<>>
  /\ pc = "start" => key_stack = <<>> /\ prev_level = 0

(* There are enough entries to pop, until the pops are no longer recorded  *)
(* in prev_level, as after a Cluster.                                      *)
StackCoversLevels ==
  Walking /\ quirks \cap Perilous = {} =>
    /\ Len(key_stack) >= level
    /\ pc # "rest" => Len(key_stack) >= prev_level

(* As the next element shown will find it, the stack holds the elements    *)
(* around it; only a master nothing was shown in is ahead of prev_level.   *)
StackIsPath ==
  quirks \cap Misplacing = {} =>
    /\ Walking /\ pc # "rest" =>
         /\ StackLeft = Around
         /\ prev_level = level - 1 \/ prev_level >= level
         /\ prev_level < level <=> bare
    /\ pc = "rest" /\ "no_cluster" \notin quirks => key_stack = <<Segment>>

(* The inductive invariant: all of these, and what they rest on.           *)
IInv ==
  /\ TypeOK
  /\ LevelCountsFrames
  /\ StackIsOpenTags
  /\ StackCoversLevels
  /\ StackIsPath
  /\ DefinedBehaviour
  /\ TextIsTranscript
  /\ RegularTextParses

(* On every finite document traverse() comes to an end: wherever a         *)
(* document stops, in whatever state, there is a way on from there.        *)
Termination == <>(pc \in {"done", "returned", "raised", "undefined"})

(* The walk as Transcript sees it.                                         *)
Abstract == INSTANCE Transcript
  WITH around   <- IF pc \in {"rest", "done"} THEN <<>> ELSE Around,
       last     <- result.last,
       ended    <- ~Walking,
       complete <- Parses

(* On documents without quirks the walk writes the document depth first,   *)
(* each element inside the one it lies in, and does not end, in whatever   *)
(* way, but with a text that parses.                                       *)
WritesTranscript == Abstract!Spec
=============================================================================
