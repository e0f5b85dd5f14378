------------------------------ MODULE XmlJson ------------------------------
(***************************************************************************)
(* xmlToJsonObject and recursiveIteration (src/Utils.cpp): what info()     *)
(* makes of a parsed XML text, and what Python gets of it.                 *)
(*                                                                         *)
(* An XML document is a tree of nodes with a name and the text they begin  *)
(* with, if any.                                                           *)
(*                                                                         *)
(* A JSON value is a function from ways to what is found there.  A step of *)
(* a way is a key and a number: <<key, 0>> leads to the member itself, and *)
(* <<key, i>> to item i of a member that is an array.                      *)
(***************************************************************************)
EXTENDS Trees

NoText == ""

Node(name, text) == [name |-> name, text |-> text]

-----------------------------------------------------------------------------
(* nlohmann::json, as far as it is used                                    *)

Json(type, text, size) == [type |-> type, text |-> text, size |-> size]

Null == [way \in {<<>>} |-> Json("null", NoText, 0)]
String(text) == [way \in {<<>>} |-> Json("string", text, 0)]
Object == Json("object", NoText, 0)
Array(size) == Json("array", NoText, size)

Item(list, i) == Append(Front(list), <<Last(list)[1], i>>)

(* jsonObj[key].push_back(value): operator[] makes null an object and an   *)
(* absent member null, push_back makes null an array.                      *)
push_back(jsonObj, key, value) ==
  LET list == <<<<key, 0>>>>
      size == IF list \in DOMAIN jsonObj THEN jsonObj[list].size + 1 ELSE 1
      pushed == {<<<<key, size>>>> \o way : way \in DOMAIN value}
  IN  [way \in DOMAIN jsonObj \cup {list} \cup pushed |->
         CASE way = <<>>                            -> Object
           [] way = list                            -> Array(size)
           [] way \in pushed                        -> value[Tail(way)]
           [] way \notin {<<>>, list} \cup pushed -> jsonObj[way]]

-----------------------------------------------------------------------------
(* The first pass: every element becomes an item of a list under its name. *)

Breadth(xml) == Max({0} \cup {Last(at) : at \in DOMAIN xml \ {<<>>}})

xmlToJsonObject(xml) ==
  LET json[node \in DOMAIN xml] ==
        LET ChildJson(child) == IF xml[child].text # NoText THEN String(xml[child].text)
                                ELSE json[child]
            (* with the children up to number n                            *)
            jsonObj[n \in 0 .. Breadth(xml)] ==
              IF n = 0 THEN Null
              ELSE IF Append(node, n) \in DOMAIN xml
              THEN push_back(jsonObj[n - 1], xml[Append(node, n)].name, ChildJson(Append(node, n)))
              ELSE jsonObj[n - 1]
        IN  jsonObj[Breadth(xml)]
  IN  json[<<>>]

(* The second pass: a list of a single text becomes that text, wherever it *)
(* lies.                                                                   *)
(* Mutant: a list of several texts becomes the first of them.              *)
ListOfText(json, list) ==
  json[list].type = "array" /\ json[Item(list, 1)].type = "string"

SingleText(json, list) ==
  /\ json[list].type = "array"
  /\ json[list].size = 1
  /\ json[Item(list, 1)].type = "string"

recursiveIteration(json) ==
  LET texts == {list \in DOMAIN json : SingleText(json, list)}
  IN  [way \in DOMAIN json \ {Item(list, 1) : list \in texts} |->
         IF way \in texts THEN json[Item(way, 1)] ELSE json[way]]

(* Every string of a value, for dump() to escape.                          *)
Strings(json) == {json[way].text : way \in {way \in DOMAIN json : json[way].type = "string"}}

-----------------------------------------------------------------------------
(* What the passes are to do                                               *)

(* The way to a node: the name and the number among its namesakes, of each *)
(* node on it.                                                             *)
Namesakes(xml, at) ==
  {sibling \in Children(xml, Front(at)) : xml[sibling].name = xml[at].name
                                          /\ Last(sibling) <= Last(at)}

WayTo(xml, at) ==
  [n \in 1 .. Len(at) |->
     LET on == SubSeq(at, 1, n) IN <<xml[on].name, Cardinality(Namesakes(xml, on))>>]

(* The nodes without children, with their text.                            *)
Values(xml) ==
  {<<WayTo(xml, at), xml[at].text>> :
     at \in {at \in DOMAIN xml \ {<<>>} : Children(xml, at) = {}}}

(* The same of a JSON value: a text in place of a list is its first item.  *)
Leaves(json) ==
  {<<IF Last(way)[2] = 0 THEN Item(way, 1) ELSE way, json[way].text>> :
     way \in {way \in DOMAIN json \ {<<>>} : json[way].type \in {"null", "string"}}}

(* Every value lies in an object, or in an array of one, as one of as many *)
(* items as the array has.                                                 *)
IsJson(json) ==
  \A way \in DOMAIN json \ {<<>>} :
    /\ Front(way) \in DOMAIN json /\ json[Front(way)].type = "object"
    /\ Last(way)[2] # 0 =>
         /\ Item(way, 0) \in DOMAIN json /\ json[Item(way, 0)].type = "array"
         /\ Last(way)[2] \in 1 .. json[Item(way, 0)].size
    /\ json[way].type = "array" => \A i \in 1 .. json[way].size : Item(way, i) \in DOMAIN json
=============================================================================
