---------------------------- MODULE ReplyParsers ----------------------------
(***************************************************************************)
(* The two parsers of a reply of the management API, jsonmap.go and        *)
(* bertmap.go, on the same data.  A JSON value is a record with one field  *)
(* that names its kind: num, bool, str, null, arr (a sequence) or obj (a   *)
(* function from names to values); an Erlang term likewise: int, atom,     *)
(* bin, slice (lists and tuples alike, as the BERT decoder gives them) or  *)
(* map.  A metric's name is the path to its value, ended by Length when it *)
(* counts an array; the code joins the path with dots.                     *)
(***************************************************************************)
EXTENDS Integers, Sequences, Functions

CONSTANTS
  Values,       \* JSON values, with all the values in them
  Terms,        \* Erlang terms, likewise
  Depth(_),     \* Depth(v): how deep a value or a term is nested
  Bodies,       \* the replies, as JSON values
  Labels,       \* the label keys a module asks for
  Styles,       \* how a broker may encode
  Encode(_, _)  \* Encode(s, v): the term that style s writes for the value v

Is(kind, v) == kind \in DOMAIN v
Length == "_len"
Metric(path, n) == [path |-> path, n |-> n]
NoString == ""   \* callers of GetString look at the text only

(* What a field holds, below the name of the field *)
Under(k, metrics) == {Metric(<<k>> \o m.path, m.n) : m \in metrics}

(* Values and terms are finite trees, and each is of one kind *)
ASSUME ValuesAssumption ==
  \A v \in Values :
    /\ Depth(v) \in Nat
    /\ \E kind \in {"num", "bool", "str", "null", "arr", "obj"} : DOMAIN v = {kind}
    /\ Is("num", v)  => v.num \in Int
    /\ Is("bool", v) => v.bool \in BOOLEAN
    /\ Is("arr", v)  => v.arr \in Seq(Values)
    /\ Is("obj", v)  => /\ DOMAIN v.obj \subseteq STRING
                        /\ \A k \in DOMAIN v.obj : v.obj[k] \in Values /\ Depth(v.obj[k]) < Depth(v)
ASSUME TermsAssumption ==
  \A t \in Terms :
    /\ Depth(t) \in Nat
    /\ \E kind \in {"int", "atom", "bin", "slice", "map"} : DOMAIN t = {kind}
    /\ Is("int", t)   => t.int \in Int
    /\ Is("atom", t)  => t.atom \in STRING
    /\ Is("slice", t) => /\ t.slice \in Seq(Terms)
                         /\ \A i \in DOMAIN t.slice : Depth(t.slice[i]) < Depth(t)
    /\ Is("map", t)   => /\ DOMAIN t.map \subseteq STRING
                         /\ \A k \in DOMAIN t.map : t.map[k] \in Terms /\ Depth(t.map[k]) < Depth(t)
ASSUME BodiesAssumption == Bodies \subseteq Values

VARIABLES
  body,     \* what the broker has to say
  style,    \* how it encodes it
  parsed    \* by parser, what it made of it; empty until it has

vars == <<body, style, parsed>>
----------------------------------------------------------------------------
(* jsonmap.go *)

BoolNumber(b) == IF b THEN 1 ELSE 0
BoolText(b) == IF b THEN "true" ELSE "false"

Objects == {v \in Values : Is("obj", v)}

addFields[v \in Objects] ==
  UNION {LET w == v.obj[k]
         IN  IF Is("num", w) THEN {Metric(<<k>>, w.num)}
             ELSE IF Is("arr", w) THEN {Metric(<<k, Length>>, Len(w.arr))}
             ELSE IF Is("obj", w) THEN Under(k, addFields[w])
             ELSE IF Is("bool", w) THEN {Metric(<<k>>, BoolNumber(w.bool))}
             ELSE {}
         : k \in DOMAIN v.obj}

(* A reply that is no object decodes to nothing *)
JSONMap(b) == IF Is("obj", b) THEN addFields[b] ELSE {}

JSONLabel_StringsOnly(object, label) ==
  IF label \in DOMAIN object /\ Is("str", object[label]) THEN object[label].str ELSE NoString
JSONLabel(object, label) ==
  IF label \notin DOMAIN object THEN NoString
  ELSE IF Is("str", object[label]) THEN object[label].str
  ELSE IF Is("bool", object[label]) THEN BoolText(object[label].bool)
  ELSE NoString

JSONNamed(v) == Is("obj", v) /\ DOMAIN v.obj \intersect {"name", "id"} # {}

(* By its place in the list, what is told of an object.  One element that  *)
(* is neither an object nor null and the list is empty. *)
JSONStats(b) ==
  IF ~Is("arr", b) \/ \E v \in Range(b.arr) : ~Is("obj", v) /\ ~Is("null", v) THEN <<>>
  ELSE [i \in {j \in DOMAIN b.arr : JSONNamed(b.arr[j])} |->
          [labels  |-> [l \in Labels |-> JSONLabel(b.arr[i].obj, l)],
           metrics |-> addFields[b.arr[i]]]]

JSONString(b, key) ==
  IF Is("obj", b) /\ key \in DOMAIN b.obj /\ Is("str", b.obj[key])
  THEN b.obj[key].str ELSE NoString
----------------------------------------------------------------------------
(* bertmap.go *)

(* A pair: two elements, the first an atom *)
Keyed(t) == Is("slice", t) /\ Len(t.slice) = 2 /\ Is("atom", t.slice[1])

Struct_NotStripped(t) == FALSE
Struct(t) == Keyed(t) /\ t.slice[1].atom = "struct"

(* assertBertProplistPairs: what looks like a list of pairs, with {struct, *)
(* ...} around it or without; only the first element is looked at          *)
Stripped[t \in Terms] == IF Struct(t) THEN Stripped[t.slice[2]] ELSE t

IsProplist(t) ==
  LET list == Stripped[t]
  IN  Is("slice", list) /\ (list.slice = <<>> \/ Keyed(list.slice[1]))
PairsOf(t) == {q \in Range(Stripped[t].slice) : Keyed(q)}

(* iterateBertKV: the keys and values, if there are any *)
IsKV(t) == IsProplist(t) \/ Is("map", t)
KV(t) ==
  IF Is("map", t) THEN {<<k, t.map[k]>> : k \in DOMAIN t.map}
  ELSE IF IsProplist(t) THEN {<<q.slice[1].atom, q.slice[2]>> : q \in PairsOf(t)}
  ELSE {}

Floaty(t) ==
  IF Is("int", t) THEN {t.int}
  ELSE IF Is("atom", t) THEN {BoolNumber(b) : b \in {c \in BOOLEAN : t.atom = BoolText(c)}}
  ELSE {}

ArrayLen(t) ==
  IF Is("slice", t) /\ (~IsProplist(t) \/ t.slice = <<>>) THEN {Len(t.slice)} ELSE {}

parseProplist[t \in Terms] ==
  UNION {LET k == kv[1]
             u == kv[2]
         IN  IF Floaty(u) # {} THEN {Metric(<<k>>, n) : n \in Floaty(u)}
             ELSE {Metric(<<k, Length>>, n) : n \in ArrayLen(u)} \union Under(k, parseProplist[u])
         : kv \in KV(t)}

Stringy(t) ==
  IF Is("bin", t) THEN {t.bin} ELSE IF Is("atom", t) THEN {t.atom} ELSE {}

(* An object with a label that is no text is dropped *)
BERTObject(t) ==
  IsKV(t) /\ \A kv \in KV(t) : kv[1] \in Labels => Stringy(kv[2]) # {}

BERTString_BinaryOnly(t, key) ==
  LET texts == {kv[2].bin : kv \in {x \in KV(t) : x[1] = key /\ Is("bin", x[2])}}
  IN  IF texts = {} THEN NoString ELSE CHOOSE x \in texts : TRUE
BERTString(t, key) ==
  LET texts == UNION {Stringy(kv[2]) : kv \in {x \in KV(t) : x[1] = key}}
  IN  IF texts = {} THEN NoString ELSE CHOOSE x \in texts : TRUE

BERTLabel(t, label) ==
  LET texts == UNION {Stringy(kv[2]) : kv \in {x \in KV(t) : x[1] = label}}
  IN  IF texts = {} THEN NoString ELSE CHOOSE x \in texts : TRUE

BERTStats(t) ==
  IF ~Is("slice", t) THEN <<>>
  ELSE [i \in {j \in DOMAIN t.slice : BERTObject(t.slice[j])} |->
          [labels  |-> [l \in Labels |-> BERTLabel(t.slice[i], l)],
           metrics |-> parseProplist[t.slice[i]]]]
----------------------------------------------------------------------------
(* The broker's encoder, as the recorded replies in testdata/ show it: null *)
(* is the empty atom, an object without fields is never the empty list, and *)
(* the atoms true and false are booleans.  Each object may be written in    *)
(* its own way, and so may each text.                                       *)

Pair(k, t) == [slice |-> <<[atom |-> k], t>>]

(* The fields of v as a list of pairs, in any order *)
PairsFor(s, v, t) ==
  Is("slice", t) /\ Range(t.slice) = {Pair(k, Encode(s, v.obj[k])) : k \in DOMAIN v.obj}

Writes(s, v, t) ==
  /\ Is("num", v)  => t = [int |-> v.num]
  /\ Is("bool", v) => t = [atom |-> BoolText(v.bool)]
  /\ Is("null", v) => t = [atom |-> NoString]
  /\ Is("str", v)  => \/ t = [bin |-> v.str]
                      \/ t = [atom |-> v.str] /\ v.str \notin {"true", "false"}
  /\ Is("arr", v)  => t = [slice |-> [i \in DOMAIN v.arr |-> Encode(s, v.arr[i])]]
  /\ Is("obj", v)  =>
       \/ t = [map |-> [k \in DOMAIN v.obj |-> Encode(s, v.obj[k])]]
       \/ PairsFor(s, v, t) /\ DOMAIN v.obj # {}
       \/ /\ Is("slice", t) /\ Len(t.slice) = 2
          /\ t.slice[1] = [atom |-> "struct"] /\ PairsFor(s, v, t.slice[2])

ASSUME EncodeAssumption ==
  \A s \in Styles : \A v \in Values : Encode(s, v) \in Terms /\ Writes(s, v, Encode(s, v))

Init == body \in Bodies /\ style \in Styles /\ parsed = <<>>

(* MakeReply takes the parser the content type names, of a broker that     *)
(* speaks both *)
Parse ==
  /\ parsed = <<>>
  /\ LET term == Encode(style, body)
     IN  parsed' =
           [json |-> [map |-> JSONMap(body), stats |-> JSONStats(body),
                      string |-> [l \in Labels |-> JSONString(body, l)]],
            bert |-> [map |-> parseProplist[term], stats |-> BERTStats(term),
                      string |-> [l \in Labels |-> BERTString(term, l)]]]
  /\ UNCHANGED <<body, style>>

Next == Parse
Spec == Init /\ [][Next]_vars
----------------------------------------------------------------------------
(* v and the values in it that are reached through objects *)
Within[v \in Values] ==
  {v} \union (IF Is("obj", v) THEN UNION {Within[v.obj[k]] : k \in DOMAIN v.obj} ELSE {})

(* A list that looks like a pair tagged struct, or whose first element     *)
(* looks like a pair, is taken for an object; the recorded replies have no *)
(* such list *)
Clear(s, v) ==
  \A w \in Within[v] :
    Is("arr", w) /\ w.arr # <<>> =>
      ~Struct(Encode(s, w)) /\ ~Keyed(Encode(s, w.arr[1]))

Textual(v, kinds) == \E kind \in kinds : Is(kind, v)
TextLabels(v, kinds) == \A l \in Labels \intersect DOMAIN v.obj : Textual(v.obj[l], kinds)

(* bertmap.go:11-13 promises to parse "in a way that's fully compatible    *)
(* with JSON parser".  So it does for objects whose encoding is clear: the *)
(* same metrics, however the broker writes maps and strings.               *)
SameMap ==
  parsed # <<>> /\ Is("obj", body) /\ Clear(style, body) =>
    parsed.json.map = parsed.bert.map

(* A list of such objects that have a name, and labels that are strings,   *)
(* booleans or null, gives the same labels and metrics.                    *)
SameStats ==
  /\ parsed # <<>>
  /\ Is("arr", body)
  /\ \A v \in Range(body.arr) :
       JSONNamed(v) /\ Clear(style, v) /\ TextLabels(v, {"str", "bool", "null"})
  => parsed.json.stats = parsed.bert.stats

(* The texts of an overview (cluster_name, node, versions) are the same,   *)
(* be they atoms or binaries.                                              *)
SameString ==
  parsed # <<>> /\ Is("obj", body) /\ TextLabels(body, {"str", "null"}) =>
    parsed.json.string = parsed.bert.string
============================================================================
