-------------------------- MODULE MCReplyParsers --------------------------
EXTENDS ReplyParsers, FiniteSetsExt, SequencesExt

Num(n) == [num |-> n]
Bool(b) == [bool |-> b]
Str(s) == [str |-> s]
Null == [null |-> TRUE]
Arr(s) == [arr |-> s]
Obj(f) == [obj |-> f]
ObjectsOf(names, values) == {Obj(f) : f \in UNION {[keys -> values] : keys \in SUBSET names}}

Leaves == {Num(7), Bool(TRUE), Bool(FALSE), Str("s"), Str("struct"), Str("true"), Null}
Arrays == {Arr(<<>>), Arr(<<Num(7), Str("s")>>), Arr(<<Bool(TRUE), Num(7)>>),
           Arr(<<Str("struct"), Arr(<<Arr(<<Null, Num(7)>>)>>)>>), Arr(<<Arr(<<Null, Num(7)>>)>>),
           Arr(<<Obj([k \in {} |-> Null])>>), Arr(<<Obj([x |-> Num(7)]), Str("s")>>)}
Nested == ObjectsOf({"x"}, Leaves \union Arrays)
           \union {Obj([y |-> Obj([x |-> Num(7)]), x |-> Bool(TRUE)])}

AllBodies ==
  LET objects == ObjectsOf({"name", "x"}, Leaves \union Arrays) \union ObjectsOf({"x"}, Nested)
                   \union {Obj([name |-> Str("s"), x |-> v]) : v \in Nested}
  IN  objects \union {Arr(<<o>>) : o \in objects}
        \union {Arr(<<o, p>>) : o \in ObjectsOf({"name"}, Leaves) \union {Null, Num(7)},
                                p \in ObjectsOf({"name", "x"}, {Num(7), Str("s")})}

(* What is directly in a value or a term, and all that is in it *)
Parts(v) ==
  IF Is("arr", v) THEN Range(v.arr)
  ELSE IF Is("obj", v) THEN Range(v.obj)
  ELSE IF Is("slice", v) THEN Range(v.slice)
  ELSE IF Is("map", v) THEN Range(v.map)
  ELSE {}

RECURSIVE AllIn(_)
AllIn(v) == {v} \union UNION {AllIn(u) : u \in Parts(v)}

RECURSIVE MCDepth(_)
MCDepth(v) == IF Parts(v) = {} THEN 0 ELSE 1 + Max({MCDepth(u) : u \in Parts(v)})

AllValues == UNION {AllIn(v) : v \in AllBodies}

MCLabels == {"name", "vhost"}

(* mixed: objects with a name as pairs and those without as maps *)
MCStyles == [obj : {"proplist", "struct", "map", "mixed"}, str : {"bin", "atom"}]

RECURSIVE MCEncode(_, _)
MCEncode(s, v) ==
  CASE Is("num", v)  -> [int |-> v.num]
    [] Is("bool", v) -> [atom |-> BoolText(v.bool)]
    [] Is("null", v) -> [atom |-> NoString]
    [] Is("str", v)  -> IF s.str = "atom" /\ v.str \notin {"true", "false"}
                        THEN [atom |-> v.str] ELSE [bin |-> v.str]
    [] Is("arr", v)  -> [slice |-> [i \in DOMAIN v.arr |-> MCEncode(s, v.arr[i])]]
    [] Is("obj", v)  ->
         LET pairs == [slice |-> SetToSeq({Pair(k, MCEncode(s, v.obj[k])) : k \in DOMAIN v.obj})]
             map   == s.obj = "map" \/ (s.obj = "mixed" /\ "name" \notin DOMAIN v.obj)
         IN  IF map THEN [map |-> [k \in DOMAIN v.obj |-> MCEncode(s, v.obj[k])]]
             ELSE IF s.obj = "struct" \/ DOMAIN v.obj = {}
             THEN [slice |-> <<[atom |-> "struct"], pairs>>]
             ELSE pairs

AllTerms == UNION {AllIn(MCEncode(s, v)) : s \in MCStyles, v \in AllBodies}

(* TLC computes a definition once and a constant at each use of it *)
MCBodies == AllBodies
MCValues == AllValues
MCTerms == AllTerms
============================================================================
