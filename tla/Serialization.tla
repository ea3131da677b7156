---------------------------- MODULE Serialization ----------------------------
(***************************************************************************)
(* How values are written and read back: the serializer streams a value   *)
(* to a consumer (ToData), which is a collector, a JSON streamer or the    *)
(* builder of protobuf messages; what these made is streamed to the        *)
(* deserializer, which collects it (Collected) and converts it (Convert).  *)
(*                                                                         *)
(* A value with an identity has an `id`: occurrences of the same id are    *)
(* the same pointer.  Texts are abstract, and "long" ones are those that   *)
(* the JSON streamer wants to see once.                                    *)
(*                                                                         *)
(* A type is its name: writer and reader mean the same by it.  Left out:   *)
(* the panic of a reader that has loaded a different type of that name.    *)
(***************************************************************************)
EXTENDS Integers, Sequences, SequencesExt, FiniteSets, TLC

CONSTANT LongTexts   \* strings of the length that the JSON streamer deduplicates

Undef     == [k |-> "undef"]
Default   == [k |-> "default"]
IntV(n)    == [k |-> "int", n |-> n]
Float(f, whole) == [k |-> "float", f |-> f, whole |-> whole]
Str(s)    == [k |-> "str", s |-> s]
Arr(id, elems) == [k |-> "array", id |-> id, elems |-> elems]
Hash(id, pairs) == [k |-> "hash", id |-> id, pairs |-> pairs]
Sensitive(id, v) == [k |-> "sensitive", id |-> id, inner |-> v]
Binary(id, s) == [k |-> "binary", id |-> id, s |-> s]
Text(id, ty, s) == [k |-> "text", id |-> id, ty |-> ty, s |-> s]  \* SerializeAsString
Runtime(id) == [k |-> "runtime", id |-> id]                        \* RuntimeValue
ObjType(id, name) == [k |-> "type", id |-> id, name |-> name]      \* px.ObjectType
Object(id, ty, attrs) == [k |-> "object", id |-> id, ty |-> ty, attrs |-> attrs]

AllKeysAreStrings(h) == \A i \in DOMAIN h.pairs : h.pairs[i][1].k = "str"
Entry(h, key) == {h.pairs[i][2] : i \in {j \in DOMAIN h.pairs : h.pairs[j][1] = Str(key)}}
Flat(pairs) == FlattenSeq(pairs)

(***************************************************************************)
(* serializer.go.  An event is [e, v] with e = "add", "array", "hash",     *)
(* "end" or "ref".  `to` holds the options of the serializer and what the  *)
(* consumer can do.                                                        *)
(***************************************************************************)
TypeKey  == Str("__ptype")
ValueKey == Str("__pvalue")
MaxDedup == 2
NoDedup  == 0

\* How an unknown value reads; a sensitive one does not show what it holds
ToText(v) == Str(CASE v.k = "sensitive" -> "redacted" [] v.k = "binary" -> v.s
                   [] v.k = "int" -> ToString(v.n) [] OTHER -> "text")
Known(to, name) == name \in to.known

\* What a value is streamed as: `key` holds the key for deduplication, if there is one,
\* and parts are pairs of a level and a value
Key(v) == {[id |-> v.id]}
Form(key, as, parts) == [key |-> key, as |-> as, parts |-> parts]
Plain(v) == Form({}, "add", <<v>>)
Instead(key, level, v) == Form(key, "instead", <<<<level, v>>>>)
Rich(key, type, parts) == Form(key, "hash", <<<<2, TypeKey>>, <<1, type>>>> \o parts)
Valued(key, type, v) == Rich(key, type, <<<<2, ValueKey>>, <<1, v>>>>)
Pairs(pairs) == FlattenSeq([i \in DOMAIN pairs |-> <<<<2, pairs[i][1]>>, <<1, pairs[i][2]>>>>])
TextKeys(pairs) ==
  [i \in DOMAIN pairs |-> IF pairs[i][1].k = "str" THEN pairs[i]
                                                  ELSE <<ToText(pairs[i][1]), pairs[i][2]>>]

HashForm(to, h) ==
  IF to.complexKeys \/ AllKeysAreStrings(h) THEN
    Form(Key(h), "hash", Pairs(h.pairs))
  ELSE IF to.rich THEN
    Valued(Key(h), Str("Hash"), [k |-> "list", elems |-> Flat(h.pairs)])
  ELSE
    Form(Key(h), "hash", Pairs(TextKeys(h.pairs)))

\* pcoreTypeToData
TypeAsData(to, t) == IF Known(to, t.name) THEN Str(t.name) ELSE t

RichForm(to, v) ==
  CASE v.k = "type" /\ Known(to, v.name) ->
         Form(Key(v), "hash", <<<<2, TypeKey>>, <<2, Str("Type")>>, <<2, ValueKey>>,
                                <<1, Str(v.name)>>>>)
    [] v.k = "type" -> Rich(Key(v), Str("ObjectType"), <<<<2, Str("name")>>, <<1, Str(v.name)>>>>)
    [] v.k = "text" -> Valued(Key(v), Str(v.ty), Str(v.s))
    [] v.k = "object" -> Rich(Key(v), TypeAsData(to, v.ty), Pairs(v.attrs))
    [] v.k = "runtime" -> Instead({}, 1, ToText(v))

FormOf(to, level, v) ==
  CASE v.k \in {"undef", "int", "float", "bool"} -> Plain(v)
    [] v.k = "str" ->
         Form(IF to.dedup >= level /\ (to.threshold = 0 \/ v.s \in LongTexts) THEN {v} ELSE {},
              "add", <<v>>)
    [] v.k = "default" ->
         IF to.rich THEN Rich({}, Str("Default"), <<>>) ELSE Instead({}, 1, Str("default"))
    [] v.k = "hash" -> HashForm(to, v)
    [] v.k = "array" -> Form(Key(v), "array", [i \in DOMAIN v.elems |-> <<1, v.elems[i]>>])
    [] v.k = "list" -> Form({}, "array", [i \in DOMAIN v.elems |-> <<1, v.elems[i]>>])
    [] v.k = "sensitive" ->
         IF to.rich THEN Valued(Key(v), Str("Sensitive"), v.inner)
                    ELSE Instead(Key(v), level, ToText(v))
    [] v.k = "binary" ->
         IF to.binary THEN Form(Key(v), "add", <<v>>)
         ELSE IF to.rich THEN Valued(Key(v), Str("Binary"), Str(v.s))
                         ELSE Instead(Key(v), level, ToText(v))
    [] OTHER -> IF to.rich THEN RichForm(to, v) ELSE Instead({}, 1, ToText(v))

RECURSIVE ToData(_, _, _, _)
ToData(to, level, v, st) ==
  LET f == FormOf(to, level, v)
      keys == IF to.dedup = NoDedup THEN {} ELSE f.key
      seen == keys \cap DOMAIN st.refs
      noted == [st EXCEPT !.refs = [x \in keys |-> st.index] @@ @]
      next == [noted EXCEPT !.index = @ + 1]
  IN IF seen # {} THEN
       LET key == CHOOSE x \in seen : TRUE
       IN [st EXCEPT !.out = Append(@, [e |-> "ref", n |-> st.refs[key]])]
     ELSE CASE f.as = "add" -> [next EXCEPT !.out = Append(@, [e |-> "add", v |-> f.parts[1]])]
            [] f.as = "instead" -> ToData(to, f.parts[1][1], f.parts[1][2], noted)
            [] OTHER ->
                 LET all == FoldLeft(LAMBDA s, p : ToData(to, p[1], p[2], s),
                                     [next EXCEPT !.out = Append(@, [e |-> f.as])], f.parts)
                 IN [all EXCEPT !.out = Append(@, [e |-> "end"])]

\* Faulty variant: the consumer is not asked.
SerializedDedupKeys(to, v) ==
  ToData(to, 1, v, [refs |-> <<>>, index |-> 0, out |-> <<>>]).out

\* rdSerializer.Convert: a consumer that wants string keys does not get references for them
Serialized(to, v) ==
  LET level == IF to.dedup >= MaxDedup /\ ~to.complexKeys THEN MaxDedup - 1 ELSE to.dedup
  IN ToData([to EXCEPT !.dedup = level], 1, v, [refs |-> <<>>, index |-> 0, out |-> <<>>]).out

----------------------------------------------------------------------------
(* jsonstreamer.go.  `state` says what a delimiter is wanted for.  The     *)
(* call of a container keeps the state it began in on the Go stack.        *)

Tok(t) == [t |-> t]
Delimiter(state) == CASE state \in {"firstInArray", "firstInObject"} -> <<>>
                      [] state = "afterKey" -> <<Tok(":")>>
                      [] OTHER -> <<Tok(",")>>
\* The state after the delimited value; after an element it is what the element left
Delimited(state, left) == CASE state = "firstInArray" -> "afterElement"
                            [] state \in {"firstInObject", "afterValue"} -> "afterKey"
                            [] state = "afterKey" -> "afterValue"
                            [] state = "afterElement" -> left

\* json.Marshal, in which a float without fraction looks like an integer
Written(v) == CASE v.k = "float" /\ v.whole -> IntV(v.f)
                [] v.k \in {"str", "float", "int", "bool"} -> v
                [] OTHER -> Undef

JsonEvent(j, ev) ==
  LET put(toks) == [j EXCEPT !.out = @ \o Delimiter(j.state) \o toks]
      open(t, state) == [put(<<Tok(t)>>) EXCEPT !.state = state,
                                                 !.stack = Append(@, <<j.state, ev.e>>)]
      leave == Last(j.stack)
  IN CASE ev.e = "add" -> [put(<<[t |-> "lit", v |-> Written(ev.v)]>>) EXCEPT
                              !.state = Delimited(@, @)]
       [] ev.e = "ref" -> [put(<<Tok("{"), [t |-> "lit", v |-> Str("__pref")], Tok(":"),
                                 [t |-> "lit", v |-> IntV(ev.n)], Tok("}")>>) EXCEPT
                              !.state = Delimited(@, @)]
       [] ev.e = "array" -> open("[", "firstInArray")
       [] ev.e = "hash" -> open("{", "firstInObject")
       [] ev.e = "end" -> [j EXCEPT !.out = Append(@, Tok(IF leave[2] = "array" THEN "]" ELSE "}")),
                                    !.state = Delimited(leave[1], j.state),
                                    !.stack = Front(@)]

Json(events) ==
  FoldLeft(JsonEvent, [out |-> <<>>, state |-> "firstInArray", stack |-> <<>>], events).out

\* encoding/json: Decoder.Token checks the delimiters and leaves out colons and commas
ValueStates == {"top", "arrayStart", "arrayValue", "objectValue"}
Decode(d, tok) ==
  LET state == Last(d.stack)
      value(top) == CASE top = "objectValue" -> "objectComma" [] top = "top" -> "top"
                      [] OTHER -> "arrayComma"
      become(s) == [d EXCEPT !.stack = Append(Front(@), s)]
      take == [become(value(state)) EXCEPT !.out = Append(@, tok)]
      close == [become(state) EXCEPT !.stack = Front(@), !.out = Append(@, tok)]
  IN CASE tok.t = "[" /\ state \in ValueStates -> [take EXCEPT !.stack = Append(@, "arrayStart")]
       [] tok.t = "{" /\ state \in ValueStates -> [take EXCEPT !.stack = Append(@, "objectStart")]
       [] tok.t = "]" /\ state \in {"arrayStart", "arrayComma"} -> close
       [] tok.t = "}" /\ state \in {"objectStart", "objectComma"} -> close
       [] tok.t = ":" /\ state = "objectColon" -> become("objectValue")
       [] tok.t = "," /\ state = "arrayComma" -> become("arrayValue")
       [] tok.t = "," /\ state = "objectComma" -> become("objectKey")
       [] tok.t = "lit" /\ tok.v.k = "str" /\ state \in {"objectStart", "objectKey"} ->
            [become("objectColon") EXCEPT !.out = Append(@, tok)]
       [] tok.t = "lit" /\ state \in ValueStates -> take
       [] OTHER -> [d EXCEPT !.ok = FALSE]
Tokens(text) ==
  FoldLeft(LAMBDA d, tok : IF d.ok THEN Decode(d, tok) ELSE d,
           [out |-> <<>>, stack |-> <<"top">>, ok |-> TRUE], text)

\* jsontodata.go: an object whose first key is __pref is a reference
RECURSIVE JsonValues(_)
JsonValues(toks) ==
  IF toks = <<>> THEN <<>>
  ELSE IF toks[1].t = "{" /\ Len(toks) > 3 /\ toks[2] = [t |-> "lit", v |-> Str("__pref")] THEN
    <<[e |-> "ref", n |-> toks[3].v.n]>> \o JsonValues(SubSeq(toks, 5, Len(toks)))
  ELSE
    <<CASE toks[1].t = "[" -> [e |-> "array"] [] toks[1].t = "{" -> [e |-> "hash"]
        [] toks[1].t \in {"]", "}"} -> [e |-> "end"]
        [] OTHER -> [e |-> "add", v |-> toks[1].v]>> \o JsonValues(Tail(toks))

----------------------------------------------------------------------------
(* proto/convert.go: messages are trees, references stay references.       *)

PbAdd(p, d) == [p EXCEPT !.stack = Append(Front(@), Append(Last(@), d))]
PbEvent(p, ev) ==
  CASE ev.e \in {"array", "hash"} -> [stack |-> Append(p.stack, <<>>), kinds |-> Append(p.kinds, ev.e)]
    [] ev.e = "end" -> PbAdd([stack |-> Front(p.stack), kinds |-> Front(p.kinds)],
                             [pb |-> Last(p.kinds), els |-> Last(p.stack)])
    [] ev.e = "ref" -> PbAdd(p, [pb |-> "ref", n |-> ev.n])
    [] ev.e = "add" -> PbAdd(p, [pb |-> "data", v |-> ev.v])
ProtoMessage(events) == FoldLeft(PbEvent, [stack |-> <<<<>>>>, kinds |-> <<>>], events).stack[1][1]

RECURSIVE ConsumePBData(_)
ConsumePBData(d) ==
  CASE d.pb = "data" -> <<[e |-> "add", v |-> d.v]>>
    [] d.pb = "ref" -> <<[e |-> "ref", n |-> d.n]>>
    [] OTHER -> <<[e |-> d.pb]>> \o FlattenSeq([i \in DOMAIN d.els |-> ConsumePBData(d.els[i])])
                \o <<[e |-> "end"]>>

----------------------------------------------------------------------------
(* basiccollector.go.  Containers are filled when they end; their ids are  *)
(* negative, so that they differ from those of the values streamed.        *)

Ptr(id) == [k |-> "ptr", id |-> id]
Push(c, v) == [c EXCEPT !.stack = Append(Front(@), Append(Last(@), v))]
CollectEvent(c, ev) ==
  CASE ev.e = "add" -> [Push(c, ev.v) EXCEPT !.values = Append(@, ev.v)]
    [] ev.e \in {"array", "hash"} ->
         LET id == -(1 + Len(c.kinds))
         IN [Push(c, Ptr(id)) EXCEPT !.values = Append(@, Ptr(id)), !.stack = Append(@, <<>>),
                                     !.kinds = Append(@, ev.e), !.open = Append(@, id)]
    [] ev.e = "end" -> [c EXCEPT !.heap = (Last(c.open) :> Last(c.stack)) @@ @,
                                 !.stack = Front(@), !.open = Front(@)]
    [] ev.e = "ref" -> IF ev.n < Len(c.values) THEN Push(c, c.values[ev.n + 1])
                                               ELSE [c EXCEPT !.panic = "index out of range"]

Collect(events) ==
  FoldLeft(LAMBDA c, ev : IF c.panic = "" THEN CollectEvent(c, ev) ELSE c,
           [values |-> <<>>, stack |-> <<<<>>>>, open |-> <<>>, kinds |-> <<>>,
            heap |-> <<>>, panic |-> ""], events)

RECURSIVE Built(_, _)
Built(c, v) ==
  IF v.k # "ptr" THEN v
  ELSE LET els == [i \in DOMAIN c.heap[v.id] |-> Built(c, c.heap[v.id][i])]
       IN IF c.kinds[-v.id] = "array" THEN Arr(v.id, els)
          ELSE Hash(v.id, [i \in 1..(Len(els) \div 2) |-> <<els[2 * i - 1], els[2 * i]>>])
Panicked(why) == [k |-> "panic", why |-> why]
Collected(events) ==
  LET c == Collect(events)
  IN IF c.panic # "" THEN Panicked(c.panic) ELSE Built(c, c.stack[1][1])

----------------------------------------------------------------------------
(* deserializer.go.  `st.converted` is the map of the same name; a new     *)
(* object gets the next id.                                                *)

\* Faulty variant: the converted value is not remembered.
ConvertedAnew(st, from, v) == [st EXCEPT !.next = @ + 1]

Converted(st, from, v) == [st EXCEPT !.converted = (from :> v) @@ @, !.next = @ + 1]
Fail(st, why) == [val |-> Panicked(why), st |-> [st EXCEPT !.panic = why]]

RECURSIVE Convert(_, _, _), ConvertAll(_, _, _), ConvertOther(_, _, _)
ConvertAll(rd, vs, st) ==
  FoldLeft(LAMBDA acc, v : LET r == Convert(rd, v, acc.st)
                           IN [vals |-> Append(acc.vals, r.val), st |-> r.st],
           [vals |-> <<>>, st |-> st], vs)

InPairs(vs) == [i \in 1..(Len(vs) \div 2) |-> <<vs[2 * i - 1], vs[2 * i]>>]

\* A hash or array is noted before its elements are converted
Rebuild(rd, from, vs, asHash, st) ==
  LET id == st.next
      shell == IF asHash THEN Hash(id, <<>>) ELSE Arr(id, <<>>)
      all == ConvertAll(rd, vs, [Converted(st, from, shell) EXCEPT !.next = id + 1])
      new == IF asHash THEN Hash(id, InPairs(all.vals)) ELSE Arr(id, all.vals)
  IN [val |-> new, st |-> [all.st EXCEPT !.converted = (from :> new) @@ @]]

\* Types that the reader's loader does not know are new, once per name
NewType(rd, from, name, st) ==
  LET t == ObjType(st.next, name)
      st1 == Converted(st, from, t)
      same == {nt \in st.newTypes : nt.name = name}
  IN CASE same # {} -> [val |-> CHOOSE nt \in same : TRUE, st |-> st1]
       [] same = {} /\ name \in rd.known -> [val |-> ObjType(0, name), st |-> st1]
       [] OTHER -> [val |-> t, st |-> [st1 EXCEPT !.newTypes = @ \cup {t}]]

OfType(rd, h, ty, st) ==
  LET value == Entry(h, "__pvalue")
      args == SelectSeq(h.pairs, LAMBDA p : p[1] # TypeKey)
      made(v, s) == [val |-> v, st |-> Converted(s, h.id, v)]
  IN CASE value # {} /\ ty.name = "Type" ->
            LET n == (CHOOSE v \in value : TRUE).s IN made(ObjType(0, n), st)
       [] value # {} /\ ty.name = "Binary" -> made(Binary(st.next, (CHOOSE v \in value : TRUE).s), st)
       [] value # {} -> made(Text(st.next, ty.name, (CHOOSE v \in value : TRUE).s), st)
       [] value = {} /\ ty.name = "ObjectType" -> NewType(rd, h.id, args[1][2].s, st)
       [] OTHER -> LET all == ConvertAll(rd, Flat(args), st)
                   IN made(Object(all.st.next, ty, InPairs(all.vals)), all.st)

ConvertOther(rd, h, st) ==
  LET type == CHOOSE v \in Entry(h, "__ptype") : TRUE
  IN IF type.k = "hash" THEN
       LET r == Convert(rd, type, st)
       IN IF r.val.k = "hash"
          THEN IF rd.allowUnresolved THEN [val |-> h, st |-> r.st] ELSE Fail(r.st, "unresolved")
          ELSE OfType(rd, h, r.val, r.st)
     ELSE IF type.s \in rd.known \cup {"Type", "Binary", "ObjectType", "Regexp"}
          THEN OfType(rd, h, ObjType(0, type.s), st)
          ELSE IF rd.allowUnresolved THEN [val |-> h, st |-> st] ELSE Fail(st, "unresolved")

Convert(rd, v, st) ==
  CASE st.panic # "" -> [val |-> v, st |-> st]
    [] v.k \in {"array", "hash"} /\ v.id \in DOMAIN st.converted ->
         [val |-> st.converted[v.id], st |-> st]
    [] v.k = "array" -> Rebuild(rd, v.id, v.elems, FALSE, st)
    [] v.k = "hash" ->
         LET type == IF AllKeysAreStrings(v) THEN Entry(v, "__ptype") ELSE {}
         IN CASE type = {} -> Rebuild(rd, v.id, Flat(v.pairs), TRUE, st)
              [] type = {Str("Hash")} ->
                   Rebuild(rd, v.id, (CHOOSE x \in Entry(v, "__pvalue") : TRUE).elems, TRUE, st)
              [] type = {Str("Default")} -> [val |-> Default, st |-> st]
              [] type = {Str("Sensitive")} ->
                   LET r == Convert(rd, CHOOSE x \in Entry(v, "__pvalue") : TRUE, st)
                       s == Sensitive(r.st.next, r.val)
                   IN [val |-> s, st |-> Converted(r.st, v.id, s)]
              [] OTHER -> ConvertOther(rd, v, st)
    [] OTHER -> [val |-> v, st |-> st]

\* AddTypes comes last: a panic leaves the new types unknown
Deserialized(rd, v) ==
  IF v.k = "panic" THEN [val |-> v, added |-> {}]
  ELSE LET r == Convert(rd, v, [converted |-> <<>>, next |-> 1000, newTypes |-> {}, panic |-> ""])
       IN IF r.st.panic # "" THEN [val |-> Panicked(r.st.panic), added |-> {}]
          ELSE [val |-> r.val, added |-> {t.name : t \in r.st.newTypes}]
=============================================================================
