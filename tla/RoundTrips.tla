------------------------------ MODULE RoundTrips ------------------------------
(***************************************************************************)
(* A value is written by a serializer to one of the consumers, carried,    *)
(* and read by a deserializer, perhaps in a program that knows other types *)
(* than the one that wrote it.                                             *)
(***************************************************************************)
EXTENDS Serialization

CONSTANTS Subjects,     \* the values written
          KnownTypes    \* the sets of types that a writer or a reader may know

VARIABLES value,    \* what is written
          result,   \* what is read
          to,       \* the options of the writer and what its consumer can do
          rd,       \* those of the reader, with the types that it knows
          events,   \* the stream between the two
          stage     \* idle, written, carried, and read or failed
vars == <<value, result, to, rd, events, stage>>

\* What CanDoBinary, CanDoComplexKeys and StringDedupThreshold return
Consumers == [ collector |-> [binary |-> TRUE, complexKeys |-> TRUE, threshold |-> 0],
               message |-> [binary |-> TRUE, complexKeys |-> TRUE, threshold |-> 0],
               json |-> [binary |-> FALSE, complexKeys |-> FALSE, threshold |-> 20] ]
Options(consumer, dedup, rich, known) ==
  [consumer |-> consumer, dedup |-> dedup, rich |-> rich, known |-> known] @@ Consumers[consumer]

NoOptions == Options("collector", NoDedup, FALSE, {})
Init == /\ value \in Subjects /\ result = Undef
        /\ to = NoOptions /\ rd = [known |-> {}, allowUnresolved |-> FALSE]
        /\ events = <<>> /\ stage = "idle"

\* Serializer.Convert
Write(consumer, dedup, rich, known) ==
  /\ stage = "idle"
  /\ to' = Options(consumer, dedup, rich, known)
  /\ events' = Serialized(to', value)
  /\ stage' = "written"
  /\ UNCHANGED <<value, result, rd>>

\* The text is written as the events come, and read by JsonToData
CarryJson ==
  /\ stage = "written" /\ to.consumer = "json"
  /\ \E tokens \in {Tokens(Json(events))} :
       /\ events' = JsonValues(tokens.out)
       /\ stage' = IF tokens.ok THEN "carried" ELSE "failed"
  /\ UNCHANGED <<value, result, to, rd>>

\* ProtoConsumer.Value and ConsumePBData
CarryMessage ==
  /\ stage = "written" /\ to.consumer = "message"
  /\ events' = ConsumePBData(ProtoMessage(events)) /\ stage' = "carried"
  /\ UNCHANGED <<value, result, to, rd>>

CarryInMemory ==
  /\ stage = "written" /\ to.consumer = "collector" /\ stage' = "carried"
  /\ UNCHANGED <<value, result, to, rd, events>>

\* Deserializer.Value: the types that came with the value are known from then on
Read(known, allow) ==
  /\ stage = "carried"
  /\ \E r \in {Deserialized([known |-> known, allowUnresolved |-> allow], Collected(events))} :
       /\ result' = r.val
       /\ rd' = [known |-> known \cup r.added, allowUnresolved |-> allow]
       /\ stage' = IF r.val.k = "panic" THEN "failed" ELSE "read"
  /\ UNCHANGED <<value, to, events>>

Next == \/ \E c \in DOMAIN Consumers, d \in NoDedup..MaxDedup, r \in BOOLEAN, ks \in KnownTypes :
             Write(c, d, r, ks)
        \/ CarryJson \/ CarryMessage \/ CarryInMemory
        \/ \E ks \in KnownTypes, a \in BOOLEAN : Read(ks, a)
Spec == Init /\ [][Next]_vars

----------------------------------------------------------------------------
\* A value in the order in which it is written, each part with its shape and its identity
Part(shape, id) == <<[shape |-> shape, id |-> id]>>
RECURSIVE Walk(_)
Walk(v) ==
  LET walkAll(vs) == FlattenSeq([i \in DOMAIN vs |-> Walk(vs[i])])
  IN CASE v.k = "array" -> Part(<<"array", Len(v.elems)>>, v.id) \o walkAll(v.elems)
       [] v.k = "hash" -> Part(<<"hash", Len(v.pairs)>>, v.id) \o walkAll(Flat(v.pairs))
       [] v.k = "sensitive" -> Part(<<"sensitive">>, v.id) \o Walk(v.inner)
       [] v.k = "object" -> Part(<<"object", v.ty.name>>, v.id) \o walkAll(Flat(v.attrs))
       [] v.k = "type" -> Part(<<"type", v.name>>, 0)
       [] v.k = "text" -> Part(<<"text", v.ty, v.s>>, v.id)
       [] v.k = "binary" -> Part(<<"binary", v.s>>, v.id)
       [] v.k = "runtime" -> Part(<<"runtime">>, 0)
       [] OTHER -> Part(<<"scalar", v>>, 0)

SameShape(a, b) == Len(a) = Len(b) /\ \A i \in DOMAIN a : a[i].shape = b[i].shape
SameSharing(a, b) == \A i, j \in DOMAIN a : a[i].id = a[j].id <=> b[i].id = b[j].id

Parts(v) == {Walk(v)[i].shape : i \in DOMAIN Walk(v)}
Kinds(v) == {s[1] : s \in Parts(v)}
\* What JSON cannot tell apart: it writes a float without fraction like an integer
LostInJson(v) == \E s \in Parts(v) : s[1] = "scalar" /\ s[2].k = "float"

TypesIn(v) == {s[2] : s \in {s \in Parts(v) : s[1] \in {"type", "object"}}}

\* A value that was written with its types and read by one who knows the types of the
\* writer is the value that was written, and the parts that were shared are shared and
\* no others, whatever level of deduplication, consumer and path of references; the
\* reader then knows each type in it, also one that came with the value
ValuesComeBack ==
  stage = "read" /\ to.rich /\ to.known \subseteq rd.known /\ ~rd.allowUnresolved
    /\ (to.consumer = "json" => ~LostInJson(value)) /\ "runtime" \notin Kinds(value)
    => \E a \in {Walk(value)}, b \in {Walk(result)} :
         SameShape(a, b) /\ (to.dedup # NoDedup => SameSharing(a, b)) /\ TypesIn(result) \subseteq rd.known

\* The events seen so far: how many values the reader has counted, and whether the open
\* containers are hashes that wait for a key
Follow(f, ev) ==
  LET key == f.open # <<>> /\ Last(f.open) = "key"
      turned == IF f.open = <<>> THEN <<>>
                ELSE Append(Front(f.open), CASE Last(f.open) = "key" -> "value"
                                             [] Last(f.open) = "value" -> "key"
                                             [] OTHER -> "element")
  IN CASE ev.e = "end" -> [f EXCEPT !.open = Front(@)]
       [] ev.e = "array" -> [f EXCEPT !.count = @ + 1, !.open = Append(turned, "element"),
                                      !.badKey = @ \/ key]
       [] ev.e = "hash" -> [f EXCEPT !.count = @ + 1, !.open = Append(turned, "key"),
                                     !.badKey = @ \/ key]
       [] ev.e = "ref" -> [f EXCEPT !.open = turned, !.badKey = @ \/ key,
                                    !.dangling = @ \/ ev.n >= f.count]
       [] ev.e = "add" -> [f EXCEPT !.count = @ + 1, !.open = turned,
                                    !.badKey = @ \/ (key /\ ev.v.k # "str")]
Followed == FoldLeft(Follow, [count |-> 0, open |-> <<>>, badKey |-> FALSE, dangling |-> FALSE],
                     events)

\* A consumer that cannot do complex keys is given strings for keys, never a reference to
\* one, and no reference in a stream points past the values that came before it.  (Without
\* rich data a value becomes its text; two values with the same text that are not the same
\* break the count of the writer: see the README.)
Opaque == {"sensitive", "binary"}
JsonGetsData ==
  stage = "written" =>
    \E f \in {Followed} : /\ ~to.complexKeys => ~f.badKey
                          /\ to.rich \/ Kinds(value) \cap Opaque = {} => ~f.dangling

\* With deduplication a container is streamed once, however often it occurs, and a value
\* with its type in two containers: what is written does not grow with the paths to it
StreamedOnce ==
  stage = "written" /\ to.dedup # NoDedup /\ to.rich
    => \E w \in {Walk(value)} :
         Cardinality({i \in DOMAIN events : events[i].e \in {"array", "hash"}})
           <= 2 * Cardinality({w[i].id : i \in DOMAIN w})
              + Cardinality({i \in DOMAIN w : w[i].shape[1] = "type" \/ w[i].shape = <<"scalar", Default>>})

\* jsonstreamer.go:16: "creates a new streamer that will produce JSON when receiving values"
ProducesJson == stage = "written" /\ to.consumer = "json" => Tokens(Json(events)).ok
=============================================================================
