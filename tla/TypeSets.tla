------------------------------- MODULE TypeSets -------------------------------
(***************************************************************************)
(* Type sets: how they are resolved and added to a loader, and the loader  *)
(* through which the types of a set see each other                         *)
(* (src/types/typeset.go, typeSetLoader of src/loader/loader.go, AddTypes  *)
(* of src/px/context.go and resolveTypes of src/internal/context.go).      *)
(*                                                                         *)
(* The loader of the context is kept as its entries; that it finds what    *)
(* its parents have is the subject of LoaderEntries.  A type of a set is   *)
(* kept with the type that the one name in it, which is looked up while the*)
(* set is resolved, refers to.                                             *)
(***************************************************************************)
EXTENDS Names

CONSTANTS
  Sets,          \* the Go values of the type sets of the program
  Declared,      \* set -> its init hash
  Asked,         \* names that the program asks for
  Batches        \* sequences of sets that are added in one call

\* The types and the references of a set are keys of Go hashes; a name has a segment, and each call adds something
ASSUME DeclaredAssumption ==
  \A s \in Sets :
    /\ Declared[s].name \in Seq(Texts)
    /\ Len(Declared[s].types) \in Nat /\ DOMAIN Declared[s].types = 1..Len(Declared[s].types)
    /\ \A i \in DOMAIN Declared[s].types :
         /\ Declared[s].types[i].key \in Texts
         /\ Declared[s].types[i].uses \in Seq(Texts) /\ Len(Declared[s].types[i].uses) > 0
    /\ Len(Declared[s].references) \in Nat /\ DOMAIN Declared[s].references = 1..Len(Declared[s].references)
    /\ \A i, j \in DOMAIN Declared[s].references :
         Declared[s].references[i].alias = Declared[s].references[j].alias => i = j
ASSUME AskedAssumption == Asked \subseteq {parts \in Seq(Texts) : Len(parts) > 0}
ASSUME BatchesAssumption == Batches \subseteq {batch \in Seq(Sets) : Len(batch) > 0}

VARIABLES
  entries,       \* lower case name -> the entry of the loader of the context
  sets,          \* set -> the type set
  adding         \* the call of AddTypes that is running

setVars == <<entries, sets, adding>>

\* What a name refers to; an entry without a value is a miss
Entry(kind, set, key) == [kind |-> kind, set |-> set, key |-> key]
NoEntry == Entry("none", "", "")
Miss == Entry("miss", "", "")
Bind(f, k, v) == [x \in DOMAIN f \cup {k} |-> IF x = k THEN v ELSE f[x]]
HasValue(e) == e.kind \notin {"none", "miss"}
SetEntryOf(s) == Entry("set", s, "")
TypeOf(s, key) == Entry("type", s, key)

Deferred == [state |-> "deferred"]
Idle == [phase |-> "idle"]

LowerName(s) == LowerAll(Declared[s].name)

----------------------------------------------------------------------------
(* typeSet.GetType and GetType2.  Parts of a name are lower case, keys and *)
(* aliases are not: one map, dcToCcMap, leads from the one to the others.  *)

Keys(s) == [i \in DOMAIN Declared[s].types |-> Declared[s].types[i].key]
Aliases(s) == [i \in DOMAIN Declared[s].references |-> Declared[s].references[i].alias]

\* the later entry of a lower case key replaces the earlier one; references come after types
DcToCcMap(s) ==
  LET all == Keys(s) \o Aliases(s)
      last(part) == CHOOSE i \in DOMAIN all : Lower[all[i]] = part /\ \A j \in DOMAIN all : j > i => Lower[all[j]] # part
  IN [part \in {Lower[all[i]] : i \in DOMAIN all} |-> all[last(part)]]

CamelCase(s, part) == {sets[s].dcToCcMap[p] : p \in DOMAIN sets[s].dcToCcMap \cap {part}}

GetType2(s, part) == {TypeOf(s, key) : key \in Range(Keys(s)) \cap CamelCase(s, part)}

\* The set that an alias of set s refers to.  Names have the authority of the runtime.
ReferredBy(s, part) ==
  IF Declared[s].authority = "runtime"
  THEN {sets[s].references[a] : a \in DOMAIN sets[s].references \cap CamelCase(s, part)} ELSE {}

\* All segments but the last are aliases, each in the set before it.  The authority of the set that has the
\* last segment is not compared.  The result is the entry that is found, or none.
GetType(s, parts) ==
  LET last == Len(parts)
      owner[n \in 0..last] == IF n = 0 THEN {s} ELSE UNION {ReferredBy(o, parts[n]) : o \in owner[n - 1]}
      own == IF Declared[s].authority = "runtime" THEN GetType2(s, parts[1]) ELSE {}
  IN IF last > 1 THEN UNION {GetType2(o, parts[last]) : o \in owner[last - 1]}
     ELSE IF own # {} THEN own ELSE {SetEntryOf(o) : o \in owner[1]}

----------------------------------------------------------------------------
(* The loader of the context, and typeSetLoader on top of it.              *)

EntryOf(parts) == IF parts \in DOMAIN entries THEN entries[parts] ELSE NoEntry

\* Faulty variant: a recorded miss stays as well
SetEntriesKeepingMisses(es, new) ==
  [p \in DOMAIN es \cup DOMAIN new |-> IF p \in DOMAIN es THEN es[p] ELSE new[p]]

\* basicLoader.SetEntry: a miss is replaced, a value stays
SetEntries(es, new) ==
  [p \in DOMAIN es \cup DOMAIN new |-> IF p \notin DOMAIN new \/ (p \in DOMAIN es /\ HasValue(es[p])) THEN es[p] ELSE new[p]]

SetKnown(es, s) == SetEntries(es, [p \in {LowerName(s)} |-> SetEntryOf(s)])

\* parentedLoader.LoadEntry: the misses of the set's own loader count when the parent has no value
ParentedLoad(s, parts) ==
  IF HasValue(EntryOf(parts)) THEN EntryOf(parts)
  ELSE IF parts \in sets[s].misses THEN Miss ELSE NoEntry

\* typeSetLoader.LoadEntry strips the name of the set for as long as nothing is found:
\* the names that it asks for, the first one answered and what is recorded when none is
StartsWith(own, parts, k) ==
  /\ k * Len(own) < Len(parts)
  /\ \A j \in 0..(k - 1), i \in DOMAIN own : parts[j * Len(own) + i] = own[i]

Stripped(s, parts) ==
  {From(parts, k * Len(LowerName(s)) + 1) : k \in {n \in 0..Len(parts) : StartsWith(LowerName(s), parts, n)}}

Longest(P) == CHOOSE p \in P : \A q \in P : Len(q) <= Len(p)
Shortest(P) == CHOOSE p \in P : \A q \in P : Len(p) <= Len(q)

LoadEntry(s, parts) ==
  LET stripped == Stripped(s, parts)
      found == [p \in stripped |-> GetType(s, p)]
      answer == [p \in stripped |-> IF found[p] # {} THEN CHOOSE e \in found[p] : TRUE ELSE ParentedLoad(s, p)]
  IN IF \A p \in stripped : answer[p] = NoEntry THEN [entry |-> Miss, missed |-> {Shortest(stripped)}]
     ELSE [entry |-> answer[Longest({p \in stripped : answer[p] # NoEntry})], missed |-> {}]

HasEntry(s, parts) ==
  \E p \in Stripped(s, parts) : GetType(s, p) # {} \/ HasValue(EntryOf(p))

----------------------------------------------------------------------------
(* AddTypes.                                                               *)

TypeSetsInit ==
  /\ entries = [p \in {} |-> NoEntry]
  /\ sets = [s \in Sets |-> Deferred]
  /\ adding = Idle

Known(s) == EntryOf(LowerName(s)) = SetEntryOf(s)

Current == adding.sets[adding.at]
Panic == adding' = Idle

\* Faulty variant: a type set is made known before it is resolved, as the other types are
AddKnown(batch) ==
  /\ adding = Idle /\ \A i \in DOMAIN batch : ~Known(batch[i])
  /\ adding' = [phase |-> "resolve", sets |-> batch, at |-> 1]
  /\ entries' = SetKnown(entries, batch[1])
  /\ UNCHANGED sets

\* A program adds again what is not known, after a panic for example
Add(batch) ==
  /\ adding = Idle /\ \A i \in DOMAIN batch : ~Known(batch[i])
  /\ adding' = [phase |-> "resolve", sets |-> batch, at |-> 1]
  /\ UNCHANGED <<entries, sets>>

NextSet ==
  adding' = IF adding.at < Len(adding.sets) THEN [adding EXCEPT !.at = @ + 1, !.phase = "resolve"]
            ELSE [phase |-> "register", sets |-> adding.sets, at |-> 1]

\* Only an alias that is spelled like a type is refused
Collides(s) == Range(Keys(s)) \cap Range(Aliases(s)) # {}

Overlap(s) ==
  \E i, j \in DOMAIN Declared[s].references : i # j /\
    LET r == Declared[s].references[i] q == Declared[s].references[j]
    IN r.name = q.name /\ r.authority = q.authority /\ r.range \cap q.range # {}

\* typeSet.Resolve up to the references.  The initializer is gone before it is used.
BeginResolve ==
  /\ adding.phase = "resolve" /\ sets[Current] = Deferred
  /\ LET refused == Collides(Current) \/ Overlap(Current)
         set == [state |-> IF refused THEN "abandoned" ELSE "live", dcToCcMap |-> DcToCcMap(Current),
                 references |-> [a \in {} |-> ""], targets |-> <<>>, misses |-> {}]
     IN /\ sets' = [sets EXCEPT ![Current] = set]
        /\ IF refused THEN Panic ELSE adding' = [adding EXCEPT !.phase = "references"]
  /\ UNCHANGED entries

\* A panic in Resolve
Abandon == adding' = Idle /\ sets' = [sets EXCEPT ![Current].state = "abandoned"]

\* A set that has no initializer any more is taken for resolved
AlreadyResolved ==
  /\ adding.phase = "resolve" /\ sets[Current] # Deferred
  /\ NextSet /\ UNCHANGED <<entries, sets>>

Pending(s) == {i \in DOMAIN Declared[s].references : Declared[s].references[i].alias \notin DOMAIN sets[s].references}

\* typeSetReference.resolve: the loader has names of its own authority only.  The references are a Go map, which is iterated in any order
ResolveReference ==
  /\ adding.phase = "references"
  /\ \E i \in Pending(Current) :
       LET r == Declared[Current].references[i]
           found == IF r.authority = "runtime" THEN EntryOf(LowerAll(r.name)) ELSE NoEntry
       IN IF found.kind = "set" /\ Declared[found.set].version \in r.range
          THEN /\ sets' = [sets EXCEPT ![Current].references = Bind(@, r.alias, found.set)]
               /\ UNCHANGED adding
          ELSE Abandon
  /\ UNCHANGED entries

ReferencesResolved ==
  /\ adding.phase = "references" /\ Pending(Current) = {}
  /\ adding' = [adding EXCEPT !.phase = "types"] /\ UNCHANGED <<entries, sets>>

\* The next type of the set resolves the name that it refers to.  An alias of what is unknown stays a
\* reference to it; a parent must be known.
ResolveType ==
  /\ adding.phase = "types" /\ Len(sets[Current].targets) < Len(Declared[Current].types)
  /\ \E type \in {Declared[Current].types[Len(sets[Current].targets) + 1]} :
     \E r \in {LoadEntry(Current, LowerAll(type.uses))} :
        IF r.entry.kind = "miss" /\ type.parent THEN Abandon
        ELSE /\ sets' = [sets EXCEPT ![Current].targets = Append(@, r.entry), ![Current].misses = @ \cup r.missed]
             /\ UNCHANGED adding
  /\ UNCHANGED entries

TypesResolved ==
  /\ adding.phase = "types" /\ Len(sets[Current].targets) = Len(Declared[Current].types)
  /\ NextSet /\ UNCHANGED <<entries, sets>>

\* The full names of the types of a set; the first of those that differ in case
Registered(s) ==
  LET name == [i \in DOMAIN Keys(s) |-> LowerAll(Append(Declared[s].name, Keys(s)[i]))]
      first(p) == CHOOSE i \in DOMAIN name : name[i] = p /\ \A j \in 1..(i - 1) : name[j] # p
  IN [p \in {name[i] : i \in DOMAIN name} |-> TypeOf(s, Keys(s)[first(p)])]

\* resolveTypeSet: types that are known are not added again
Register ==
  /\ adding.phase = "register"
  /\ entries' = SetEntries(entries, Registered(Current))
  /\ adding' = IF adding.at < Len(adding.sets) THEN [adding EXCEPT !.at = @ + 1] ELSE [adding EXCEPT !.at = 1, !.phase = "publish"]
  /\ UNCHANGED sets

\* Another set of the name is refused, unless it has the same authority and version
Publish ==
  /\ adding.phase = "publish"
  /\ LET old == EntryOf(LowerName(Current))
     IN IF HasValue(old) /\ ~(old.kind = "set" /\ Declared[old.set].version = Declared[Current].version
                             /\ Declared[old.set].authority = Declared[Current].authority)
        THEN Panic /\ UNCHANGED entries
        ELSE /\ entries' = SetKnown(entries, Current)
             /\ adding' = IF adding.at < Len(adding.sets) THEN [adding EXCEPT !.at = @ + 1] ELSE Idle
  /\ UNCHANGED sets

\* What Resolve leaves when it returns
Complete(s) ==
  /\ sets[s] # Deferred
  /\ DOMAIN sets[s].references = Range(Aliases(s))
  /\ Len(sets[s].targets) = Len(Declared[s].types)
  /\ \A i \in DOMAIN Declared[s].references :
       Declared[sets[s].references[Declared[s].references[i].alias]].version \in Declared[s].references[i].range

\* px.Load with the loader of the context: a miss is recorded
LoadFromContext(parts) ==
  /\ adding = Idle
  /\ entries' = IF EntryOf(parts) = NoEntry THEN Bind(entries, parts, Miss) ELSE entries
  /\ UNCHANGED <<sets, adding>>

\* The program asks the loader of a resolved set
LoadFromSet(s, parts) ==
  /\ adding = Idle /\ Complete(s)
  /\ sets' = [sets EXCEPT ![s].misses = @ \cup LoadEntry(s, parts).missed]
  /\ UNCHANGED <<entries, adding>>

TypeSetsNext ==
  \/ \E batch \in Batches : Add(batch)
  \/ BeginResolve \/ AlreadyResolved \/ ResolveReference \/ ReferencesResolved
  \/ ResolveType \/ TypesResolved \/ Register \/ Publish
  \/ \E parts \in Asked : LoadFromContext(parts) \/ \E s \in Sets : LoadFromSet(s, parts)

TypeSetsSpec == TypeSetsInit /\ [][TypeSetsNext]_setVars

----------------------------------------------------------------------------
(* Properties.                                                             *)

Whole(s) == sets[s] # Deferred /\ (sets[s].state = "abandoned" \/ Complete(s))

\* AddTypes, "A TypeSet should not be added until it is resolved": a type set that is known to the loader is
\* resolved, and so are the sets that it refers to, at the versions that it asks for.  The exception are sets
\* that are added again after their resolution panicked, which have no initializer any more.
NothingHalfAdded ==
  \A p \in DOMAIN entries : entries[p].kind = "set" =>
    /\ Whole(entries[p].set)
    /\ \A s \in Range(sets[entries[p].set].references) : Whole(s)

\* dcToCcMap leads from a lower case name to one key or alias only
Ambiguous(s) ==
  \E i, j \in DOMAIN (Keys(s) \o Aliases(s)) : i # j /\ Lower[(Keys(s) \o Aliases(s))[i]] = Lower[(Keys(s) \o Aliases(s))[j]]

\* Once a set is added each of its types is found: by its simple name through the loader of the set, and by its
\* full name through the loader of the context, whatever was asked for, and missed, before.
TypesOfSetsAreFound ==
  \A p \in DOMAIN entries :
    LET s == entries[p].set
    IN (adding = Idle /\ entries[p].kind = "set" /\ Complete(s) /\ ~Ambiguous(s)) =>
         \A key \in Range(Keys(s)), fullName \in DOMAIN Registered(s) :
           /\ HasValue(EntryOf(fullName))
           /\ Declared[s].authority = "runtime" =>
                /\ \E simple \in {<<Lower[key]>>} : LoadEntry(s, simple).entry = TypeOf(s, key)
                /\ HasValue(LoadEntry(s, fullName).entry)

\* What the loader of a set answers follows from the declarations and the loader of the context alone: its own
\* types before the sets it refers to, those before the loader of the context, and the rest of a name that
\* starts with the name of the set last.  No earlier question changes an answer.
Denoted(s, parts) ==
  LET stripped == Stripped(s, parts)
      own == [p \in stripped |-> GetType(s, p)]
      found == {p \in stripped : own[p] # {} \/ HasValue(EntryOf(p))}
      longest == {p \in found : \A q \in found : Len(q) <= Len(p)}
  IN IF found = {} THEN {Miss} ELSE UNION {IF own[p] # {} THEN own[p] ELSE {EntryOf(p)} : p \in longest}

AnswersFollowScopes ==
  adding = Idle =>
    \A s \in {t \in Sets : Complete(t)}, parts \in Asked :
      \E answer \in {LoadEntry(s, parts).entry} :
        /\ Denoted(s, parts) = {answer}
        /\ HasEntry(s, parts) = HasValue(answer)

\* Whatever was asked before, a set answers by its scopes, and what was added with it is found.
SetsAnswerByScope == AnswersFollowScopes /\ TypesOfSetsAreFound
=============================================================================
