# Specifications of pcore

TLA+ specifications of this repository: of what several go routines, loaders
and contexts do to each other, and of the algorithms that types, values, calls
and serialization rest on; TLC models that check them on small instances, and
proofs that hold for all instances.

`PROJECT.json` lists the components, the runs, the source lines behind each
definition, the hazards and the theorems; this file explains them.

## 1. The system

pcore is the type system of Lyra: types, values, their serialization, and the
loaders that find types by name. The parts, the state they keep and how they
use each other:

| part | state | operations | uses |
|---|---|---|---|
| loaders (`loader/loader.go`) | entries by name, under a lock; the parent | GetEntry, LoadEntry, SetEntry, HasEntry, Discover, px.Load | parent |
| file based loader (`loader/filebased.go`, `instantiate.go`) | entries, the map of mutexes of names being read, the index of paths | LoadEntry, find, instantiate | loaders, parser, contexts (AddTypes), type resolution, which loads again |
| dependency loader (`loader/dependency.go`) | entries, shared with the module loaders | LoadEntry, find | file based loaders of modules |
| contexts (`px/context.go`, `internal/context.go`) | loader, registry, variables, stack | Fork, DoWithLoader, AddTypes, resolveResolvables | loaders, queues of declarations |
| go routine storage (`threadlocal/gid.go`) | a map by go routine id | Init, Cleanup, Get, Set, Go | |
| runtime (`internal/runtime.go`, `setting.go`) | static, system and environment loader, top registry, settings | InitializeRuntime, RootContext, Do, Reset, Get, Set | contexts, queues |
| declarations (`types/types.go`) | queues of types, mappings, constructors | register..., PopDeclared... | |
| implementation registry (`internal/implementationregistry.go`) | maps between types and Go types; the parent | RegisterType, ...ToType, ...ToReflected | |
| string hash (`hash/stringhash.go`) | a slice of entries, an index, frozen | Put, Delete, ComputeIfAbsent, Merge, Copy, Freeze | callbacks |
| type sets (`types/typeset.go`, the loader of a set in `loader/loader.go`) | types, references to other sets, the initializer until it is used | Resolve, GetType, LoadEntry | names, loaders, contexts (AddTypes) |
| names (`types/typedname.go`) | segments, and lazily the key and the lower case parts | Child, Parent, RelativeTo, MapKey, Parts | |
| type expressions (`types/lexer.go`, `parser.go`, `deferredtype.go`, `resolver.go`, the creators of `types/*type.go`) | the expression, the resolved type | parse, Resolve, Parameters, ToString | loaders |
| object types (`types/objecttype.go`, `attribute.go`, `function.go`, `objectvalue.go` and others) | attributes, functions, parent | InitFromHash, Resolve, Member, constructors, InitHash | string hash, functions |
| types and their order (`types/*type.go`, `commonality.go`, `px/equality.go`) | | IsAssignable, IsInstance, commonType | |
| collections (`types/arraytype.go`, `hashtype.go`) | elements, lazily computed index and types | Add, Delete, Merge, Select, Get, Equals, ... | |
| functions (`internal/function.go`, `parameter.go`) | signatures, one for each dispatch | the builder of a dispatch, Resolve, Call | types, mismatch describer |
| mismatch describer (`internal/typemismatchdescriber.go`) | | describe, describeSignatures, AssertInstance, AssertType | types |
| serialization (`serialization/`, `types/basiccollector.go`, `proto/convert.go`) | references by value, a stack of containers, delimiter state | Convert, AddArray, AddHash, Add, AddRef | contexts, types |
| time spans (`types/timespantype.go`) | parsed formats, in a cache | ParseFormat, Format, ParseTimespan | |
| other formats, time stamps, versions, yaml, logging | | | |

A type is found like this. `px.Load` asks the loader of the context, which asks
its parents first. Below the environment a dependency loader asks the loaders
of modules. A file based loader that has no entry reads the file of the name:
the instantiator parses it and calls `px.AddTypes`, which puts the type in the
*defining loader of the context* and resolves it, and that loads the names it
refers to, in the same go routine. Everything that was not found is remembered
as an entry without a value, and SetEntry fills such an entry in place.

Hard behaviours: lookups that interleave with definitions at several levels;
placeholders that mean both "not found" and "being read"; mutexes taken in the
order in which files refer to each other; forks that define in a loader of
their own; contexts that are made current and restored across panics and go
routines; queues that any go routine may empty; resets; callbacks.

What makes the parts correct:

- loaders: a name is bound once per loader; a lookup finds what was there when
  it began; an answer stays valid; calls end and do not panic on account of
  other threads.
- file based loader: a file is read once; threads never wait for each other in
  a circle; mutexes are released and dropped; nothing is left half loaded.
- dependency loader: the same seen from outside, and no recorded miss outlasts
  the truth.
- contexts and storage: an actor runs in its context, a context in one go
  routine; loaders are restored; nothing is left behind.
- runtime and declarations: what is declared arrives in one loader, and
  all contexts find it; SystemLoader and Get return something.
- string hash: the index agrees with the slice; it behaves as an ordered hash.
- type sets: a set is known when it and what it refers to is resolved; what its
  loader answers follows from the declarations, whatever was asked before.
- names: a name that is cut out of another is the name one would have made.
- types: what is assignable is an instance, merging and generalizing only widen,
  commonType is an upper bound; the parameters and the text of a type make it again.
- object types: an heir stands in for its parent; the InitHash makes an equal object.
- collections: the index agrees with the entries, what was handed out does not
  change; the type that a collection keeps accepts it, and is the one that
  a single go routine infers.
- aliases: those of one call of AddTypes find each other, and an answer that was
  given stays the answer.
- functions: a call runs the first dispatch whose declaration takes the
  arguments; a refusal names a mismatch, and what it names is one.
- serialization: what is read is what was written, with the same sharing.
- time spans: a text that shows all of a span is read as that span.

## 2. The modules

| module | models | abstract specification |
|---|---|---|
| `LoaderRegistry` | what a loader promises: bindings are write-once | |
| `LoaderEntries` | loader.go, px.Load, the look-then-define of resolveTypeSet | `LoaderRegistry` (`WriteOnce`) |
| `NameLocks` | the mutex protocol of instantiate | |
| `FileBasedLoader` | filebased.go, instantiate.go, AddTypes and resolveTypeSet | `NameLocks` (`FollowsProtocol`) |
| `DependencyLoader` | dependency.go above module loaders | `LoaderRegistry` (`WriteOnce`) |
| `Names` | typedname.go | a name made anew (`CachesAgree`) |
| `TypeSets` (extends `Names`) | typeset.go, typeSetLoader, AddTypes of sets | the scopes of names (`AnswersFollowScopes`) |
| `Aliases` | typealiastype.go, deferredtype.go, AddTypes and resolveTypes, by several go routines | |
| `GoroutineContexts` | gid.go, DoWithContext, Fork, Go, Do, DoWithLoader | |
| `Runtime` | runtime.go, setting.go, the declaration queues, resolveResolvables | |
| `OrderedHash` | what a string hash promises | |
| `StringHash` | stringhash.go | `OrderedHash` (`BehavesAsOrderedHash`) |
| `Types` | all types: IsAssignable, IsInstance, commonType, PType, DetailedType, generalize, as operators | |
| `TypeLattice` | programs that merge and generalize the types they declare | |
| `InferredTypes` | PType and DetailedType of shared arrays and hashes | the operators of `Types` (`CacheSettles`) |
| `Collections` | arrays and hashes on shared slices, the lazy index | contents as sequences (`OnlySharersChange`, `HashesAnswer`) |
| `TypeExpressions` (extends `Types`) | the creators, Parameters, the text of types, the parser, deferred types | |
| `Mismatches` (extends `Types`) | typemismatchdescriber.go, as operators | |
| `Calls` (extends `Mismatches`) | function.go, parameter.go, CallableWith, assertions | the declarations (`CallsFollowDeclarations`) |
| `ObjectTypes` | objecttype.go, attribute.go, function.go, annotatedmember.go, attributesinfo.go, objectvalue.go | |
| `Serialization` | serializer, collector, JSON streamer and reader, message builder, deserializer, as operators | |
| `RoundTrips` (extends `Serialization`) | a value that is written, carried and read | the value itself (`ValuesComeBack`) |
| `TimeSpans` | the formats, texts and reading of timespantype.go | the span itself (`SpansComeBack`) |
| `LoaderEntriesProofs`, `NameLocksProofs`, `FileBasedLoaderProofs`, `DelegationProofs` (about `Names`, `TypeSets` and `DependencyLoader`), `RuntimeProofs`, `GoroutineContextsProofs`, `StringHashProofs`, `CollectionsProofs` | theorems | |
| `MC...` | instances for TLC | |

In all modules an operator named "Faulty variant" in its comment is not part of
the specification: it is the form a plausible mistake would take, and the list
of mutants in `PROJECT.json` says which property notices it.

Some MC modules hold several "worlds", of which the initial state chooses one that
moves alone in a behaviour: components that are not connected share a run, and in
`MCFiles` two programs share one instance, whose threads and names are those of both.
`MCFiles`, `MCDelegation`, `MCProcess` and `MCData` extend the components that theorems are
about, so that TLC evaluates the assumptions of the proofs, on the very definitions they
are about.

### LoaderEntries

One action per access to shared state. GetEntry, HasEntry and SetEntry are a
step each because they hold the lock of the loader; `entry.Value()` is a step
of its own (`ReadValue`), because it is called after the lock was released
while SetEntry may fill the very entry in place. A call is a record: `load`
(px.Load), `has` (HasEntry), `define` (SetEntry as AddTypes calls it), `ensure`
(LoadEntry, then SetEntry if that found no value: resolveTypeSet). `level`
walks down the chain of parents, root first, as the recursion of
parentedLoader.LoadEntry does. SetEntry is one disjunction: accepted (no entry,
no value, the same or an Equal value) or refused with one of two panics; the
second is the failed type assertion in the line that formats the message of the
first. `visible` and `defined` are ghosts that properties compare with.

### NameLocks and FileBasedLoader

`NameLocks` is instantiate alone, seen from the mutexes: `at[t][n]` is the line
thread t has reached for name n, and while it is in the instantiator ("work")
it may start on any other name. It is the abstract specification of
`FileBasedLoader`, in which threads are stacks of frames, one per call of
px.Load, LoadEntry, find or instantiate, and lookups are those that the files
really cause. The mapping (`Protocol`) reads `at` off the frames.

`FileBasedLoader` keeps the two meanings of an entry without a value, the
unwinding of a panic through the deferred functions, the search of a name
through the type sets around it, the module's init_typeset.pp, and the defining
loader of a fork. The parent of the file loader is assumed to know none of the
names, each file to hold one definition of the right name; a file that fails is
in `Broken`. What the model leaves out: the index of paths, the kinds of names
other than types, and the resolution of a type set's members, which are taken
as given (`Members`): they are defined by the file of the set, so that none has a
file of its own (`NamesAssumption`).

### DependencyLoader

The entries of a module loader are shared, not copied: `place[n]` says whose
entry the environment keeps, so that filling it in the module fills it here.
A module loader shows the two steps others can see, placeholder and value.
`Defines[t]` says where the types that t's loads define go.

### GoroutineContexts

A go routine is a stack of calls that install a context or a loader. `Return`
is a normal return and a panic alike, since both run the deferred function. A
context that a fork makes is numbered anew; its private loader is left out
(`FileBasedLoader` has it). `from` is the closure that px.Fork hands to the new
go routine.

### Runtime

One action per critical section. `Declare` is what Go packages do, in `init`
functions, and for the items in `Late` also afterwards. `InitializeRuntime` holds
`staticLock` from the test of the logger to the end; then `MakeContext` takes the
environment loader under the lock of the runtime, and the queues are emptied one
by one (`PopTypes`, `PopMappings`, `PopConstructors`), each element bound with a
SetEntry of its own. The types of `Fragile` panic when they are resolved
(`ResolutionPanics`): the batch is bound by then, the rest of the queues stays, and
when the runtime was being initialized (`failed`) its registry stays nil, so that a
later root context panics over a mapping it has taken from the queue
(`RegistryPanics`). SystemLoader and Get are two steps each, as in the code;
`early` and `began` are ghosts. No module_path is set, so that the environment
loader is the system loader; Go functions go the way of constructors.

### Names and TypeSets

A name is a sequence of segments with the two fields that the code fills in when
they are first asked for. Child, Parent, RelativeTo and the conversion from a map
key cut the fields along, as the code does, with the lengths of the three strings
taken as the numbers of segments that they stand for.

`TypeSets` is a loader's entries, the sets and the call of AddTypes under way, in
phases: each set of the batch forgets its initializer (`BeginResolve`), resolves
its references in the random order of a Go map, then its types one by one; the
types are registered by their full names, the sets made known last. A panic
(`Abandon`, `Panic`) leaves everything as it is. The loader of a set
(`LoadEntry`) tries the name, then what follows the name of the set, with the
set's own types before the loader of the context, and records its misses. A type
has one reference (`uses`) and may be its parent, which must be found.

### Aliases

`entries` is the loader, `resolved` the field of each alias, `remembered` that of each
deferred type. A deferred type is known by the alias it is written for and its place in
the expression, because each keeps what it was resolved to. A call publishes a batch
(`Publish`), then resolves it: the test and the assignment of an alias (`BeginResolve`,
`EndResolve`) and of a deferred type (`EnterDeferred`, `LeaveDeferred`) are steps of their
own, with a stack (`todo`, `types`) that stands for the recursion of the Go methods. A
user may resolve an alias that another go routine is resolving (`Use`: it is the parent of
an object type), or ask it about a value (`Ask`). Objects and type sets of a batch are left
to `ObjectTypes` and `TypeSets`.

A batch whose names refer to each other is safe against every order, except for
an alias that a user resolves before the rest of its batch is published: `usedEarly`
collects those. Their missing names have become references for good.

### Collections

`mem` are the backing arrays, whose lengths are capacities, and `objs` the arrays
and hashes on them: an offset, a length, for a hash the lazy index. An operation
that slices or appends does what Go does: append writes into room that is left
(`inPlace`). The growth of an array is that of Go without the rounding of sizes to
the classes of its allocator. `disturbed` are the objects that no longer hold what they held
when they were made, or, for a mutable hash, after its last Put.

Three things could go wrong at a distance. An operation could write into an array that
others see: `OnlySharersChange` names the two that do, Add and Delete, and
whom they reach. A hash could answer from an index that is not that of its entries, because
another hash on the same array lost one: `HashesAnswer` is about all hashes to which this
has not happened, and its part `SlicesFit` says that also to the others nothing worse
happens than a wrong answer: no index leads beyond the entries.

### TypeExpressions

A creator (`New`) takes arguments and makes a type or panics (`Refused`);
`Parameters` gives arguments back. `ToString` writes tokens, also with the entries
of a hash in place of a hash and as a declaration, and the parser is recursive
descent over them, as parser.go is; the characters of a token are left to the lexer.
What is parsed is unresolved until its creator is called; the arguments of an unknown
name go to the creator of TypeReference. A program makes a type,
then makes others around it (`MaxTypes`), and reads each in all ways.

### Mismatches and Calls

`InternalDescribe` asks for the parts of a type that it can describe one by one
(`Parts`), as the functions of the source do through each other; what comes back
is merged by class and path as mergeDescriptions does. The text of a mismatch is
modelled so far as it decides which of two types is written out.

`Calls` builds functions: `open` is the dispatch that the program declares, one
action per method of the builder; Resolve makes signatures of them. A call asks
CallableWith of each, in order, and the describer when none agrees. AssertInstance
and AssertType are calls of the same kind. References to unknown types are looked for
first, also behind aliases, each of which is visited once.

### ObjectTypes

A program declares object types with init hashes and resolves them when it needs
them, parents first (`ResolveType`), with the checks of overridden members in the
order of InitFromHash; a panic leaves the type as far as it got. Objects are made
with positional arguments or a hash through the two signatures that
createNewFunction declares. The type of a member is the set of its instances: that
of a function is compared when it overrides another (annotatedmember.go:100), and not
by Equals, because CallableType.Equals does not. The parent is named in the init
hash. Not modelled: a parent in the text before the hash, type parameters,
annotations, types that are made of Go structs.

### Serialization and RoundTrips

A value is a tree whose nodes carry an identity; equal identities are one pointer.
`ToData` threads the state of the serializer (the references, the count of
positions) through the tree and yields events. The consumers are folds over the
events: the collector, the JSON streamer with its delimiter state, whose tokens the
reader turns into events again, and the builder of messages. `Convert` is the
deserializer, which at the end makes the types that came with the value known to the
reader. `RoundTrips` chooses a value, the options of the writer, what each side knows,
and carries the events.

### TimeSpans

A format is cut into segments character by character (`ParseChar`). A text is a
sequence of pieces, so that the regular expression of a format is a condition on
each piece (`Matches`). A second has 1000 of the smallest unit instead of 10^9, and
10 milliseconds. Overflow is not modelled, nor formats in which two numbers touch.

### StringHash

Slice and index as in the code, positions from 1. ComputeIfAbsent is two
steps, between which the callback may do anything that the constants allow.
`AnyDelete` and `Reentrant` separate what this repository does with its hashes
(it deletes the last key only, and its callbacks leave the hash alone) from
what the interface allows.

### Types and TypeLattice

A type is a record of the Go structure. The IsAssignable and IsInstance methods
of a type answer with a *formula* over smaller questions, and `Eval` asks them
from left to right as the Go expressions do, stops where they stop, and threads
the `px.Guard` through: the methods share a map that they add to, so that an
answer depends on the questions before it (`Visit` is Guard.Seen, `Fresh` a
question with a nil guard). `Assign` is GuardedIsAssignable, which looks at the
right-hand type before the method of the left-hand one is called. A comparison
of pointers is TRUE for the types of which there is one object
(`Singletons`); other types are taken for separately made ones.

Names, numbers and strings are abstract: `Length`, `Lower` and `Matches` say what
the code asks about a string, `MinInt` and `MaxInt` are the bounds of integers,
floats and times, ranges of versions are intervals. Not modelled: Init, Like,
Uri, object types beyond their inheritance, the patterns that a Runtime type may
use to translate names.

`TypeLattice` puts the operators to use: a program starts with a declared type
and merges others into it (`Merge`), or generalizes what it has (`Widen`), in any
order. Its properties compare the two questions that a type answers.

### InferredTypes

An array or hash makes the object for its type, publishes it in a field without
a lock, and fills it in while it asks its elements for theirs. `objects` is the
heap of type objects, `cached` holds the fields, `stack` the recursion of each go
routine, and a type that holds the object of an element holds a `Ref` to it: it
changes when another go routine fills the object in. Elements that are shared
between collections or go routines are collections of their own (`Shared`); an
element that only one collection has is a value. One merge of two types
(`Fold`) is one step, although it reads several fields of the heap. `raw` and
`early` are ghosts for the exception that the properties make.

## 3. The runs

Every run is one question. "violated" runs state what a doc or comment says and
show that the code does otherwise; `findings` in `PROJECT.json` quotes both.

| run | question | answer |
|---|---|---|
| `MCLoaderEntries` | are bindings, lookups and definitions right under interleaving, and do calls end? | yes |
| `MCNameLocks` | does the mutex protocol give exclusion without deadlock, clean up, and come to an end? | yes |
| `MCFiles` | files that refer to each other in a circle, with a type set, or with a fork, a broken file, a foreign name and init_typeset.pp: is each read once and completely, is a set seen with all its types, does every load end, are mutexes released? | yes |
| `MCDelegation` | names that are cut out of each other; type sets that are added, some twice or after a panic; the environment above modules: are keys right, sets known only when whole, names found and bound once? | yes, no lasting miss among root contexts |
| `MCProcess` | contexts of two go routines; root contexts, late declarations, a panic and a reset; aliases that are used while they are added: is everything restored, moved once, found, and resolved, and does an answer about an alias last? | yes, what was declared early is found by all unless the initialization panicked; aliases that were used before their batch was published are excepted |
| `MCTypes` | is what is assignable an instance, and do merging and generalizing only widen? | yes, with the exceptions of section 7 |
| `MCCommonType` | are both types assignable to their common type? | violated: not when the first is the narrower one |
| `MCData` | do indexes agree with contents, does a string hash behave as an ordered hash, do arrays and hashes that share slices stay what they are and answer from their entries, do the kept types accept their collections while several go routines infer them? | yes, as this repository uses them; values change through sharers, as section 7 says |
| `MCStringHashDelete` | does a string hash find what it holds, as its interface allows it to be used? | violated: not after a deletion in the middle |
| `MCRoundTrips` | do types, values and time spans that are written come back? | yes, with the exceptions of section 7 |
| `MCJson` | does the JSON streamer produce JSON? | violated: not when a container is not the first element of its array |
| `MCDeclarations` | do calls follow the declarations of functions, are refusals explained, do heirs stand in for parents and init hashes recreate? | yes, with the exceptions of section 7 |

### Bounds

- `LoaderEntries`: two threads with unboundedly many calls, a loader and its
  fork, one name (names do not interact in loader.go), two Equal types and a
  function, which reaches both panics. The state space is finite without a bound.
- `NameLocks`: three threads (two to wait for each other and a newcomer at a
  mutex that was deleted from the map) and two names; `made` is bounded by the
  threads. The proofs lift the bound.
- `FileBasedLoader`: in each world two threads, of which one may be a fork, two calls
  each (`MaxCalls`), so that a second call meets what the first left, and three or four
  names: one of each kind that the scenario needs, referring to each other in a
  circle. The proofs lift the bounds.
- `Names`: three segments (`MaxSegments`) of four, so that every cut has something
  on both sides, with an empty segment and one that is not allowed; two namespaces.
- `TypeSets`: six sets, two of them versions of one name, one nested in another, one
  whose references collide, one of another authority; a program makes at most three
  different calls of AddTypes, one of them with two sets, in any order and again.
- `Aliases`: two adders, one user with unboundedly many calls, four aliases: two that need
  each other, and a batch that clashes with them on a name or panics when it is resolved;
  two values that reach through both aliases.
- `DependencyLoader`: two modules, names of the three kinds (plain, qualified,
  unknown), contexts of the three kinds, two of them root contexts; one load of
  each thread, two of the fork, which finds what it bound itself.
- `GoroutineContexts`: one plain and one started go routine, `ContextLimit` 4 and
  `MaxDepth` 3: nesting of all kinds of calls, and a fork of a nested context.
- `Runtime`: two go routines, an item declared in time and one that may be
  late and whose resolution may panic, two root contexts, one reset, two uses of settings and loaders (a Set
  and a Get, or one of them and SystemLoader).
- `StringHash`: two hashes (copies and merges), three keys (an entry in front
  of, at and behind a deleted one), two values; a constraint (`Bounded`) bounds the
  entries and the callbacks under way.
- `Collections`: three objects (a receiver, an argument, a result, which are each
  the receiver of the next), two scalars, and pairs of them; Select reserves three
  cells instead of eight, which is more than any of its results.
- `TypeExpressions`: up to three arguments (`MaxArguments`) of twelve plain ones and
  types; one type around another (`MaxTypes`).
- `Calls`: two parameters and two dispatches in all, two arguments, two blocks, in
  all legal sequences of builder calls; about 120 types and 60 values to
  assert, two aliases among the types, one of which contains itself and an unknown
  reference. `ObjectTypes`: three generations with one to two members each, functions
  of a wider and of a narrower type, and hashes with and without a key that is no
  attribute.
- `RoundTrips`: arrays of two or three and hashes of two entries over 19 values, of
  which seven are containers or objects: every container meets every other, in front
  of it, behind it, inside it, and twice.
- `TimeSpans`: 19 formats (the default ones, padded and unpadded, with gaps and with
  fractions, and two that are refused) and 432 combinations of fields, some of them
  beyond the range of their unit, with both signs.
- `TypeLattice`: 92 declared types: one or two of every kind, and 13 ways to build
  a type around each of Any, Integer[1, 1], String and Data; two declared types in a
  common type (`MaxMerges`), and generalizations before, between and after. 67
  values, so that each kind of type has an instance and each container
  values of zero, one and two elements. The limits of numbers are -1000 and 1000,
  beyond every number in the instance.
- `InferredTypes`: two go routines with a call each, and 56 pairs of collections:
  the second, one of eight, is an element of the first, once, twice or behind
  another element.

Symmetry is used for go routines, hashes, keys and values where they are
interchangeable, never in a run with a liveness property. `CHECK_DEADLOCK FALSE` stands in
runs of libraries at rest: contexts, the runtime and the lock protocol may stop
because nobody calls them or a bound is reached; deadlock there is a property
(`NoDeadlock`). The loader modules have a `Finished` step, and TLC checks deadlock.

### Fairness

`WF_vars(Step(t))` for each thread: a go routine in a call is scheduled again,
which the Go scheduler guarantees. Beginning a call is not fair. A Go mutex is
not fair by specification, but a name's mutex is contended finitely often,
because a name that has an entry is not looked for again; weak fairness of
`Lock` is enough and no strong fairness is assumed.

## 4. What is proved

For all sets of threads, names, loaders and values:

`LoaderEntriesProofs` (from `ValuesAssumption`, `PathAssumption` and
`NoCallAssumption`): type correctness, then `LookupInv`, inductive together
with it. The core of the argument is that SetEntry never replaces a value
(`Stored`), so that a level in `visible` stays bound, and that a lookup passes a
level only when it read no value there. `VisibleIsFound`, `AnswersStand` and
`EnsureFailsOnlyIfRaced` follow, which together are the `LookupsAnswer` of the run.
`Refinement` shows that every step is a `Bind`
of `LoaderRegistry` or leaves the bindings alone; `DefinitionsAreKept` adds that
Equality of values is transitive through `Class`.

`NameLocksProofs`: `LockProtocol` is the inductive invariant. Its heart is
`BeforePlaceholder`: until the placeholder of a name is set nobody has reached
the end of instantiate, so that the mutex in the map was not replaced and all
threads hold or wait for the same one. After the placeholder the mutexes may
multiply, but no one places any more: `AtMostOnce`. For `DeadlockFree`,
`WaitsForLaterNames` says that what a thread holds while it waits got its
placeholder before the name it waits for. Of the names that blocked threads wait
for, one got its placeholder last, because the placeholders form a sequence, and the
thread that holds its mutex can go on.

`FileBasedLoaderProofs` (from `NamesAssumption`). A lookup that an instantiation makes is
not arbitrary: it is a frame on top of the frame that waits for it. `Base` says so for
each frame of each stack (`StackFits`: who called whom, for which name, holding which
mutex; no file is instantiated by two frames of one stack), where a panic may be on its way
down (`PanicFits`) and what an answer may be (`AnswerFits`). From it each action is shown to be
one step of `NameLocks` or none: `FilesFollowTheProtocol`. `NameLocksProofs` is
instantiated under the same mapping, so that its theorems hold for the lookups that files
really make: `FilesAreReadOnce`, `FilesNeverDeadlock`, `MutexesAreDropped`, and that a
placeholder is put only where there is no entry (`PlacesAreNew`). Therefore no step takes
a value away (`StepKeepsValues`), on which the rest relies:
`VisibleNamesAreFound` follows a call whose name was there when it began
(`GoalFits`); `VisibleSetsAreWhole` says that resolveTypeSet has added every type of
the set that is not still to come, in the loader in which the set will be
(`SetsFit`); `PlainFilesAreDefined` that a plain file which was placed is seen by some context or
about to be defined by the thread that placed it (`FilesFit`). These invariants
were checked with TLC on the instance of `MCFiles` before they were proved. The last theorem is
`NothingHalfLoaded` for files that hold one type. For files that hold a type set
`NothingHalfLoaded` is not true of every instance: a set whose references panic (a
file that does not parse, or the race of section 7 on the record of a miss)
keeps its placeholder. It stays a property of the instances, which have no such set.

`DelegationProofs` is about three components. The environment above modules (from `ModulesAssumption`): `Base` adds two things to the
types: where the entry of a name is (`PlacesHold`) and what each step of a load still
knows of it (`StepsFit`). `EnvironmentRefinesRegistry` follows from it: a step
binds a name of the environment or leaves the bindings alone, also when it is a module
that fills in an entry which both share. `VisibleNamesAreFound` needs that a fork
records what it defines before it answers, and that what was visible stays so
(`VisibleInv`). `MissesAreRepaired` (`LieInv`) says whom a load that is going to record
a miss has asked: while only root contexts load, the module that has the file is
among them, and whoever reads that file defines the name before it answers.

`RuntimeProofs` (from `RuntimeAssumption`). `Base` ties the step of
InitializeRuntime to the lock it holds and to what was made by then. For
`ContextsSeeWhatWasDeclared` the invariant (`SeesInv`) follows a declaration made in
time on its way through queue, batch and loader, and has the constructors wait for
the types (`TypesComeFirst`), which the order of the queues gives.
`DeclarationsMoveOnce` (`MovedInv`) strengthens "in one place" to "at one index of the queue, or
of one go routine's batch, or in one loader", because heads and tails of a sequence
say nothing about a count. `ResetsAloneTakeAnswers` is about SystemLoader and Get.

`GoroutineContextsProofs` (from `LoadersAssumption`). A stack is described from each
call inwards to the actor it belongs to (`StackFits`), so that pushing and popping
a call is one lemma each. `EachThreadHasItsContext` rests on contexts that a go routine
owns, in its storage or in what its calls will restore: no two own the same
(`OwnersDiffer`), which the visible state alone does not keep.
`CallsLeaveNothingBehind` rests on the outermost DoWithLoader of a context
having saved the context's first loader (`LoaderComesBack`), whatever is nested in it.
That an actor runs in its context is proved for programs without `NestedDo`, as the property is stated.

`StringHashProofs` (from `~Reentrant` and `~AnyDelete`, which are values of the
constants and stand in the theorems; `MCStringHashDelete` shows the other case).
`HashInv` says that slice and index agree and that the keys which callbacks are computing
for are distinct and not in the hash; frozen hashes compute nothing. Each step keeps it
and is a step of `OrderedHash`, for which PutAll and Merge need induction over
the entries of the argument: their recursive functions are defined on numbers, and `SetOfNaturals`,
derived from the well-foundedness of `<`, gives the induction as a statement about a *set* of numbers, which the
provers can instantiate. From it follow `IndexesStayTrue` and `HashIsOrderedHash`.

About names (`DelegationProofs`, from `NamesAssumption`): `NamesInv` says that the name
is that of its ghost `source`, segment by segment: the key and the parts that it keeps
are absent or cut to the same place. `NamesKeepTheirKeys` follows.
About type sets (from `DeclaredAssumption`: the keys of a Go map differ, and names are
made of segments; `AskedAssumption` and `BatchesAssumption`: a name that is asked for has
a segment, and a call adds something): `SetsInv` says that what the loader knows is
whole; that a set which is neither deferred nor whole is the one that is being resolved
(`OneUnderWay`); that its references so far lead to whole sets, at versions that were asked for;
and that the sets of the batch which were passed have lost their initializers
(`BatchFits`). Without the last one nothing would be known of the sets that `Publish` makes
known. `KnownSetsAreResolved` follows. `AnswersOfSets` rests on what the loader of a set
records: a miss is kept for the *last* of the names that it asked for, from which nothing
more can be stripped (`MissesAreLast`). A recorded miss is therefore never met
before a name that would be found, which is the argument of `LoaderAnswers`. That the
names which are left, when the name of the set is stripped once or more, are left of each
other too is `StrippedInTurn`, and that the aliases in a name lead to one set at most is
`OneOwner`, by the least segment at which they would not. `ScopesInv` adds that all sets of
a batch are registered before the first is published, so that a set which is known has all its types.

`CollectionsProofs` (from `CollectionsAssumption`: a capacity is a number).
`CollectionsInv` says of every object that its slice lies within its array and its
index within its slice (`Placed`), of every hash that is not disturbed that the index it
keeps is that of its entries (`Answers`), and of the last Merge that its result is
right (`Merges`). Each of the calls is first brought into one form, `Does(op, o, A, X)`: arrays are
added, those in `A` may be written but keep their length, the objects in `X` are made anew, all
others keep what they are and may get their index. That this form keeps slices and
indexes, and changes no object outside `X` on an array outside `A`, is then proved
once (`DoesKeeps`); `SlicesAlwaysFit` and `SharersAlone` follow.
The invariant needs the lengths of arrays to stay while they are written: with an array
that got shorter, an object that shares it would reach beyond it.
`HashesAlwaysAnswer` also needs what is done with lists. `MergedContent` follows mergeEntries
entry by entry, by `EnteredUpTo`: which entries of the argument are in, and that those of the
receiver are where they were, or replaced. `SameContent` is Hash.Equals: two
lists of the same length without duplicate keys, one within the other, hold the same,
because a finite set has no other subset of its size.

`LookupInv`, `LockProtocol`, `HashInv`, `SetsInv` and `CollectionsInv` were checked with
TLC on the instances of their runs before they were proved; the runs check what
follows from them. Some definitions of the model were reworded for the proofs and
mean what they did: `:>` and `@@`, which the provers do not know, gave way to
`Bind`, an EXCEPT in an EXCEPT to `CutKey`, and the remainder of a division, which told what
is stripped, to `StartsWith`. The loops of `Collections` are recursive functions on numbers, or select
with FlattenSeq, instead of recursive operators and folds, and `disturbed`
replaces a copy of what each object first held. In `FileBasedLoader` the mapping to
`NameLocks` is made of named operators on one stack (`StepAt`, `LockAt`).

Only model-checked:

- liveness, which is beyond these provers;
- `NothingHalfLoaded` of `FileBasedLoader`, for files that hold a type set;
- `Types` and the modules above it, `ObjectTypes`, `Aliases` and `Serialization`, which use
  recursive operators, as the methods of the source do;
- `TimeSpans`, whose properties are about folds of data.

## 5. The plan

1. proofs: `NothingHalfLoaded` for type sets none of whose references panics.
2. the index of paths and Discover, with the accesses that take no lock.
3. object types that several go routines resolve on first use, in `Aliases`; with Init
   and Like, the rest of `Types`.
4. type parameters and annotations of object types.

## 6. Not modelled

Discover (a sorted listing), the index of paths and smart paths, module_path,
variables and stack of a context, the logger, wording of errors and formats of
values (`format.go`), time stamps and versions, whose arithmetic and layouts
are those of libraries, type parameters, annotations, types made of Go structs
(`reflector.go`), and what libraries do (yaml, protobuf, semver, regular
expressions). A parent that is given in the text before the init hash (`Parent{...}`):
the type holds it as an unresolved reference while the parent is resolved, and
types that inherit from each other in a circle are refused there
(objecttype.go:1318). Writer and reader of data mean the same by the name of a type:
that the deserializer panics at a type which its program has loaded differently is
left out. Data races on Go maps (Discover and HasEntry without the lock,
contexts cloned while in use) abort the program; they are listed as hazards and
not given a meaning here.

## 7. Where the code departs from what one would expect

Besides the findings of the runs, the properties are stated with exceptions that
a reader of the code should know; each was found by dropping the exception, or by
a run that was kept only as long as it was of use.

Loaders:

- A px.Load panics when another go routine binds the name between the lookup and
  the record of its miss (`Refusal` in `LoaderEntries`, `Cache` in
  `FileBasedLoader`): `VisibleIsFound` speaks of names that were there before.
- The types that a fork loads go to its own loader while the placeholder stays in
  the loader it shares: another fork does not find them. `NothingHalfLoaded` asks
  for one context that sees the type, not for all.
- A file that does not parse leaves its placeholder (filebased.go:271): the name is
  missing from then on and the file is never read again. `NothingHalfLoaded` excepts
  the names of such files.
- In a fork the type set of a module cannot be loaded twice: `VisibleIsFound` of
  `FileBasedLoader` excepts it. A file that refers to a file that does not parse
  is left half loaded when it holds a type set.
- With a context of a module beside root contexts a recorded miss may last:
  `NoLastingLie` is about root contexts.
- A pcore.Do inside an actor (`NestedDo`) leaves the outer actor with the wrong
  context: the part of `ContextsAreOfOneThread` about actors excepts it.
- px.Fork forks the context in the new go routine (`Start`), with the loader the
  context has by then, not the one it had at the call.
- A mapping that is declared after the first use of the runtime is known to one
  root context: `ContextsSeeDeclarations` is about what was declared before.
- SystemLoader and Get come back with nothing when a Reset overtakes them
  (`OnlyResetTakesAnswers`).
- px/loader.go:23 says that an entry is missing only if none can be found. While
  one go routine reads a file, its placeholder (filebased.go:270) tells another
  that there is no such type.
- The instantiator of init_typeset.pp runs without mutex and placeholder
  (filebased.go:146). When such a set has a member, resolving it looks for the
  member, find looks for the set of the module, and instantiates it again without
  end.
- A root context that loads a qualified name panics (dependency.go:36, 49): the
  type is bound in the environment, and the entry of the module that LoadEntry
  then sets there has no value.

Types (`LooseAt`, `Irreflexive` and `Entangled` in `TypeLattice`): what is assignable
is not always an instance.

- Unit is assignable to everything; Any is assignable to every Optional
  (optionaltype.go:95 asks whether undef may be assigned to the other type, where
  the reverse is meant).
- Binary is assignable to Iterable, and is no instance of it.
- A Hash type is assignable to a Struct whose required members its value type
  fits, whatever its keys are called.
- A Tuple takes an Array or a Tuple that may be larger than it is: only the lower bound
  is compared (tupletype.go:217).
- String with a size takes the Enum without members, of which every string is an
  instance.
- A Struct with optional members counts as a Hash or Collection of as many
  entries as it has members.
- A question that a guard has seen is answered with true, also when its first
  answer was false (px/equality.go:27). An alias whose type asks the same
  question about another alias twice is assignable to what it should not be.
- An alias that is not resolved yet panics when it is asked, but as the right-hand type of
  IsAssignable it is assignable to nothing (types.go:131), which `Aliases` does not ask.
- A deferred type that met a name before it was published remembers a reference to it
  (deferredtype.go:56): `ReferencesAreFound` and `AnswersLast` except the aliases that
  were used that early, and those that need a name of another batch.
- A Pattern with members, an Iterable and a NotUndef of a type that takes undef
  are not assignable to themselves, unless it is the very same object.

Inferred types (`Uneven`, `Hollow`, `early` in `InferredTypes`):

- commonType returns the narrower of two types when it comes first: the type of
  [[1], [1, 2]] is Array[Array[Integer[1, 1], 1, 2], 2, 2], of which it is no instance.
- Between the publication of a Tuple and the loop that fills it, its element types
  are nil (arraytype.go:757): a go routine that reads it then panics.
- A type that was merged from one that another go routine has published and not
  filled in yet (Array[Any]) stays that way.
- The detailed type of a hash with an empty key panics (hashtype.go:1338).
- PutAll leaves the reduced type of a mutable hash as it was (hashtype.go:1411).

String hash:

- A callback of ComputeIfAbsent that enters the key (`Reentrant`) leads to two
  entries for it: `IndexesAgree` is about hashes whose callbacks do not.

Arrays and hashes (`Collections`):

- Array.Add and AddAll append into capacity that the receiver may share: two arrays
  made by Add of one array with spare room show each other's element.
- Hash.Delete shifts the entries of its receiver, under the index that the receiver
  keeps; `OnlySharersChange` allows both, and `HashesAnswer` excepts the hashes whose
  entries were shifted.
- Hash.DeleteAll with two keys that are present removes one of them too few.
- Merge with an argument that has a key twice appends it twice, and
  WrapHashFromArray keeps duplicate keys, against the comment that it makes them unique.
- Hash.ToKey depends on the order of the entries, Equals does not.

Runtime:

- After a panic in InitializeRuntime every root context has a registry whose parent
  is nil: the first lookup that reaches it panics, and a mapping that was taken from
  the queue then is lost. `ContextsSeeDeclarations` excepts the case (`failed`).

Names and type sets:

- A set whose resolution panicked counts as resolved when it is added again
  (typeset.go:412, context.go:119): state `abandoned`, excepted in `NothingHalfAdded`.
- A set whose name authority is not that of the loader does not see its own
  types by their full names, nor its references.
- An alias that differs from a type in case only is not refused, and takes its place
  in dcToCcMap (`Ambiguous`).
- The Discover of a set's loader asserts that the keys of the types are Go strings,
  which they are not, and panics.
- IsParent looks neither at the namespace nor at the authority; a key with an empty
  authority is not taken back by TypedNameFromMapKey.

Type expressions (`Forgetful`, `CallableForgets`):

- A string with a value gives back no parameters; a case-insensitive Enum gives back
  a flag that its creator takes for the member ''.
- Hash[K, V, n] without an upper bound, and a String type whose lower bound is the
  least integer, give back a Default that the creator refuses.
- A Tuple made of [] has no size, and Tuple[n] alone ignores n; a Runtime with a
  pattern and without a name or a runtime is not made again.
- A Callable without parameters, with a Tuple, a Unit or a Callable in certain places
  is read as another one.
- The lexer does not come to an end on a number that ends in its exponent
  (lexer.go, consumeUnsignedInteger).

Functions and explanations (`Misdeclared`, `Undescribed`, `Merged`, `BlockAskedBackwards`):

- A required repeated parameter after an optional one is not refused and not
  required; a block that is declared by text is dropped with Function; Block2 tests
  the type of the result where that of the block is meant.
- CallableWith asks whether the type of the expected block is assignable to that of
  the given one, and the describer asks the reverse.
- Of two Tuples of sizes that fit only the elements beyond the expected ones are
  described; the parameters of two Callables are compared the wrong way round; an
  optional key where a required one is expected is not described.
- Merged ranges may hold the actual size, and of arguments for one repeated parameter
  only one is mentioned.

Object types (`Ordinary`, `Muddled`, `Repeats`, `HalfInitialised`):

- An overridden attribute is a parameter of the constructor twice; a serialization
  inverts the count of the required ones.
- A constant and a function of one name are not noticed as a conflict. Equality
  attributes given as an Array are replaced by empty names, and refused.
- A panic in Resolve leaves a type that looks resolved; types that inherit from each
  other in a circle, by their init hashes, exhaust the stack unless the first one is
  asked.
- A hash with as many unknown keys as overridden attributes counts as an init hash; a
  required attribute or a position that is then missing makes the creation panic
  (objectvalue.go:110, attributesinfo.go:44).
- An object with explicit defaults at the end is not Equal to the one without them
  (px/types.go:201 expects the init hash to make an equal one); `ObjectsAreTheirInit`
  compares what they show. Implements does not look at signatures (px/types.go:211).

Serialization (`LostInJson`, `Opaque`):

- Floats without a fraction come back from JSON as integers.
- Without rich data, two opaque values with the same text break the count of the
  writer: a reference points at what was not written.
- A hash whose only key is `__pref` is read as a reference.
- FromPBData has no Binary and no reference; a YAML alias loses the order of keys.

Time spans (`Readable`):

- The sign of a text is matched and dropped: a negative span is read back positive,
  also when it is serialized.
- A fraction is raised to a power where it should be multiplied by one
  (`Nanoseconds`): 1.5 seconds are read as one second and 50^8 nanoseconds, which
  is why `Readable` wants all digits of a fraction or none.
- A number that is padded with spaces is not read back, because its regular
  expression has `[0-9\\s]`; fractions are padded behind, which is not read either.
- A span is serialized as its whole seconds, and Equals and ToKey look at nothing
  else: what is smaller is lost without notice.
- Timespan[...] gives back parameters that its creator does not parse, and the
  creator's case for a Timespan never applies.
