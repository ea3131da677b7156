---------------------------- MODULE LoaderEntries ----------------------------
(***************************************************************************)
(* The loaders of loader/loader.go: a basicLoader keeps entries by name    *)
(* under a lock, a parentedLoader asks its parent first, and px.Load       *)
(* remembers a miss as an entry without a value.  Contexts of several go   *)
(* routines share their loaders (pxContext.Fork gives a context a loader   *)
(* of its own, on top of the shared ones), so that every call below is     *)
(* interleaved with those of other threads between any two of its steps.   *)
(*                                                                         *)
(* The map of a loader is read and written under its lock, one step each.  *)
(* The value of an entry is read after the lock was released, while        *)
(* SetEntry fills the entry of a miss in place: a step of its own, that    *)
(* sees what the entry holds at that time.                                 *)
(***************************************************************************)
EXTENDS Naturals, Sequences

CONSTANTS Threads,      \* go routines, each with a context
          Loaders,
          Names,
          Values,       \* types, functions, constructors
          TypeValues,   \* those that are types
          Path,         \* Path[l]: the chain of parents of l, root first, l last
          Class,        \* Class[v] = Class[w] iff v.Equals(w)
          Absent,       \* no entry
          Nil,          \* an entry without a value
          NoCall        \* a thread that made no call yet

ASSUME ValuesAssumption ==
  /\ TypeValues \subseteq Values
  /\ Absent \notin Values /\ Nil \notin Values /\ Absent # Nil

ASSUME PathAssumption ==
  /\ Path \in [Loaders -> Seq(Loaders)]
  /\ \A l \in Loaders : Len(Path[l]) > 0 /\ Path[l][Len(Path[l])] = l

VARIABLES entries,      \* entries[l][n]: namedEntries of l, and the value the entry holds
          pc,           \* what a thread does next
          call,         \* the call it runs
          level,        \* the loader of Path[call.loader] the call has reached
          outcome,      \* how the last call of the thread ended
          visible,      \* ghost: the levels that had a value when the call began
          defined       \* ghost: the definitions SetEntry accepted

vars == <<entries, pc, call, level, outcome, visible, defined>>

Calls == [kind : {"load", "has"}, loader : Loaders, name : Names, value : {Nil}]
         \cup [kind : {"define", "ensure"}, loader : Loaders, name : Names, value : Values]

\* How a call ends: a lookup finds a value at a level of the chain or misses, a definition
\* is bound or refused with one of two panics.
Statuses == {"none", "found", "missing", "bound", "redefine", "typeAssertion"}
Outcomes == [status : Statuses, level : Nat, value : Values \cup {Nil}]
Ended(status) == [status |-> status, level |-> 0, value |-> Nil]
Panics == {"redefine", "typeAssertion"}

Chain(t) == Path[call[t].loader]
Here(t) == Chain(t)[level[t]]
Entry(t) == entries[Here(t)][call[t].name]

\* The levels of the chain of l at which n has a value.
BoundLevels(l, n) == {i \in DOMAIN Path[l] : entries[Path[l][i]][n] \in Values}

Init ==
  /\ entries = [l \in Loaders |-> [n \in Names |-> Absent]]
  /\ pc = [t \in Threads |-> "idle"]
  /\ call = [t \in Threads |-> NoCall]
  /\ level = [t \in Threads |-> 0]
  /\ outcome = [t \in Threads |-> Ended("none")]
  /\ visible = [t \in Threads |-> {}]
  /\ defined = {}

Finish(t, result) ==
  /\ pc' = [pc EXCEPT ![t] = "idle"]
  /\ outcome' = [outcome EXCEPT ![t] = result]
  /\ UNCHANGED <<call, level, visible>>

Goto(t, label) ==
  /\ pc' = [pc EXCEPT ![t] = label]
  /\ UNCHANGED <<call, level, outcome, visible>>

ASSUME NoCallAssumption == NoCall \notin Calls

-----------------------------------------------------------------------------
(* SetEntry: one critical section of the loader's lock. *)

\* Faulty variant: no test of the old value.
AcceptsAny(old, new) == TRUE

\* An entry is accepted when there is none, when the old one has no value, and when
\* the values are the same or Equal.
Accepts(old, new) ==
  \/ old \in {Absent, Nil}
  \/ old \in Values /\ new \in Values /\ Class[old] = Class[new]

\* Faulty variant: the last value wins.
StoredLast(old, new) == new

\* What the map holds afterwards: a value, once there, is never replaced.
Stored(old, new) == IF old \in {Absent, Nil} THEN new ELSE old

\* The panic of a refused entry. Formatting the message of a type asserts that the new
\* value is a type too.
Refusal(old, new) ==
  IF old \in TypeValues /\ new \notin TypeValues THEN "typeAssertion" ELSE "redefine"

SetEntry(t, l, n, new, done) ==
  LET old == entries[l][n] IN
  \/ /\ Accepts(old, new)
     /\ entries' = [entries EXCEPT ![l][n] = Stored(old, new)]
     /\ defined' = defined \cup
          {d \in [loader : {l}, name : {n}, value : {new}] : new \in Values}
     /\ Finish(t, Ended(done))
  \/ /\ ~Accepts(old, new)
     /\ UNCHANGED <<entries, defined>>
     /\ Finish(t, Ended(Refusal(old, new)))

-----------------------------------------------------------------------------
\* A call begins: px.Load, HasEntry, SetEntry with a value (AddTypes), or
\* LoadEntry followed by SetEntry when that found no value (resolveTypeSet).
Begin(t) ==
  /\ pc[t] = "idle"
  /\ \E c \in Calls :
       /\ call' = [call EXCEPT ![t] = c]
       /\ visible' = [visible EXCEPT ![t] = BoundLevels(c.loader, c.name)]
       /\ pc' = [pc EXCEPT ![t] = IF c.kind = "define" THEN "set" ELSE "visit"]
  /\ level' = [level EXCEPT ![t] = 1]
  /\ outcome' = [outcome EXCEPT ![t] = Ended("none")]
  /\ UNCHANGED <<entries, defined>>

\* Faulty variant: the loader is asked again.
DescendNowhere(t) ==
  /\ pc' = [pc EXCEPT ![t] = "visit"]
  /\ UNCHANGED <<entries, call, level, outcome, visible, defined>>

Descend(t) ==
  /\ level' = [level EXCEPT ![t] = @ + 1]
  /\ pc' = [pc EXCEPT ![t] = "visit"]
  /\ UNCHANGED <<entries, call, outcome, visible, defined>>

\* A call that met no value at any level: Load puts an entry without value in its own
\* loader if that has none, an "ensure" defines the name, HasEntry answers false.
Exhausted(t) ==
  /\ level[t] = Len(Chain(t))
  /\ UNCHANGED <<entries, defined>>
  /\ \/ call[t].kind = "load" /\ Entry(t) = Absent /\ Goto(t, "cache")
     \/ call[t].kind = "load" /\ Entry(t) # Absent /\ Finish(t, Ended("missing"))
     \/ call[t].kind = "has" /\ Finish(t, Ended("missing"))
     \/ call[t].kind = "ensure" /\ Goto(t, "set")

\* basicLoader.GetEntry, under the lock.
Visit(t) ==
  /\ pc[t] = "visit"
  /\ \/ /\ Entry(t) = Absent
        /\ \/ level[t] < Len(Chain(t)) /\ Descend(t)
           \/ Exhausted(t)
     \/ /\ Entry(t) # Absent
        /\ Goto(t, "value")
        /\ UNCHANGED <<entries, defined>>

\* Faulty variant: an entry without a value ends the search.
ReadValueFinal(t) ==
  /\ pc[t] = "value"
  /\ IF Entry(t) \in Values
     THEN Finish(t, [status |-> "found", level |-> level[t], value |-> Entry(t)])
     ELSE Finish(t, Ended("missing"))
  /\ UNCHANGED <<entries, defined>>

\* entry.Value(), without the lock. A level that has a value hides the ones below it.
ReadValue(t) ==
  /\ pc[t] = "value"
  /\ \/ /\ Entry(t) \in Values
        /\ Finish(t, [status |-> "found", level |-> level[t], value |-> Entry(t)])
        /\ UNCHANGED <<entries, defined>>
     \/ /\ Entry(t) = Nil
        /\ \/ level[t] < Len(Chain(t)) /\ Descend(t)
           \/ Exhausted(t)

\* Load remembers that nothing was found.
CacheMiss(t) ==
  /\ pc[t] = "cache"
  /\ SetEntry(t, call[t].loader, call[t].name, call[t].value, "missing")

Define(t) ==
  /\ pc[t] = "set"
  /\ SetEntry(t, call[t].loader, call[t].name, call[t].value, "bound")

Step(t) == Visit(t) \/ ReadValue(t) \/ CacheMiss(t) \/ Define(t)

Next == \E t \in Threads : Begin(t) \/ Step(t)

Spec == Init /\ [][Next]_vars

\* A go routine that runs is scheduled again; nothing says that it makes another call.
FairSpec == Spec /\ \A t \in Threads : WF_vars(Step(t))

-----------------------------------------------------------------------------
(* Properties *)

TypeOK ==
  /\ entries \in [Loaders -> [Names -> Values \cup {Absent, Nil}]]
  /\ pc \in [Threads -> {"idle", "visit", "value", "cache", "set"}]
  /\ call \in [Threads -> {NoCall} \cup Calls]
  /\ level \in [Threads -> Nat]
  /\ outcome \in [Threads -> Outcomes]
  /\ visible \in [Threads -> SUBSET Nat]
  /\ defined \subseteq [loader : Loaders, name : Names, value : Values]
  /\ \A t \in Threads : pc[t] # "idle" =>
       /\ call[t] # NoCall
       /\ level[t] \in DOMAIN Chain(t)

\* The binding an outside observer sees: SetEntry of loader.go keeps each name's first value,
\* whatever placeholders come and go around it.
Binding == [l \in Loaders |-> [n \in Names |->
              IF entries[l][n] \in Values THEN entries[l][n] ELSE Absent]]

Registry == INSTANCE LoaderRegistry WITH binding <- Binding, Unbound <- Absent

WriteOnce == Registry!Spec

\* Every definition that SetEntry accepted is the binding of the name, or Equal to it: of two
\* go routines that define a name, none is told that its definition stands while it is lost.
DefinitionsStand ==
  \A d \in defined :
    LET bound == entries[d.loader][d.name]
    IN bound \in Values /\ Class[bound] = Class[d.value]

\* parentedLoader.LoadEntry is not atomic, and still a name that had a value at some loader
\* of the chain when the lookup began is found, at that loader or at one nearer the root,
\* though definitions and misses are recorded between its steps.
VisibleIsFound ==
  \A t \in Threads :
    /\ pc[t] = "idle" /\ call[t] # NoCall /\ call[t].kind \in {"load", "has"}
    => \A i \in visible[t] : outcome[t].status = "found" /\ outcome[t].level <= i

\* A value a lookup returned is the binding of the loader it was found at: an answer stays
\* valid, and no thread ever holds a value that was taken back.
AnswersStand ==
  \A t \in Threads :
    outcome[t].status = "found" =>
      entries[Chain(t)[outcome[t].level]][call[t].name] = outcome[t].value

\* resolveTypeSet and Constructor look before they define. Such a call never fails because of
\* a definition that was there when it looked; only one made since, and not Equal, can stop it.
EnsureFailsOnlyIfRaced ==
  \A t \in Threads :
    /\ pc[t] = "idle" /\ call[t] # NoCall /\ call[t].kind = "ensure"
    /\ outcome[t].status \in Panics
    => visible[t] = {}

\* What a caller of LoadEntry, HasEntry or px.Load may rely on, whoever else defines names.
LookupsAnswer == VisibleIsFound /\ AnswersStand /\ EnsureFailsOnlyIfRaced

\* The inductive form of these three properties, for one thread: a lookup under way has not
\* passed a level that was bound when it began, and only a call that saw no such level goes on
\* to cache a miss or to define the name.
Lookup(t) ==
  /\ pc[t] \in {"visit", "value"} =>
       /\ call[t].kind # "define"
       /\ \A i \in visible[t] :
            /\ i \in DOMAIN Chain(t) /\ level[t] <= i
            /\ entries[Chain(t)[i]][call[t].name] \in Values
  /\ pc[t] = "cache" => call[t].kind = "load" /\ visible[t] = {}
  /\ pc[t] = "set" => /\ call[t].kind \in {"define", "ensure"}
                      /\ call[t].kind = "ensure" => visible[t] = {}
  /\ outcome[t].status = "found" =>
       /\ pc[t] = "idle" /\ call[t] # NoCall
       /\ outcome[t].level \in DOMAIN Chain(t) /\ outcome[t].value \in Values
       /\ entries[Chain(t)[outcome[t].level]][call[t].name] = outcome[t].value
  /\ pc[t] = "idle" /\ call[t] # NoCall /\ call[t].kind \in {"load", "has"} =>
       \A i \in visible[t] : outcome[t].status = "found" /\ outcome[t].level <= i
  /\ /\ pc[t] = "idle" /\ call[t] # NoCall /\ call[t].kind = "ensure"
     /\ outcome[t].status \in Panics
     => visible[t] = {}

\* parentedLoader.LoadEntry and px.Load, at every point between their steps.
LookupInv == \A t \in Threads : Lookup(t)

\* Every call ends: nothing waits for another thread except for the short critical sections.
CallsEnd == \A t \in Threads : pc[t] # "idle" ~> pc[t] = "idle"
=============================================================================
