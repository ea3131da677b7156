------------------------- MODULE LoaderEntriesProofs -------------------------
(***************************************************************************)
(* Proofs about LoaderEntries, for every set of threads, loaders, names    *)
(* and values and every chain of parents.                                  *)
(***************************************************************************)
EXTENDS LoaderEntries, TLAPS

-----------------------------------------------------------------------------
(* Facts about one SetEntry. *)

\* The value that SetEntry stores for an accepted entry is one of the two it is given.
LEMMA StoredType ==
  ASSUME NEW old \in Values \cup {Absent, Nil}, NEW new \in Values \cup {Nil}
  PROVE  Stored(old, new) \in Values \cup {Nil}
  BY ValuesAssumption DEF Stored

\* A value is never replaced, whatever entry is offered for its name.
LEMMA StoredKeepsValue ==
  ASSUME NEW old \in Values, NEW new
  PROVE  Stored(old, new) = old
  BY ValuesAssumption DEF Stored

\* An accepted value is stored, or Equal to the one that is.
LEMMA AcceptedIsStored ==
  ASSUME NEW old, NEW new \in Values, Accepts(old, new)
  PROVE  /\ Stored(old, new) \in Values
         /\ Class[Stored(old, new)] = Class[new]
  BY ValuesAssumption DEF Stored, Accepts

\* The entry a call with a position in its chain looks at is an entry of a loader.
LEMMA HereIsLoader ==
  ASSUME TypeOK, NEW t \in Threads, pc[t] # "idle"
  PROVE  /\ call[t] \in Calls /\ call[t].loader \in Loaders /\ call[t].name \in Names
         /\ call[t].value \in Values \cup {Nil}
         /\ Chain(t) \in Seq(Loaders) /\ Len(Chain(t)) \in Nat
         /\ Here(t) \in Loaders
         /\ Entry(t) \in Values \cup {Absent, Nil}
  BY PathAssumption DEF TypeOK, Calls, Chain, Here, Entry

-----------------------------------------------------------------------------
(* Type correctness. *)

\* Every reachable state is of the declared types; a call stays inside its chain of loaders.
THEOREM TypeCorrect == Spec => []TypeOK
<1>1. Init => TypeOK
  BY DEF Init, TypeOK, Outcomes, Statuses, Ended
<1>2. TypeOK /\ [Next]_vars => TypeOK'
  <2> SUFFICES ASSUME TypeOK, [Next]_vars PROVE TypeOK'
    OBVIOUS
  <2>1. CASE UNCHANGED vars
    BY <2>1 DEF TypeOK, vars, Chain
  <2>2. ASSUME NEW t \in Threads, Begin(t) PROVE TypeOK'
    <3>1. PICK c \in Calls :
            /\ call' = [call EXCEPT ![t] = c]
            /\ visible' = [visible EXCEPT ![t] = BoundLevels(c.loader, c.name)]
            /\ pc' = [pc EXCEPT ![t] = IF c.kind = "define" THEN "set" ELSE "visit"]
      BY <2>2 DEF Begin
    <3>2. c.loader \in Loaders
      BY DEF Calls
    <3>3. Path[c.loader] \in Seq(Loaders) /\ 1 \in DOMAIN Path[c.loader]
      BY <3>2, PathAssumption
    <3>4. BoundLevels(c.loader, c.name) \in SUBSET Nat
      BY <3>3 DEF BoundLevels
    <3>5. level' = [level EXCEPT ![t] = 1] /\ outcome' = [outcome EXCEPT ![t] = Ended("none")]
          /\ UNCHANGED <<entries, defined>>
      BY <2>2 DEF Begin
    <3>6. Ended("none") \in Outcomes
      BY DEF Ended, Outcomes, Statuses
    <3>7. c # NoCall
      BY NoCallAssumption
    <3> QED
      BY <3>1, <3>3, <3>4, <3>5, <3>6, <3>7 DEF TypeOK, Chain
  <2>3. ASSUME NEW t \in Threads, NEW r \in Outcomes, pc[t] # "idle", Finish(t, r),
               entries' \in [Loaders -> [Names -> Values \cup {Absent, Nil}]],
               defined' \subseteq [loader : Loaders, name : Names, value : Values]
        PROVE  TypeOK'
    BY <2>3 DEF TypeOK, Finish, Chain
  <2>4. ASSUME NEW t \in Threads, NEW p \in {"visit", "value", "cache", "set"},
               pc[t] # "idle", Goto(t, p), UNCHANGED <<entries, defined>>
        PROVE  TypeOK'
    BY <2>4 DEF TypeOK, Goto, Chain
  <2>5. ASSUME NEW t \in Threads, pc[t] # "idle", level[t] < Len(Chain(t)), Descend(t)
        PROVE  TypeOK'
    BY <2>5, HereIsLoader DEF TypeOK, Descend, Chain
  <2>6. ASSUME NEW t \in Threads, pc[t] # "idle", Exhausted(t) PROVE TypeOK'
    <3>1. Ended("missing") \in Outcomes
      BY DEF Ended, Outcomes, Statuses
    <3> QED
      BY <2>6, <3>1, <2>3, <2>4 DEF Exhausted, TypeOK
  <2>7. ASSUME NEW t \in Threads, Visit(t) PROVE TypeOK'
    BY <2>7, <2>4, <2>5, <2>6 DEF Visit
  <2>8. ASSUME NEW t \in Threads, ReadValue(t) PROVE TypeOK'
    <3>1. pc[t] # "idle"
      BY <2>8 DEF ReadValue
    <3>2. ASSUME Entry(t) \in Values
          PROVE [status |-> "found", level |-> level[t], value |-> Entry(t)] \in Outcomes
      BY <3>2 DEF Outcomes, Statuses, TypeOK
    <3> QED
      BY <2>8, <3>1, <3>2, <2>3, <2>5, <2>6 DEF ReadValue, TypeOK
  <2>9. ASSUME NEW t \in Threads, pc[t] # "idle", NEW done \in {"missing", "bound"},
               SetEntry(t, call[t].loader, call[t].name, call[t].value, done)
        PROVE  TypeOK'
    <3> DEFINE l == call[t].loader
               n == call[t].name
               new == call[t].value
               old == entries[l][n]
    <3>1. /\ l \in Loaders /\ n \in Names /\ new \in Values \cup {Nil}
          /\ old \in Values \cup {Absent, Nil}
      BY <2>9, HereIsLoader DEF TypeOK
    <3>2. Ended(done) \in Outcomes /\ Ended(Refusal(old, new)) \in Outcomes
      BY <2>9 DEF Ended, Outcomes, Statuses, Refusal
    <3>3. CASE Accepts(old, new)
      <4>1. entries' = [entries EXCEPT ![l][n] = Stored(old, new)] /\ Finish(t, Ended(done))
            /\ defined' = defined \cup
                 {d \in [loader : {l}, name : {n}, value : {new}] : new \in Values}
        BY <2>9, <3>3 DEF SetEntry
      <4>2. entries' \in [Loaders -> [Names -> Values \cup {Absent, Nil}]]
        BY <4>1, <3>1, StoredType DEF TypeOK
      <4>3. defined' \subseteq [loader : Loaders, name : Names, value : Values]
        BY <4>1, <3>1 DEF TypeOK
      <4> QED
        BY <4>1, <4>2, <4>3, <3>2, <2>3, <2>9
    <3>4. CASE ~Accepts(old, new)
      BY <2>9, <3>4, <3>2, <2>3 DEF SetEntry, TypeOK
    <3> QED
      BY <3>3, <3>4
  <2>10. ASSUME NEW t \in Threads, CacheMiss(t) PROVE TypeOK'
    BY <2>10, <2>9 DEF CacheMiss
  <2>11. ASSUME NEW t \in Threads, Define(t) PROVE TypeOK'
    BY <2>11, <2>9 DEF Define
  <2> QED
    BY <2>1, <2>2, <2>7, <2>8, <2>10, <2>11 DEF Next, Step
<1> QED
  BY <1>1, <1>2, PTL DEF Spec

-----------------------------------------------------------------------------
(* What one step does to the entries. *)

\* A step leaves the entries alone or gives a name without a value an entry.
LEMMA EntriesStep ==
  ASSUME TypeOK, [Next]_vars
  PROVE  \/ UNCHANGED entries
         \/ \E l \in Loaders, n \in Names, new \in Values \cup {Nil} :
              /\ entries[l][n] \in {Absent, Nil}
              /\ entries' = [entries EXCEPT ![l][n] = new]
<1> DEFINE Effect == \/ UNCHANGED entries
                     \/ \E l \in Loaders, n \in Names, new \in Values \cup {Nil} :
                          /\ entries[l][n] \in {Absent, Nil}
                          /\ entries' = [entries EXCEPT ![l][n] = new]
<1>1. ASSUME NEW t \in Threads, pc[t] # "idle", NEW done,
             SetEntry(t, call[t].loader, call[t].name, call[t].value, done)
      PROVE  Effect
  <2> DEFINE l == call[t].loader
             n == call[t].name
             new == call[t].value
             old == entries[l][n]
  <2>1. l \in Loaders /\ n \in Names /\ new \in Values \cup {Nil}
    BY <1>1, HereIsLoader
  <2>2. CASE ~Accepts(old, new)
    BY <1>1, <2>2 DEF SetEntry
  <2>3. CASE Accepts(old, new) /\ old \in {Absent, Nil}
    BY <1>1, <2>1, <2>3 DEF SetEntry, Stored
  <2>4. CASE Accepts(old, new) /\ old \notin {Absent, Nil}
    BY <1>1, <2>1, <2>4 DEF SetEntry, Stored, TypeOK
  <2> QED
    BY <2>2, <2>3, <2>4
<1>2. ASSUME NEW t \in Threads, Begin(t) \/ Step(t) PROVE Effect
  <2>1. CASE CacheMiss(t)
    BY <1>1, <2>1 DEF CacheMiss
  <2>2. CASE Define(t)
    BY <1>1, <2>2 DEF Define
  <2> QED
    BY <1>2, <2>1, <2>2 DEF Step, Begin, Visit, ReadValue, Descend, Exhausted
<1> QED
  BY <1>2 DEF Next, vars

\* A value is never taken back.
LEMMA ValuesStay ==
  ASSUME TypeOK, [Next]_vars, NEW l \in Loaders, NEW n \in Names, entries[l][n] \in Values
  PROVE  entries'[l][n] = entries[l][n]
  BY EntriesStep, ValuesAssumption DEF TypeOK

\* LoaderEntries implements LoaderRegistry: placeholders, misses and Equal definitions are
\* invisible, and a name is bound once.
THEOREM Refinement == Spec => WriteOnce
<1>1. Init => Registry!Init
  BY ValuesAssumption DEF Init, Registry!Init, Binding
<1>2. TypeOK /\ [Next]_vars => [Registry!Next]_Binding
  <2> SUFFICES ASSUME TypeOK, [Next]_vars, Binding' # Binding PROVE Registry!Next
    OBVIOUS
  <2>1. PICK l \in Loaders, n \in Names, new \in Values \cup {Nil} :
          /\ entries[l][n] \in {Absent, Nil}
          /\ entries' = [entries EXCEPT ![l][n] = new]
    BY EntriesStep DEF Binding
  <2>2. new \in Values
    <3> SUFFICES ASSUME new = Nil PROVE FALSE
      OBVIOUS
    <3>1. \A k \in Loaders, m \in Names : entries'[k][m] \in Values <=> entries[k][m] \in Values
      BY <2>1, ValuesAssumption DEF TypeOK
    <3>2. \A k \in Loaders, m \in Names : entries'[k][m] \in Values => entries'[k][m] = entries[k][m]
      BY <2>1, ValuesAssumption DEF TypeOK
    <3> QED
      BY <3>1, <3>2 DEF Binding
  <2>3. Binding[l][n] = Absent
    BY <2>1, ValuesAssumption DEF Binding
  <2>4. Binding' = [Binding EXCEPT ![l][n] = new]
    BY <2>1, <2>2, ValuesAssumption DEF Binding, TypeOK
  <2> QED
    BY <2>2, <2>3, <2>4 DEF Registry!Next, Registry!Bind
<1> QED
  BY <1>1, <1>2, TypeCorrect, PTL DEF Spec, WriteOnce, Registry!Spec

\* No definition that was accepted is lost or replaced by one that is not Equal to it.
THEOREM DefinitionsAreKept == Spec => []DefinitionsStand
<1>1. Init => DefinitionsStand
  BY DEF Init, DefinitionsStand
<1>2. TypeOK /\ DefinitionsStand /\ [Next]_vars => DefinitionsStand'
  <2> SUFFICES ASSUME TypeOK, DefinitionsStand, [Next]_vars, NEW d \in defined'
               PROVE  /\ entries'[d.loader][d.name] \in Values
                      /\ Class[entries'[d.loader][d.name]] = Class[d.value]
    BY DEF DefinitionsStand
  <2>1. CASE d \in defined
    BY <2>1, ValuesStay DEF DefinitionsStand, TypeOK
  <2>2. CASE d \notin defined
    <3>1. PICK t \in Threads : Begin(t) \/ Step(t)
      BY <2>2 DEF Next, vars
    <3>2. CacheMiss(t) \/ Define(t)
      BY <2>2, <3>1 DEF Step, Begin, Visit, ReadValue, Descend, Exhausted
    <3> DEFINE l == call[t].loader
               n == call[t].name
               new == call[t].value
               old == entries[l][n]
    <3>3. l \in Loaders /\ n \in Names
      BY <3>2, HereIsLoader DEF CacheMiss, Define
    <3>4. /\ Accepts(old, new)
          /\ entries' = [entries EXCEPT ![l][n] = Stored(old, new)]
          /\ d.loader = l /\ d.name = n /\ d.value = new /\ new \in Values
      BY <3>2, <2>2 DEF CacheMiss, Define, SetEntry
    <3>5. entries'[l][n] = Stored(old, new)
      BY <3>3, <3>4 DEF TypeOK
    <3> QED
      BY <3>4, <3>5, AcceptedIsStored
  <2> QED
    BY <2>1, <2>2
<1> QED
  BY <1>1, <1>2, TypeCorrect, PTL DEF Spec

-----------------------------------------------------------------------------
(* Lookups, interleaved with everything other threads do. *)

\* What another thread does to the entries does not disturb a lookup.
LEMMA LookupStable ==
  ASSUME TypeOK, [Next]_vars, NEW t \in Threads, Lookup(t),
         pc'[t] = pc[t], call'[t] = call[t], level'[t] = level[t],
         outcome'[t] = outcome[t], visible'[t] = visible[t]
  PROVE  Lookup(t)'
<1>1. Chain(t)' = Chain(t)
  BY DEF Chain
<1>2. ASSUME call[t] # NoCall, NEW i \in DOMAIN Chain(t),
             entries[Chain(t)[i]][call[t].name] \in Values
      PROVE  entries'[Chain(t)[i]][call[t].name] = entries[Chain(t)[i]][call[t].name]
  <2>1. Chain(t)[i] \in Loaders /\ call[t].name \in Names
    BY <1>2, PathAssumption DEF TypeOK, Chain, Calls
  <2> QED
    BY <2>1, <1>2, ValuesStay
<1> QED
  BY <1>1, <1>2 DEF Lookup, TypeOK

\* A call of thread t takes one step.
LEMMA LookupStep ==
  ASSUME TypeOK, TypeOK', NEW t \in Threads, Lookup(t), Begin(t) \/ Step(t)
  PROVE  Lookup(t)'
<1>0. Chain(t) = Chain(t)'  \/ Begin(t)
  BY DEF Step, Visit, ReadValue, CacheMiss, Define, SetEntry, Descend, Exhausted,
         Finish, Goto, Chain
<1>1. CASE Begin(t)
  <2>1. PICK c \in Calls :
          /\ call' = [call EXCEPT ![t] = c]
          /\ visible' = [visible EXCEPT ![t] = BoundLevels(c.loader, c.name)]
          /\ pc' = [pc EXCEPT ![t] = IF c.kind = "define" THEN "set" ELSE "visit"]
    BY <1>1 DEF Begin
  <2>2. level'[t] = 1 /\ outcome'[t] = Ended("none") /\ entries' = entries
    BY <1>1 DEF Begin, TypeOK
  <2>3. call'[t] = c /\ visible'[t] = BoundLevels(c.loader, c.name)
    BY <2>1 DEF TypeOK
  <2>4. pc'[t] = IF c.kind = "define" THEN "set" ELSE "visit"
    BY <2>1 DEF TypeOK
  <2>5. Path[c.loader] \in Seq(Loaders)
    BY PathAssumption DEF Calls
  <2>6. \A i \in visible'[t] : /\ i \in DOMAIN Path[c.loader] /\ 1 <= i
                               /\ entries[Path[c.loader][i]][c.name] \in Values
    BY <2>3, <2>5 DEF BoundLevels
  <2> QED
    BY <2>2, <2>3, <2>4, <2>6 DEF Lookup, Chain, Ended
<1>2. ASSUME pc[t] \in {"visit", "value"}, Entry(t) \notin Values, Descend(t),
             level[t] < Len(Chain(t))
      PROVE  Lookup(t)'
  <2>1. \A i \in visible[t] : i \in DOMAIN Chain(t) /\ level[t] <= i /\ level[t] # i
    BY <1>2 DEF Lookup, Entry, Here
  <2>2. level[t] \in Nat /\ Chain(t) \in Seq(Loaders)
    BY <1>2, HereIsLoader DEF TypeOK
  <2>3. \A i \in visible[t] : level[t] + 1 <= i
    BY <2>1, <2>2
  <2>4. /\ pc'[t] = "visit" /\ level'[t] = level[t] + 1 /\ call' = call
        /\ visible' = visible /\ outcome' = outcome /\ entries' = entries
    BY <1>2 DEF Descend, TypeOK
  <2> QED
    BY <1>2, <2>3, <2>4 DEF Lookup, Chain
<1>3. ASSUME pc[t] \in {"visit", "value"}, Entry(t) \notin Values, Exhausted(t)
      PROVE  Lookup(t)'
  <2>1. \A i \in visible[t] : i \in DOMAIN Chain(t) /\ level[t] <= i /\ level[t] # i
    BY <1>3 DEF Lookup, Entry, Here
  <2>2. Chain(t) \in Seq(Loaders) /\ level[t] = Len(Chain(t))
    BY <1>3, HereIsLoader DEF Exhausted
  <2>3. visible[t] = {}
    BY <2>1, <2>2
  <2> QED
    BY <1>3, <2>3 DEF Lookup, Exhausted, Goto, Finish, Ended, Panics, Chain, TypeOK
<1>4. CASE Visit(t)
  <2>1. CASE Entry(t) = Absent
    BY <1>4, <2>1, <1>2, <1>3, ValuesAssumption DEF Visit
  <2>2. CASE Entry(t) # Absent
    BY <1>4, <2>2 DEF Visit, Goto, Lookup, Chain, TypeOK
  <2> QED
    BY <2>1, <2>2
<1>5. CASE ReadValue(t)
  <2>1. CASE Entry(t) \in Values
    <3>1. /\ pc'[t] = "idle" /\ entries' = entries /\ call' = call /\ visible' = visible
          /\ outcome'[t] = [status |-> "found", level |-> level[t], value |-> Entry(t)]
      BY <1>5, <2>1, ValuesAssumption DEF ReadValue, Finish, TypeOK
    <3>2. level[t] \in DOMAIN Chain(t) /\ call[t] # NoCall
      BY <1>5 DEF ReadValue, TypeOK
    <3> QED
      BY <1>5, <2>1, <3>1, <3>2 DEF ReadValue, Lookup, Chain, Entry, Here, Panics
  <2>2. CASE Entry(t) \notin Values
    BY <1>5, <2>2, <1>2, <1>3 DEF ReadValue
  <2> QED
    BY <2>1, <2>2
<1>6. CASE CacheMiss(t)
  <2>1. /\ pc'[t] = "idle" /\ call' = call /\ visible' = visible
        /\ outcome'[t].status # "found"
    BY <1>6 DEF CacheMiss, SetEntry, Finish, Refusal, Ended, TypeOK
  <2> QED
    BY <1>6, <2>1 DEF CacheMiss, Lookup
<1>7. CASE Define(t)
  <2>1. /\ pc'[t] = "idle" /\ call' = call /\ visible' = visible
        /\ outcome'[t].status # "found"
    BY <1>7 DEF Define, SetEntry, Finish, Refusal, Ended, TypeOK
  <2> QED
    BY <1>7, <2>1 DEF Define, Lookup
<1> QED
  BY <1>1, <1>4, <1>5, <1>6, <1>7 DEF Step

\* The lookup invariant holds in every reachable state.
THEOREM LookupCorrect == Spec => []LookupInv
<1>1. Init => LookupInv
  <2> SUFFICES ASSUME Init, NEW t \in Threads PROVE Lookup(t)
    BY DEF LookupInv
  <2>1. pc[t] = "idle" /\ call[t] = NoCall /\ outcome[t].status = "none"
    BY DEF Init, Ended
  <2> QED
    BY <2>1 DEF Lookup
<1>2. TypeOK /\ TypeOK' /\ LookupInv /\ [Next]_vars => LookupInv'
  <2> SUFFICES ASSUME TypeOK, TypeOK', LookupInv, [Next]_vars, NEW t \in Threads
               PROVE  Lookup(t)'
    BY DEF LookupInv
  <2>1. CASE Begin(t) \/ Step(t)
    BY <2>1, LookupStep DEF LookupInv
  <2>2. CASE UNCHANGED vars
    BY <2>2, LookupStable DEF LookupInv, vars
  <2>3. ASSUME NEW u \in Threads, u # t, Begin(u) \/ Step(u) PROVE Lookup(t)'
    <3>1. /\ pc'[t] = pc[t] /\ call'[t] = call[t] /\ level'[t] = level[t]
          /\ outcome'[t] = outcome[t] /\ visible'[t] = visible[t]
      BY <2>3 DEF TypeOK, Step, Begin, Visit, ReadValue, CacheMiss, Define, SetEntry,
                  Descend, Exhausted, Finish, Goto
    <3> QED
      BY <3>1, LookupStable DEF LookupInv
  <2> QED
    BY <2>1, <2>2, <2>3 DEF Next
<1> QED
  BY <1>1, <1>2, TypeCorrect, PTL DEF Spec

\* parentedLoader.LoadEntry, HasEntry and px.Load: what was visible when the call began is found.
THEOREM VisibleNamesAreFound == Spec => []VisibleIsFound
<1>1. LookupInv => VisibleIsFound
  BY DEF LookupInv, Lookup, VisibleIsFound
<1> QED
  BY <1>1, LookupCorrect, PTL

\* An answer of a lookup stays the binding of the loader it came from.
THEOREM AnswersStayValid == Spec => []AnswersStand
<1>1. LookupInv => AnswersStand
  BY DEF LookupInv, Lookup, AnswersStand
<1> QED
  BY <1>1, LookupCorrect, PTL

\* Look-before-define panics only when another thread bound the name in between.
THEOREM EnsureIsSafeUnlessRaced == Spec => []EnsureFailsOnlyIfRaced
<1>1. LookupInv => EnsureFailsOnlyIfRaced
  BY DEF LookupInv, Lookup, EnsureFailsOnlyIfRaced
<1> QED
  BY <1>1, LookupCorrect, PTL

\* parentedLoader.LoadEntry and px.Load: what was visible when a call began is found, an answer stays the
\* binding it was, and only a definition made in between stops one that looks before it defines.
THEOREM LookupsAlwaysAnswer == Spec => []LookupsAnswer
BY VisibleNamesAreFound, AnswersStayValid, EnsureIsSafeUnlessRaced, PTL DEF LookupsAnswer
=============================================================================
