-------------------------- MODULE DependencyLoader --------------------------
(***************************************************************************)
(* loader/dependency.go: the loader of an environment with modules.  It    *)
(* asks the loaders of the modules and keeps the entry they return: their  *)
(* own entry, not a copy, so that what is filled in there is seen here.    *)
(*                                                                         *)
(* A module loader is the one of FileBasedLoader, reduced to what others   *)
(* see of it: an entry without a value while the file is being read, and   *)
(* afterwards too when the type was defined elsewhere.  NameLocks shows    *)
(* that it is read once.                                                   *)
(*                                                                         *)
(* The defining loader of a context, that gets the type a file holds, is   *)
(* this loader in a root context, a loader of its own in a fork, and the   *)
(* module loader in a context that was given that loader.                  *)
(***************************************************************************)
EXTENDS Naturals, Sequences

CONSTANTS Threads,
          Defines,      \* Defines[t]: the defining loader of its context, "environment", "fork" or "module"
          Names,
          Modules,      \* a sequence of module loaders
          Home,         \* Home[n]: the module that has a file for n, or NoModule
          Prefix,       \* Prefix[n]: the module that the first segment of n names, or NoModule
          NoModule,
          MaxCalls      \* bound: MaxCalls[t] loads of each thread

ModuleSet == {Modules[i] : i \in DOMAIN Modules}

\* Entries that are not a module's
Absent == "absent"
Own == "own"
New == "new"            \* an entry without a value that this loader does not have
Fresh == "fresh"        \* a new entry with a value

\* A module has the names that it qualifies (find of filebased.go), and each load has a name.
ASSUME ModulesAssumption ==
  /\ Names # {}
  /\ Defines \in [Threads -> {"environment", "fork", "module"}]
  /\ Modules \in Seq(ModuleSet) /\ {NoModule, Absent, Own, New, Fresh} \cap ModuleSet = {}
  /\ Home \in [Names -> ModuleSet \cup {NoModule}]
  /\ Prefix \in [Names -> ModuleSet \cup {NoModule}]
  /\ \A n \in Names : Home[n] # NoModule => Prefix[n] \in {NoModule, Home[n]}
  /\ MaxCalls \in [Threads -> Nat]

VARIABLES modules,      \* modules[m][n]: "absent", "nil" or "value"
          place,        \* place[n]: whose entry this loader keeps: Absent, Own or a module's
          own,          \* own[n]: what its own entry holds, "nil" or "value"
          forks,        \* forks[t]: the names bound in the loader of t's context
          pc, name,     \* what a thread does, for which name
          asked,        \* the modules to ask; the first one is being asked
          entry,        \* the entry it has: that of a module, Own or New
          result,       \* how the last call ended
          calls,
          seen          \* ghost: the name had a value for this context when the call began

vars == <<modules, place, own, forks, pc, name, asked, entry, result, calls, seen>>
locals == <<name, asked, entry, result, calls, seen>>

\* What an entry for n holds.
Value(e, n) ==
  IF e = New THEN "nil" ELSE IF e = Fresh THEN "value"
  ELSE IF e = Own THEN own[n] ELSE modules[e][n]

\* What this loader's entry of n holds.
Held(n) == IF place[n] = Absent THEN "absent" ELSE Value(place[n], n)

Sees(t, n) ==
  \/ Defines[t] # "module" /\ Held(n) = "value"
  \/ n \in forks[t]
  \/ Defines[t] = "module" /\ Home[n] # NoModule /\ modules[Home[n]][n] = "value"

Init ==
  /\ modules = [m \in ModuleSet |-> [n \in Names |-> "absent"]]
  /\ place = [n \in Names |-> Absent]
  /\ own = [n \in Names |-> "nil"]
  /\ forks = [t \in Threads |-> {}]
  /\ pc = [t \in Threads |-> "idle"]
  /\ name = [t \in Threads |-> CHOOSE n \in Names : TRUE]
  /\ asked = [t \in Threads |-> <<>>]
  /\ entry = [t \in Threads |-> New]
  /\ result = [t \in Threads |-> "none"]
  /\ calls = [t \in Threads |-> 0]
  /\ seen = [t \in Threads |-> FALSE]

Goto(t, step) == pc' = [pc EXCEPT ![t] = step]
End(t, r) == Goto(t, "idle") /\ result' = [result EXCEPT ![t] = r]

-----------------------------------------------------------------------------
\* px.Load on the loader of the context.
Load(t) ==
  /\ pc[t] = "idle" /\ calls[t] < MaxCalls[t]
  /\ \E n \in Names :
       /\ Defines[t] = "module" => Home[n] # NoModule
       /\ name' = [name EXCEPT ![t] = n]
       /\ seen' = [seen EXCEPT ![t] = Sees(t, n)]
       /\ asked' = [asked EXCEPT ![t] = IF Defines[t] = "module" THEN <<Home[n]>> ELSE <<>>]
  /\ Goto(t, IF Defines[t] = "module" THEN "ask" ELSE "get")
  /\ calls' = [calls EXCEPT ![t] = @ + 1]
  /\ UNCHANGED <<modules, place, own, forks, entry, result>>

\* basicLoader.LoadEntry; then find: the module the name is qualified with, or all of them.
Get(t) ==
  LET n == name[t] IN
  /\ pc[t] = "get"
  /\ \/ /\ place[n] # Absent
        /\ entry' = [entry EXCEPT ![t] = place[n]]
        /\ Goto(t, "value")
        /\ UNCHANGED asked
     \/ /\ place[n] = Absent
        /\ UNCHANGED entry
        /\ asked' = [asked EXCEPT ![t] = IF Prefix[n] # NoModule THEN <<Prefix[n]>> ELSE Modules]
        /\ Goto(t, IF asked'[t] = <<>> THEN "recheck" ELSE "ask")
  /\ UNCHANGED <<modules, place, own, forks, name, result, calls, seen>>

\* LoadEntry of a module loader, up to where it sets a placeholder.
Ask(t) ==
  LET m == Head(asked[t]) n == name[t] IN
  /\ pc[t] = "ask"
  /\ \/ modules[m][n] # "absent" /\ Goto(t, "answer") /\ UNCHANGED modules
     \/ /\ modules[m][n] = "absent"
        /\ modules' = [modules EXCEPT ![m][n] = "nil"]
        /\ Goto(t, IF Home[n] = m THEN "define" ELSE "answer")
  /\ UNCHANGED <<place, own, forks, locals>>

\* SetEntry of this loader: the new entry is kept, or its contents are copied to the entry that is there.
Keep(n, e) ==
  IF place[n] = Absent
  THEN /\ place' = [place EXCEPT ![n] = IF e \in {New, Fresh} THEN Own ELSE e]
       /\ own' = IF e \in {New, Fresh} THEN [own EXCEPT ![n] = Value(e, n)] ELSE own
       /\ UNCHANGED modules
  ELSE /\ UNCHANGED place
       /\ IF place[n] = Own
          THEN own' = [own EXCEPT ![n] = Value(e, n)] /\ UNCHANGED modules
          ELSE modules' = [modules EXCEPT ![place[n]][n] = Value(e, n)] /\ UNCHANGED own

Refuses(n, e) == Held(n) = "value" /\ Value(e, n) # "value"

\* Faulty variants: the old entry is not looked at; it is kept though it has no value.
SetEntryOver(t, n, e, next) ==
  Keep(n, e) /\ Goto(t, next) /\ UNCHANGED result

SetEntryOnce(t, n, e, next) ==
  /\ IF place[n] = Absent THEN Keep(n, e) ELSE UNCHANGED <<modules, place, own>>
  /\ Goto(t, next) /\ UNCHANGED result

SetEntry(t, n, e, next) ==
  \/ /\ Refuses(n, e)
     /\ End(t, "panic")
     /\ UNCHANGED <<modules, place, own>>
  \/ /\ ~Refuses(n, e) /\ Held(n) # "value"
     /\ Keep(n, e)
     /\ Goto(t, next) /\ UNCHANGED result
  \/ /\ ~Refuses(n, e) /\ Held(n) = "value"
     /\ Goto(t, next)
     /\ UNCHANGED <<modules, place, own, result>>

\* The instantiator: px.AddTypes.
Define(t) ==
  LET m == Head(asked[t]) n == name[t] IN
  /\ pc[t] = "define"
  /\ \/ /\ Defines[t] = "environment"
        /\ SetEntry(t, n, Fresh, "answer")
        /\ UNCHANGED forks
     \/ /\ Defines[t] = "fork"
        /\ forks' = [forks EXCEPT ![t] = @ \cup {n}]
        /\ Goto(t, "answer")
        /\ UNCHANGED <<modules, place, own, result>>
     \/ /\ Defines[t] = "module"
        /\ modules' = [modules EXCEPT ![m][n] = "value"]
        /\ Goto(t, "answer")
        /\ UNCHANGED <<place, own, forks, result>>
  /\ UNCHANGED <<name, asked, entry, calls, seen>>

\* The module's entry: returned as it is when the name is qualified, else only with a value.
Answer(t) ==
  LET m == Head(asked[t]) n == name[t] IN
  /\ pc[t] = "answer"
  /\ \/ /\ Defines[t] = "module"
        /\ End(t, IF modules[m][n] = "value" THEN "found" ELSE "missing")
        /\ UNCHANGED <<asked, entry>>
     \/ /\ Defines[t] # "module" /\ (Prefix[n] # NoModule \/ modules[m][n] = "value")
        /\ entry' = [entry EXCEPT ![t] = m]
        /\ Goto(t, "set")
        /\ UNCHANGED <<asked, result>>
     \/ /\ Defines[t] # "module" /\ Prefix[n] = NoModule /\ modules[m][n] # "value"
        /\ asked' = [asked EXCEPT ![t] = Tail(@)]
        /\ Goto(t, IF Len(asked[t]) > 1 THEN "ask" ELSE "recheck")
        /\ UNCHANGED <<entry, result>>
  /\ UNCHANGED <<modules, place, own, forks, name, calls, seen>>

\* "Recursion or parallel go routines might have set the entry now." It is set again, to itself.
Recheck(t) ==
  /\ pc[t] = "recheck"
  /\ entry' = [entry EXCEPT ![t] = IF place[name[t]] = Absent THEN New ELSE place[name[t]]]
  /\ Goto(t, IF place[name[t]] = Absent THEN "set" ELSE "value")
  /\ UNCHANGED <<modules, place, own, forks, name, asked, result, calls, seen>>

\* The entry is returned that was passed to SetEntry, which may not be the one that is kept.
Set(t) ==
  LET n == name[t] IN
  /\ pc[t] = "set"
  /\ SetEntry(t, n, entry[t], "value")
  /\ entry' = [entry EXCEPT ![t] = IF @ = New /\ place[n] = Absent THEN Own ELSE @]
  /\ UNCHANGED <<forks, name, asked, calls, seen>>

\* Faulty variant: a fork looks no further.
ReadValueOnly(t) ==
  /\ pc[t] = "value"
  /\ End(t, IF Value(entry[t], name[t]) = "value" THEN "found" ELSE "missing")
  /\ UNCHANGED <<modules, place, own, forks, name, asked, entry, calls, seen>>

\* The value of the entry; a fork looks further in its own loader.
ReadValue(t) ==
  /\ pc[t] = "value"
  /\ End(t, IF Value(entry[t], name[t]) = "value" \/ name[t] \in forks[t]
            THEN "found" ELSE "missing")
  /\ UNCHANGED <<modules, place, own, forks, name, asked, entry, calls, seen>>

Step(t) == Get(t) \/ Ask(t) \/ Define(t) \/ Answer(t) \/ Recheck(t) \/ Set(t) \/ ReadValue(t)

Finished == (\A t \in Threads : pc[t] = "idle" /\ calls[t] = MaxCalls[t]) /\ UNCHANGED vars

Next == (\E t \in Threads : Load(t) \/ Step(t)) \/ Finished

Spec == Init /\ [][Next]_vars

-----------------------------------------------------------------------------
(* Properties *)

Entries == {"absent", "nil", "value"}

TypeOK ==
  /\ modules \in [ModuleSet -> [Names -> Entries]]
  /\ place \in [Names -> {Absent, Own} \cup ModuleSet]
  /\ own \in [Names -> {"nil", "value"}]
  /\ forks \in [Threads -> SUBSET Names]
  /\ pc \in [Threads -> {"idle", "get", "ask", "define", "answer", "recheck", "set", "value"}]
  /\ name \in [Threads -> Names]
  /\ asked \in [Threads -> Seq(ModuleSet)]
  /\ entry \in [Threads -> {Own, New} \cup ModuleSet]
  /\ result \in [Threads -> {"none", "found", "missing", "panic"}]
  /\ calls \in [Threads -> Nat] /\ \A t \in Threads : calls[t] <= MaxCalls[t]
  /\ seen \in [Threads -> BOOLEAN]

\* The environment binds a name once, though its entries are shared with the modules and are
\* filled in from either side.
Registry == INSTANCE LoaderRegistry WITH
  Loaders <- {Own}, Values <- {"value"}, Unbound <- Absent,
  binding <- [l \in {Own} |-> [n \in Names |->
                IF Held(n) = "value" THEN "value" ELSE Absent]]

WriteOnce == Registry!Spec

AllIdle == \A t \in Threads : pc[t] = "idle"

\* A name that the context could see when the load began is found.
VisibleIsFound ==
  \A t \in Threads : pc[t] = "idle" /\ seen[t] => result[t] = "found"

\* dependency.go:60: nil "might be a lie". As long as only root contexts load, the lies are repaired
\* when all loads have ended: a name with a file that was looked for has its value here.
OnlyRoots == \A t \in Threads : Defines[t] = "environment" \/ calls[t] = 0
NoLastingLie ==
  AllIdle /\ OnlyRoots =>
    \A n \in Names : Home[n] # NoModule /\ place[n] # Absent => Held(n) = "value"
=============================================================================
