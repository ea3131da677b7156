------------------------------ MODULE NameLocks ------------------------------
(***************************************************************************)
(* The protocol by which the go routines that share a fileBasedLoader      *)
(* agree on who instantiates a name (loader/filebased.go, instantiate).    *)
(*                                                                         *)
(* A lookup that finds no entry for a name that has a file takes the mutex *)
(* of the name from the map l.locks (or adds one), locks it, looks for the *)
(* entry again, puts a placeholder there and instantiates the file.  The   *)
(* instantiation looks up the names the file refers to, so that a thread   *)
(* holds the mutexes of several names while it waits for one more.  At the *)
(* end the mutex is unlocked, and then deleted from the map, where another *)
(* thread may already have found it.                                       *)
(*                                                                         *)
(* FileBasedLoader refines this specification; here a lookup is whatever   *)
(* an instantiation chooses to look up.                                    *)
(***************************************************************************)
EXTENDS Naturals, Sequences

CONSTANTS Threads,      \* go routines
          Names         \* the names that have a file

VARIABLES at,           \* at[t][n]: how far t has come with the instantiation of n
          ref,          \* ref[t][n]: the mutex t found in the map for n, 0 before that
          locks,        \* locks[n]: the mutex the map holds for n, 0 when it holds none
          made,         \* made[n]: the mutexes made for n so far; they are numbered from 1
          order         \* the names that have an entry, in the order the placeholders were set

vars == <<at, ref, locks, made, order>>

Steps == {"out", "missed", "wait", "check", "place", "work", "unlock", "unmap"}

\* The name has an entry. An entry is never removed.
Placed(n) == \E i \in DOMAIN order : order[i] = n

\* The steps at which a thread is between two lines of instantiate. At "work" it runs the
\* instantiator, which may look up other names.
Busy == Steps \ {"out", "work"}
Calm(t) == \A n \in Names : at[t][n] \notin Busy

\* A mutex is locked from Lock to Unlock.
Holding == {"check", "place", "work", "unlock"}
Holds(t, n) == at[t][n] \in Holding
Locked(n, m) == \E t \in Threads : Holds(t, n) /\ ref[t][n] = m

Init ==
  /\ at = [t \in Threads |-> [n \in Names |-> "out"]]
  /\ ref = [t \in Threads |-> [n \in Names |-> 0]]
  /\ locks = [n \in Names |-> 0]
  /\ made = [n \in Names |-> 0]
  /\ order = <<>>

Goto(t, n, step) == at' = [at EXCEPT ![t][n] = step]

\* Faulty variant: a placeholder does not stop a lookup.
MissAlways(t, n) ==
  /\ Calm(t) /\ at[t][n] = "out"
  /\ Goto(t, n, "missed")
  /\ UNCHANGED <<ref, locks, made, order>>

\* LoadEntry finds no entry; find has a file for the name and calls instantiate.
Miss(t, n) ==
  /\ at[t][n] = "out" /\ ~Placed(n) /\ Calm(t)
  /\ Goto(t, n, "missed")
  /\ UNCHANGED <<ref, locks, made, order>>

\* Under locksLock: take the mutex of the name, or make one.
FindLock(t, n) ==
  /\ at[t][n] = "missed"
  /\ Goto(t, n, "wait")
  /\ \/ /\ locks[n] # 0
        /\ ref' = [ref EXCEPT ![t][n] = locks[n]]
        /\ UNCHANGED <<locks, made>>
     \/ /\ locks[n] = 0
        /\ made' = [made EXCEPT ![n] = @ + 1]
        /\ locks' = [locks EXCEPT ![n] = made[n] + 1]
        /\ ref' = [ref EXCEPT ![t][n] = made[n] + 1]
  /\ UNCHANGED order

\* nameLock.Lock()
Lock(t, n) ==
  /\ at[t][n] = "wait"
  /\ ~Locked(n, ref[t][n])
  /\ Goto(t, n, "check")
  /\ UNCHANGED <<ref, locks, made, order>>

\* Faulty variant: no second look under the mutex.
CheckNothing(t, n) ==
  /\ at[t][n] = "check"
  /\ Goto(t, n, "place")
  /\ UNCHANGED <<ref, locks, made, order>>

\* if l.GetEntry(name) == nil
Check(t, n) ==
  /\ at[t][n] = "check"
  /\ Goto(t, n, IF Placed(n) THEN "unlock" ELSE "place")
  /\ UNCHANGED <<ref, locks, made, order>>

\* The entry without a value that stops every other lookup of the name.
Place(t, n) ==
  /\ at[t][n] = "place"
  /\ Goto(t, n, "work")
  /\ order' = Append(order, n)
  /\ UNCHANGED <<ref, locks, made>>

\* The instantiator returns or panics.
Done(t, n) ==
  /\ at[t][n] = "work" /\ Calm(t)
  /\ Goto(t, n, "unlock")
  /\ UNCHANGED <<ref, locks, made, order>>

Unlock(t, n) ==
  /\ at[t][n] = "unlock"
  /\ Goto(t, n, "unmap")
  /\ UNCHANGED <<ref, locks, made, order>>

\* Faulty variant: the mutex stays in the map.
UnmapNothing(t, n) ==
  /\ at[t][n] = "unmap"
  /\ Goto(t, n, "out")
  /\ ref' = [ref EXCEPT ![t][n] = 0]
  /\ UNCHANGED <<locks, made, order>>

\* Under locksLock again: whatever mutex the map holds for the name is deleted.
Unmap(t, n) ==
  /\ at[t][n] = "unmap"
  /\ Goto(t, n, "out")
  /\ ref' = [ref EXCEPT ![t][n] = 0]
  /\ locks' = [locks EXCEPT ![n] = 0]
  /\ UNCHANGED <<made, order>>

Step(t, n) == \/ FindLock(t, n) \/ Lock(t, n) \/ Check(t, n) \/ Place(t, n)
              \/ Done(t, n) \/ Unlock(t, n) \/ Unmap(t, n)

Next == \E t \in Threads, n \in Names : Miss(t, n) \/ Step(t, n)

Spec == Init /\ [][Next]_vars

\* A thread that runs is scheduled again, and an instantiator returns once its lookups do; only
\* the start of another lookup is nobody's duty. A name that has an entry is not looked for
\* again, so that a mutex is contended finitely often and weak fairness is enough.
FairSpec == Spec /\ \A t \in Threads, n \in Names : WF_vars(Step(t, n))

-----------------------------------------------------------------------------
(* Properties *)

TypeOK ==
  /\ at \in [Threads -> [Names -> Steps]]
  /\ ref \in [Threads -> [Names -> Nat]]
  /\ locks \in [Names -> Nat]
  /\ made \in [Names -> Nat]
  /\ order \in Seq(Names)

\* A file is read at most once, however many threads look its name up and though a thread may
\* wait for a mutex the map no longer holds while a newcomer makes another one.
InstantiatedOnce ==
  /\ \A i, j \in DOMAIN order : order[i] = order[j] => i = j
  /\ \A n \in Names, t, u \in Threads : at[t][n] = "work" /\ at[u][n] = "work" => t = u

\* Two mutexes of one name never let two threads decide that the name has no entry.
PlacingIsExclusive ==
  \A n \in Names, t, u \in Threads :
    at[t][n] = "place" /\ Holds(u, n) /\ ~Placed(n) => t = u

\* Nobody waits for everybody: whoever waits for a mutex that is held, some thread can go on.
Blocked(t) == \E n \in Names : at[t][n] = "wait" /\ Locked(n, ref[t][n])
Running(t) == \E n \in Names : at[t][n] # "out"
NoDeadlock == (\E t \in Threads : Running(t)) => \E t \in Threads : Running(t) /\ ~Blocked(t)

\* When no thread is instantiating a name, the map holds no mutex for it: l.locks does not grow.
LocksAreDropped ==
  \A n \in Names : (\A t \in Threads : at[t][n] = "out") => locks[n] = 0

\* What makes it work, line by line of instantiate. The numbers of mutexes are used once.
MutexesAreFresh ==
  \A n \in Names :
    /\ locks[n] <= made[n]
    /\ \A t \in Threads :
         at[t][n] \in {"wait", "unmap"} \cup Holding => ref[t][n] \in 1..made[n]

\* A locked mutex has one owner.
MutualExclusion ==
  \A n \in Names, t, u \in Threads :
    Holds(t, n) /\ Holds(u, n) /\ ref[t][n] = ref[u][n] => t = u

\* Until the placeholder of a name is set nobody has unlocked or deleted its mutex, so that all
\* threads found the same one; a thread about to set it still finds no entry.
BeforePlaceholder ==
  \A n \in Names, t \in Threads :
    /\ ~Placed(n) => /\ at[t][n] \notin {"work", "unlock", "unmap"}
                     /\ at[t][n] \in {"wait", "check", "place"} => ref[t][n] = locks[n]
    /\ at[t][n] = "place" => ~Placed(n)

\* A thread runs one instantiate at a time, the others it began are suspended in the instantiator.
OneAtATime ==
  \A t \in Threads, n, k \in Names : at[t][n] \in Busy /\ at[t][k] \in Busy => n = k

\* The names a thread is working on got their placeholder before the name it is after: this
\* orders all the threads that wait for each other.
WaitsForLaterNames ==
  \A t \in Threads, n, k \in Names :
    at[t][n] = "work" /\ at[t][k] \in {"missed", "wait", "check", "place"} =>
      \A i, j \in DOMAIN order : order[i] = n /\ order[j] = k => i < j

\* The mutex in the map belongs to an instantiation that will delete it.
MappedLocksAreUsed ==
  \A n \in Names : locks[n] # 0 => \E t \in Threads : at[t][n] \notin {"out", "missed"}

\* The inductive invariant.
LockProtocol ==
  /\ MutexesAreFresh
  /\ MutualExclusion
  /\ BeforePlaceholder
  /\ OneAtATime
  /\ WaitsForLaterNames
  /\ MappedLocksAreUsed
  /\ InstantiatedOnce

\* Every instantiation comes to its end.
LookupsEnd ==
  \A t \in Threads, n \in Names : at[t][n] # "out" ~> at[t][n] = "out"
=============================================================================
