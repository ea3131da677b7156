--------------------------- MODULE NameLocksProofs ---------------------------
(***************************************************************************)
(* Proofs about NameLocks, for every set of threads and names.             *)
(***************************************************************************)
EXTENDS NameLocks, WellFoundedInduction, TLAPS

\* Every reachable state is of the declared types.
THEOREM TypeCorrect == Spec => []TypeOK
<1>1. Init => TypeOK
  BY DEF Init, TypeOK, Steps
<1>2. TypeOK /\ [Next]_vars => TypeOK'
  <2> SUFFICES ASSUME TypeOK, [Next]_vars PROVE TypeOK'
    OBVIOUS
  <2>1. CASE UNCHANGED vars
    BY <2>1 DEF TypeOK, vars
  <2>2. ASSUME NEW t \in Threads, NEW n \in Names, Miss(t, n) \/ Step(t, n)
        PROVE  TypeOK'
    <3>0. ASSUME NEW s \in Steps, Goto(t, n, s) PROVE at' \in [Threads -> [Names -> Steps]]
      BY <3>0 DEF TypeOK, Goto
    <3>1. at' \in [Threads -> [Names -> Steps]]
      <4>1. \/ Goto(t, n, "missed") \/ Goto(t, n, "wait") \/ Goto(t, n, "check")
            \/ Goto(t, n, "place") \/ Goto(t, n, "work") \/ Goto(t, n, "unlock")
            \/ Goto(t, n, "unmap") \/ Goto(t, n, "out")
        BY <2>2 DEF Miss, Step, FindLock, Lock, Check, Place, Done, Unlock, Unmap
      <4> QED
        BY <4>1, <3>0 DEF Steps
    <3>2. CASE FindLock(t, n)
      <4>1. /\ ref \in [Threads -> [Names -> Nat]] /\ locks \in [Names -> Nat]
            /\ made \in [Names -> Nat] /\ order \in Seq(Names)
        BY DEF TypeOK
      <4>2. ASSUME NEW m \in Nat, ref' = [ref EXCEPT ![t][n] = m]
            PROVE  ref' \in [Threads -> [Names -> Nat]]
        BY <4>1, <4>2
      <4>3. order' = order
        BY <3>2 DEF FindLock
      <4>4. CASE locks[n] # 0
        <5>1. ref' = [ref EXCEPT ![t][n] = locks[n]] /\ locks' = locks /\ made' = made
          BY <3>2, <4>4 DEF FindLock
        <5> QED
          BY <3>1, <4>1, <4>2, <4>3, <5>1 DEF TypeOK
      <4>5. CASE locks[n] = 0
        <5>1. /\ ref' = [ref EXCEPT ![t][n] = made[n] + 1]
              /\ locks' = [locks EXCEPT ![n] = made[n] + 1]
              /\ made' = [made EXCEPT ![n] = made[n] + 1]
          BY <3>2, <4>5 DEF FindLock
        <5>2. made[n] + 1 \in Nat
          BY <4>1
        <5>3. locks' \in [Names -> Nat] /\ made' \in [Names -> Nat]
          BY <4>1, <5>1, <5>2
        <5>4. ref' \in [Threads -> [Names -> Nat]]
          BY <4>2, <5>1, <5>2
        <5> QED
          BY <3>1, <4>1, <4>3, <5>3, <5>4 DEF TypeOK
      <4> QED
        BY <4>4, <4>5
    <3>3. CASE Place(t, n)
      BY <3>1, <3>3 DEF TypeOK, Place
    <3>4. CASE Unmap(t, n)
      BY <3>1, <3>4 DEF TypeOK, Unmap
    <3> QED
      BY <2>2, <3>1, <3>2, <3>3, <3>4 DEF TypeOK, Miss, Step, Lock, Check, Done, Unlock
  <2> QED
    BY <2>1, <2>2 DEF Next
<1> QED
  BY <1>1, <1>2, PTL DEF Spec

-----------------------------------------------------------------------------
(* How a step changes the variables. *)

\* The thread that takes a step changes its own record of the name only.
LEMMA StepEffect ==
  ASSUME TypeOK, NEW t \in Threads, NEW n \in Names, Miss(t, n) \/ Step(t, n)
  PROVE  \A u \in Threads, k \in Names :
           u # t \/ k # n => at'[u][k] = at[u][k] /\ ref'[u][k] = ref[u][k]
  BY DEF TypeOK, Goto, Miss, Step, FindLock, Lock, Check, Place, Done, Unlock, Unmap

\* How far a step brings the thread.
LEMMA Transition ==
  ASSUME TypeOK, NEW t \in Threads, NEW n \in Names, Miss(t, n) \/ Step(t, n)
  PROVE  \/ Miss(t, n) /\ at[t][n] = "out" /\ at'[t][n] = "missed"
         \/ FindLock(t, n) /\ at[t][n] = "missed" /\ at'[t][n] = "wait"
         \/ Lock(t, n) /\ at[t][n] = "wait" /\ at'[t][n] = "check"
         \/ Check(t, n) /\ at[t][n] = "check" /\ at'[t][n] \in {"unlock", "place"}
         \/ Place(t, n) /\ at[t][n] = "place" /\ at'[t][n] = "work"
         \/ Done(t, n) /\ at[t][n] = "work" /\ at'[t][n] = "unlock"
         \/ Unlock(t, n) /\ at[t][n] = "unlock" /\ at'[t][n] = "unmap"
         \/ Unmap(t, n) /\ at[t][n] = "unmap" /\ at'[t][n] = "out"
<1>1. ASSUME NEW s, Goto(t, n, s) PROVE at'[t][n] = s
  BY <1>1 DEF Goto, TypeOK
<1>2. CASE Check(t, n)
  <2>1. at[t][n] = "check" /\ (Goto(t, n, "unlock") \/ Goto(t, n, "place"))
    BY <1>2 DEF Check
  <2> QED
    BY <1>1, <1>2, <2>1
<1> QED
  BY <1>1, <1>2 DEF Miss, Step, FindLock, Lock, Place, Done, Unlock, Unmap

\* A placeholder is added by Place alone, at the end of the order.
LEMMA PlacedEffect ==
  ASSUME TypeOK, NEW t \in Threads, NEW n \in Names, Miss(t, n) \/ Step(t, n)
  PROVE  \/ /\ UNCHANGED order
            /\ \A k \in Names : Placed(k)' <=> Placed(k)
         \/ /\ Place(t, n)
            /\ Len(order') = Len(order) + 1 /\ order' \in Seq(Names)
            /\ order'[Len(order) + 1] = n
            /\ \A i \in DOMAIN order : order'[i] = order[i]
            /\ \A k \in Names : Placed(k)' <=> Placed(k) \/ k = n
<1>1. CASE Place(t, n)
  <2>1. order \in Seq(Names) /\ order' = Append(order, n)
    BY <1>1 DEF Place, TypeOK
  <2>2. /\ Len(order') = Len(order) + 1 /\ order' \in Seq(Names)
        /\ order'[Len(order) + 1] = n
        /\ \A i \in DOMAIN order : order'[i] = order[i]
        /\ DOMAIN order = 1..Len(order) /\ DOMAIN order' = 1..Len(order) + 1
    BY <2>1
  <2>3. \A k \in Names : Placed(k)' <=> Placed(k) \/ k = n
    BY <2>2 DEF Placed
  <2> QED
    BY <1>1, <2>2, <2>3
<1>2. CASE ~Place(t, n)
  <2>1. UNCHANGED order
    BY <1>2 DEF Miss, Step, FindLock, Lock, Check, Done, Unlock, Unmap
  <2> QED
    BY <2>1 DEF Placed
<1> QED
  BY <1>1, <1>2

-----------------------------------------------------------------------------
(* The conjuncts of LockProtocol are preserved by a step of thread t on name n. *)

\* Mutexes are numbered upwards, so that a new one is nobody's.
LEMMA FreshStep ==
  ASSUME TypeOK, LockProtocol, NEW t \in Threads, NEW n \in Names, Miss(t, n) \/ Step(t, n)
  PROVE  MutexesAreFresh'
<1> SUFFICES ASSUME NEW k \in Names
             PROVE  /\ locks'[k] <= made'[k]
                    /\ \A u \in Threads :
                         at'[u][k] \in {"wait", "unmap"} \cup Holding => ref'[u][k] \in 1..made'[k]
  BY DEF MutexesAreFresh, Holding
<1>1. CASE FindLock(t, n)
  <2>1. made[k] \in Nat /\ locks[k] \in Nat /\ made[n] \in Nat
    BY DEF TypeOK
  <2> QED
    BY <1>1, <2>1, StepEffect DEF FindLock, Goto, TypeOK, LockProtocol, MutexesAreFresh, Holding
<1>2. CASE Unmap(t, n)
  BY <1>2 DEF Unmap, Goto, TypeOK, LockProtocol, MutexesAreFresh, Holding
<1>3. CASE Miss(t, n)
  BY <1>3 DEF Miss, Goto, TypeOK, LockProtocol, MutexesAreFresh, Holding
<1>4. CASE Lock(t, n) \/ Check(t, n) \/ Place(t, n) \/ Done(t, n) \/ Unlock(t, n)
  BY <1>4 DEF Lock, Check, Place, Done, Unlock, Goto, TypeOK, LockProtocol, MutexesAreFresh, Holding
<1> QED
  BY <1>1, <1>2, <1>3, <1>4 DEF Step

\* Lock takes a mutex that nobody holds.
LEMMA ExclusionStep ==
  ASSUME TypeOK, LockProtocol, NEW t \in Threads, NEW n \in Names, Miss(t, n) \/ Step(t, n)
  PROVE  MutualExclusion'
<1> SUFFICES ASSUME NEW k \in Names, NEW u \in Threads, NEW w \in Threads,
                    Holds(u, k)', Holds(w, k)', ref'[u][k] = ref'[w][k], u # w
             PROVE  FALSE
  BY DEF MutualExclusion
<1>1. ASSUME NEW x \in Threads, Holds(x, k)' PROVE Holds(x, k) \/ (Lock(t, n) /\ x = t /\ k = n)
  BY <1>1, StepEffect, Transition DEF Holds, Holding
<1>2. ASSUME NEW x \in Threads, Holds(x, k)' PROVE ref'[x][k] = ref[x][k]
  BY <1>2, StepEffect DEF Holds, Holding, TypeOK, Goto, Miss, Step, FindLock, Lock, Check, Place,
                          Done, Unlock, Unmap
<1>3. CASE Lock(t, n)
  BY <1>1, <1>2, <1>3 DEF LockProtocol, MutualExclusion, Lock, Locked
<1>4. CASE ~Lock(t, n)
  BY <1>1, <1>2, <1>4 DEF LockProtocol, MutualExclusion
<1> QED
  BY <1>3, <1>4

\* As long as a name has no placeholder its mutex stays in the map.
LEMMA PlaceholderStep ==
  ASSUME TypeOK, LockProtocol, NEW t \in Threads, NEW n \in Names, Miss(t, n) \/ Step(t, n)
  PROVE  BeforePlaceholder'
<1> SUFFICES ASSUME NEW k \in Names, NEW u \in Threads
             PROVE  /\ ~Placed(k)' => /\ at'[u][k] \notin {"work", "unlock", "unmap"}
                                      /\ at'[u][k] \in {"wait", "check", "place"} => ref'[u][k] = locks'[k]
                    /\ at'[u][k] = "place" => ~Placed(k)'
  BY DEF BeforePlaceholder
<1> USE DEF LockProtocol, BeforePlaceholder
<1>1. Placed(k)' \/ (Placed(k)' <=> Placed(k))
  BY PlacedEffect
<1>2. CASE FindLock(t, n)
  <2>1. Placed(k)' <=> Placed(k)
    BY <1>2, PlacedEffect DEF FindLock, Place
  <2>2. CASE locks[n] # 0
    BY <1>2, <2>1, <2>2 DEF FindLock, Goto, TypeOK
  <2>3. CASE locks[n] = 0
    <3>1. CASE u = t /\ k = n
      BY <1>2, <2>1, <2>3, <3>1 DEF FindLock, Goto, TypeOK
    <3>2. CASE ~(u = t /\ k = n)
      <4>1. at'[u][k] = at[u][k] /\ ref'[u][k] = ref[u][k]
        BY <1>2, <3>2, StepEffect DEF Step
      <4>2. ASSUME ~Placed(k), at[u][k] \in {"wait", "check", "place"} PROVE k # n
        <5>1. ref[u][k] = locks[k] /\ ref[u][k] \in 1..made[k] /\ made[k] \in Nat
          BY <4>2 DEF MutexesAreFresh, Holding, TypeOK
        <5> QED
          BY <5>1, <2>3
      <4>3. k # n => locks'[k] = locks[k]
        BY <1>2, <2>3 DEF FindLock, TypeOK
      <4> QED
        BY <2>1, <4>1, <4>2, <4>3
    <3> QED
      BY <3>1, <3>2
  <2> QED
    BY <2>2, <2>3
<1>3. CASE Place(t, n)
  <2>1. Placed(k)' <=> Placed(k) \/ k = n
    BY <1>3, PlacedEffect DEF Place
  <2>2. ASSUME at'[u][k] = "place", k = n PROVE FALSE
    <3>1. u # t /\ at[u][n] = "place"
      BY <1>3, <2>2, StepEffect DEF Place, Goto, TypeOK, Step
    <3>2. ref[u][n] = locks[n] /\ ref[t][n] = locks[n]
      BY <1>3, <3>1 DEF Place
    <3> QED
      BY <1>3, <3>1, <3>2 DEF MutualExclusion, Holds, Holding, Place
  <2>3. CASE k = n
    BY <2>1, <2>2, <2>3
  <2>4. CASE k # n
    BY <1>3, <2>1, <2>4, StepEffect DEF Place, Step
  <2> QED
    BY <2>3, <2>4
<1>4. CASE Unmap(t, n)
  <2>1. Placed(k)' <=> Placed(k)
    BY <1>4, PlacedEffect DEF Unmap, Place
  <2>2. Placed(n)
    BY <1>4 DEF Unmap
  <2>3. CASE k = n
    BY <1>4, <2>1, <2>2, <2>3 DEF Unmap, Goto, TypeOK
  <2>4. CASE k # n
    BY <1>4, <2>1, <2>4 DEF Unmap, Goto, TypeOK
  <2> QED
    BY <2>3, <2>4
<1>5. CASE Miss(t, n) \/ Lock(t, n) \/ Check(t, n) \/ Done(t, n) \/ Unlock(t, n)
  <2>1. Placed(k)' <=> Placed(k)
    BY <1>5, PlacedEffect DEF Miss, Lock, Check, Done, Unlock, Place
  <2>2. locks' = locks
    BY <1>5 DEF Miss, Lock, Check, Done, Unlock
  <2>3. CASE u = t /\ k = n
    BY <1>5, <2>1, <2>2, <2>3 DEF Miss, Lock, Check, Done, Unlock, Goto, TypeOK
  <2>4. CASE ~(u = t /\ k = n)
    BY <1>5, <2>1, <2>2, <2>4, StepEffect DEF Step
  <2> QED
    BY <2>3, <2>4
<1> QED
  BY <1>2, <1>3, <1>4, <1>5 DEF Step

\* A lookup begins when the thread is between two lines of no instantiate.
LEMMA OneStep ==
  ASSUME TypeOK, LockProtocol, NEW t \in Threads, NEW n \in Names, Miss(t, n) \/ Step(t, n)
  PROVE  OneAtATime'
<1> SUFFICES ASSUME NEW u \in Threads, NEW j \in Names, NEW k \in Names,
                    at'[u][j] \in Busy, at'[u][k] \in Busy
             PROVE  j = k
  BY DEF OneAtATime, Busy, Steps
<1>1. CASE u # t
  BY <1>1, StepEffect DEF LockProtocol, OneAtATime
<1>2. CASE u = t
  <2>1. CASE Miss(t, n) \/ Done(t, n)
    BY <1>2, <2>1, StepEffect DEF Miss, Done, Calm, Step
  <2>2. CASE ~Miss(t, n) /\ ~Done(t, n)
    <3>1. at[t][n] \in Busy
      BY <2>2 DEF Busy, Steps, Step, FindLock, Lock, Check, Place, Unlock, Unmap
    <3>2. ASSUME NEW i \in Names, at'[t][i] \in Busy PROVE i = n
      BY <3>1, <3>2, StepEffect DEF LockProtocol, OneAtATime
    <3> QED
      BY <1>2, <3>2
  <2> QED
    BY <2>1, <2>2
<1> QED
  BY <1>1, <1>2

\* A name without a placeholder gets it later than all those that have one.
LEMMA OrderStep ==
  ASSUME TypeOK, LockProtocol, NEW t \in Threads, NEW n \in Names, Miss(t, n) \/ Step(t, n)
  PROVE  WaitsForLaterNames' /\ InstantiatedOnce'
<1> DEFINE Before == {"missed", "wait", "check", "place"}
<1>1. order \in Seq(Names) /\ Len(order) \in Nat /\ DOMAIN order = 1..Len(order)
  BY DEF TypeOK
<1>2. WaitsForLaterNames'
  <2> SUFFICES ASSUME NEW u \in Threads, NEW m \in Names, NEW k \in Names,
                      at'[u][m] = "work", at'[u][k] \in Before,
                      NEW i \in DOMAIN order', NEW j \in DOMAIN order',
                      order'[i] = m, order'[j] = k
               PROVE  i < j
    BY DEF WaitsForLaterNames
  <2>1. CASE Place(t, n)
    <3>1. /\ order' \in Seq(Names) /\ Len(order') = Len(order) + 1
          /\ order'[Len(order) + 1] = n /\ \A h \in DOMAIN order : order'[h] = order[h]
          /\ DOMAIN order' = 1..Len(order) + 1
      BY <2>1, <1>1 DEF Place
    <3>2. ~Placed(n) /\ at[t][n] = "place" /\ at'[t][n] = "work"
      BY <2>1 DEF Place, Goto, TypeOK, LockProtocol, BeforePlaceholder
    <3>3. at[u][k] \in Before
      BY <2>1, <3>2, StepEffect DEF Step
    <3>4. CASE u = t /\ m = n
      BY <3>2, <3>3, <3>4, <2>1 DEF LockProtocol, OneAtATime, Busy, Steps
    <3>5. CASE ~(u = t /\ m = n)
      <4>1. at[u][m] = "work"
        BY <2>1, <3>5, StepEffect DEF Step
      <4>2. m # n
        BY <4>1, <3>2 DEF LockProtocol, BeforePlaceholder
      <4>3. i \in DOMAIN order /\ order[i] = m
        BY <3>1, <1>1, <4>2
      <4>4. CASE j \in DOMAIN order
        BY <4>1, <4>3, <4>4, <3>1, <3>3 DEF LockProtocol, WaitsForLaterNames
      <4>5. CASE j \notin DOMAIN order
        BY <4>3, <4>5, <3>1, <1>1
      <4> QED
        BY <4>4, <4>5
    <3> QED
      BY <3>4, <3>5
  <2>2. CASE Miss(t, n)
    <3>1. order' = order
      BY <2>2 DEF Miss
    <3>2. CASE u = t /\ k = n
      BY <2>2, <3>1, <3>2 DEF Miss, Placed
    <3>3. CASE ~(u = t /\ k = n)
      <4>1. at[u][k] = at'[u][k] /\ at[u][m] = "work"
        BY <2>2, <3>3, StepEffect DEF Miss, Goto, TypeOK
      <4> QED
        BY <3>1, <4>1 DEF LockProtocol, WaitsForLaterNames
    <3> QED
      BY <3>2, <3>3
  <2>3. CASE ~Place(t, n) /\ ~Miss(t, n)
    <3>1. order' = order
      BY <2>3 DEF Step, FindLock, Lock, Check, Done, Unlock, Unmap
    <3>2. at[u][m] = "work" /\ at[u][k] \in Before
      <4>1. /\ at'[t][n] = "work" => at[t][n] = "work"
            /\ at'[t][n] \in Before => at[t][n] \in Before
        BY <2>3, Transition
      <4> QED
        BY <4>1, StepEffect
    <3> QED
      BY <3>1, <3>2 DEF LockProtocol, WaitsForLaterNames
  <2> QED
    BY <2>1, <2>2, <2>3
<1>3. InstantiatedOnce'
  <2>1. CASE Place(t, n)
    <3>1. /\ order' \in Seq(Names) /\ Len(order') = Len(order) + 1
          /\ order'[Len(order) + 1] = n /\ \A h \in DOMAIN order : order'[h] = order[h]
          /\ DOMAIN order' = 1..Len(order) + 1
      BY <2>1, <1>1 DEF Place
    <3>2. ~Placed(n)
      BY <2>1 DEF Place, LockProtocol, BeforePlaceholder
    <3>3. ASSUME NEW i \in DOMAIN order', NEW j \in DOMAIN order', order'[i] = order'[j]
          PROVE  i = j
      <4>1. CASE i \in DOMAIN order /\ j \in DOMAIN order
        BY <3>1, <3>3, <4>1 DEF LockProtocol, InstantiatedOnce
      <4>2. CASE i \notin DOMAIN order \/ j \notin DOMAIN order
        BY <1>1, <3>1, <3>2, <3>3, <4>2 DEF Placed
      <4> QED
        BY <4>1, <4>2
    <3>4. ASSUME NEW k \in Names, NEW u \in Threads, NEW w \in Threads,
                 at'[u][k] = "work", at'[w][k] = "work"
          PROVE  u = w
      <4>1. CASE k = n
        <5>1. \A x \in Threads : at[x][n] # "work"
          BY <3>2 DEF LockProtocol, BeforePlaceholder
        <5> QED
          BY <2>1, <3>4, <4>1, <5>1, StepEffect DEF Step
      <4>2. CASE k # n
        BY <2>1, <3>4, <4>2, StepEffect DEF Step, LockProtocol, InstantiatedOnce
      <4> QED
        BY <4>1, <4>2
    <3> QED
      BY <3>3, <3>4 DEF InstantiatedOnce
  <2>2. CASE ~Place(t, n)
    <3>1. order' = order
      BY <2>2 DEF Miss, Step, FindLock, Lock, Check, Done, Unlock, Unmap
    <3>2. \A u \in Threads, k \in Names : at'[u][k] = "work" => at[u][k] = "work"
      <4>1. at'[t][n] # "work"
        BY <2>2, Transition
      <4> QED
        BY <4>1, StepEffect
    <3> QED
      BY <3>1, <3>2 DEF LockProtocol, InstantiatedOnce
  <2> QED
    BY <2>1, <2>2
<1> QED
  BY <1>2, <1>3

\* A mutex enters the map with the thread that will delete it.
LEMMA MapStep ==
  ASSUME TypeOK, LockProtocol, NEW t \in Threads, NEW n \in Names, Miss(t, n) \/ Step(t, n)
  PROVE  MappedLocksAreUsed'
<1> SUFFICES ASSUME NEW k \in Names, locks'[k] # 0
             PROVE  \E u \in Threads : at'[u][k] \notin {"out", "missed"}
  BY DEF MappedLocksAreUsed
<1>1. CASE k = n
  <2>1. CASE FindLock(t, n)
    BY <1>1, <2>1 DEF FindLock, Goto, TypeOK
  <2>2. CASE Unmap(t, n)
    BY <1>1, <2>2 DEF Unmap, TypeOK
  <2>3. CASE ~FindLock(t, n) /\ ~Unmap(t, n)
    <3>1. locks' = locks
      BY <2>3 DEF Miss, Step, Lock, Check, Place, Done, Unlock
    <3>2. PICK u \in Threads : at[u][n] \notin {"out", "missed"}
      BY <1>1, <3>1 DEF LockProtocol, MappedLocksAreUsed
    <3>3. at'[u][n] \notin {"out", "missed"}
      BY <2>3, <3>2, StepEffect, Transition
    <3> QED
      BY <1>1, <3>3
  <2> QED
    BY <2>1, <2>2, <2>3
<1>2. CASE k # n
  <2>1. locks'[k] = locks[k]
    BY <1>2 DEF Miss, Step, FindLock, Lock, Check, Place, Done, Unlock, Unmap, TypeOK
  <2> QED
    BY <1>2, <2>1, StepEffect DEF LockProtocol, MappedLocksAreUsed
<1> QED
  BY <1>1, <1>2

-----------------------------------------------------------------------------
\* The lock protocol of instantiate holds in every reachable state.
THEOREM ProtocolCorrect == Spec => []LockProtocol
<1>1. Init => LockProtocol
  BY DEF Init, LockProtocol, MutexesAreFresh, MutualExclusion, BeforePlaceholder, OneAtATime,
         WaitsForLaterNames, MappedLocksAreUsed, InstantiatedOnce, Placed, Holds, Holding, Busy, Steps
<1>2. TypeOK /\ LockProtocol /\ [Next]_vars => LockProtocol'
  <2> SUFFICES ASSUME TypeOK, LockProtocol, [Next]_vars PROVE LockProtocol'
    OBVIOUS
  <2>1. CASE UNCHANGED vars
    BY <2>1 DEF vars, LockProtocol, MutexesAreFresh, MutualExclusion, BeforePlaceholder, OneAtATime,
         WaitsForLaterNames, MappedLocksAreUsed, InstantiatedOnce, Placed, Holds
  <2>2. ASSUME NEW t \in Threads, NEW n \in Names, Miss(t, n) \/ Step(t, n) PROVE LockProtocol'
    BY <2>2, FreshStep, ExclusionStep, PlaceholderStep, OneStep, OrderStep, MapStep DEF LockProtocol
  <2> QED
    BY <2>1, <2>2 DEF Next
<1> QED
  BY <1>1, <1>2, TypeCorrect, PTL DEF Spec

\* A file is instantiated at most once, by one thread.
THEOREM AtMostOnce == Spec => []InstantiatedOnce
<1>1. LockProtocol => InstantiatedOnce
  BY DEF LockProtocol
<1> QED
  BY <1>1, ProtocolCorrect, PTL

\* Two mutexes of one name do not let two threads place it.
THEOREM ExclusivePlacing == Spec => []PlacingIsExclusive
<1>1. LockProtocol => PlacingIsExclusive
  <2> SUFFICES ASSUME LockProtocol, NEW n \in Names, NEW t \in Threads, NEW u \in Threads,
                      at[t][n] = "place", Holds(u, n), ~Placed(n)
               PROVE  t = u
    BY DEF PlacingIsExclusive
  <2>1. ref[t][n] = locks[n] /\ ref[u][n] = locks[n]
    BY DEF LockProtocol, BeforePlaceholder, Holds, Holding
  <2> QED
    BY <2>1 DEF LockProtocol, MutualExclusion, Holds, Holding
<1> QED
  BY <1>1, ProtocolCorrect, PTL

\* The map of mutexes is empty of names that nobody instantiates.
THEOREM LocksAreCleanedUp == Spec => []LocksAreDropped
<1>1. LockProtocol => LocksAreDropped
  BY DEF LockProtocol, MappedLocksAreUsed, LocksAreDropped
<1> QED
  BY <1>1, ProtocolCorrect, PTL

-----------------------------------------------------------------------------
(* Deadlock freedom: among the threads that wait, the one whose name got its *)
(* placeholder last waits for a mutex that is not held by a waiting thread. *)

\* In a finite sequence, a non-empty set of positions has a last one.
LEMMA LastPosition ==
  ASSUME NEW n \in Nat, NEW P \in SUBSET (1..n), P # {}
  PROVE  \E i \in P : \A j \in P : j <= i
<1> DEFINE T == {n - i : i \in P}
<1>1. T \subseteq Nat /\ T # {}
  <2>1. \A i \in P : n - i \in Nat
    OBVIOUS
  <2> QED
    BY <2>1
<1>2. PICK x \in T : \A y \in T : ~(<<y, x>> \in OpToRel(<, Nat))
  BY <1>1, NatLessThanWellFounded, WFMin
<1>3. \A y \in T : x <= y
  <2> SUFFICES ASSUME NEW y \in T PROVE x <= y
    OBVIOUS
  <2>1. x \in Nat /\ y \in Nat
    BY <1>1
  <2>2. ~(y < x)
    BY <1>2, <2>1 DEF OpToRel
  <2> QED
    BY <2>1, <2>2
<1>4. PICK i \in P : x = n - i
  OBVIOUS
<1>5. ASSUME NEW j \in P PROVE j <= i
  <2>1. n - j \in T
    OBVIOUS
  <2> QED
    BY <1>3, <1>4, <2>1
<1> QED
  BY <1>4, <1>5

\* A thread whose mutex is held waits for a thread that is at work on that name.
LEMMA HolderWorks ==
  ASSUME LockProtocol, NEW u \in Threads, NEW n \in Names, Holds(u, n), Blocked(u)
  PROVE  at[u][n] = "work" /\ Placed(n)
<1>1. PICK k \in Names : at[u][k] = "wait"
  BY DEF Blocked
<1>2. k # n /\ at[u][n] = "work"
  BY <1>1 DEF LockProtocol, OneAtATime, Holds, Holding, Busy, Steps
<1> QED
  BY <1>2 DEF LockProtocol, BeforePlaceholder

\* The threads that instantiate never all wait for each other, whatever refers to what.
THEOREM DeadlockFree == Spec => []NoDeadlock
<1>1. TypeOK /\ LockProtocol => NoDeadlock
  <2> SUFFICES ASSUME TypeOK, LockProtocol, NEW r \in Threads, Running(r),
                      \A t \in Threads : Running(t) => Blocked(t)
               PROVE  FALSE
    BY DEF NoDeadlock
  <2> DEFINE Waited(i) == \E t \in Threads : at[t][order[i]] = "wait" /\ Locked(order[i], ref[t][order[i]])
             P == {i \in 1..Len(order) : Waited(i)}
  <2>1. Len(order) \in Nat /\ DOMAIN order = 1..Len(order) /\ order \in Seq(Names)
    BY DEF TypeOK
  <2>2. ASSUME NEW t \in Threads, Blocked(t)
        PROVE  \E n \in Names, u \in Threads, i \in P :
                 /\ at[t][n] = "wait" /\ order[i] = n
                 /\ Holds(u, n) /\ at[u][n] = "work" /\ Blocked(u)
    <3>1. PICK n \in Names : at[t][n] = "wait" /\ Locked(n, ref[t][n])
      BY <2>2 DEF Blocked
    <3>2. PICK u \in Threads : Holds(u, n)
      BY <3>1 DEF Locked
    <3>3. Blocked(u)
      BY <3>2 DEF Running, Holds, Holding
    <3>4. at[u][n] = "work" /\ Placed(n)
      BY <3>2, <3>3, HolderWorks
    <3>5. PICK i \in DOMAIN order : order[i] = n
      BY <3>4 DEF Placed
    <3>6. i \in P
      BY <3>1, <3>5, <2>1
    <3> QED
      BY <3>1, <3>2, <3>3, <3>4, <3>5, <3>6
  <2>3. P # {}
    BY <2>2
  <2>4. PICK i \in P : \A j \in P : j <= i
    <3> HIDE DEF P
    <3>1. P \in SUBSET (1..Len(order))
      BY DEF P
    <3> QED
      BY <2>1, <2>3, <3>1, LastPosition
  <2>5. PICK t \in Threads : at[t][order[i]] = "wait" /\ Locked(order[i], ref[t][order[i]])
    OBVIOUS
  <2>6. order[i] \in Names
    BY <2>1
  <2>7. PICK u \in Threads : Holds(u, order[i])
    BY <2>5 DEF Locked
  <2>8. Blocked(u)
    BY <2>6, <2>7 DEF Running, Holds, Holding
  <2>9. at[u][order[i]] = "work"
    BY <2>6, <2>7, <2>8, HolderWorks
  <2>10. PICK k \in Names, j \in P : at[u][k] = "wait" /\ order[j] = k
    <3> HIDE DEF P
    <3> QED
      BY <2>2, <2>8
  <2>11. i < j
    BY <2>1, <2>6, <2>9, <2>10 DEF LockProtocol, WaitsForLaterNames
  <2> QED
    BY <2>1, <2>4, <2>10, <2>11
<1> QED
  BY <1>1, TypeCorrect, ProtocolCorrect, PTL
=============================================================================
