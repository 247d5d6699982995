--------------------------- MODULE CallAccessProofs ---------------------------
(***************************************************************************)
(* Theorems about who gets hold of a call: the registry of locks that the  *)
(* goroutines of a worker take before they process one (CallLocks), for    *)
(* any number of goroutines, calls and addresses, and the list, the detail *)
(* and the dashboard through which users see calls (CallList), for any     *)
(* number of users and calls and any sizes of pages.                       *)
(***************************************************************************)
EXTENDS CallLocks, CallList, FiniteSetTheorems, TLAPS

-------------------------------------------------------------------------------
(* The inductive invariant. *)

\* The goroutines that count in the refs of an entry.
UsersOf(e) == {g \in Goroutines : at[g] \in Counted /\ lock[g] = e}

\* Every goroutine inside Lock or release has its call, and its entry once it is
\* counted.
LocalInv ==
    \A g \in Goroutines :
        /\ at[g] = "idle" \/ call[g] \in Calls
        /\ at[g] \in Counted <=> lock[g] # None

\* The count of an entry is the number of its users; a mapped entry has some, and
\* is mapped by one call only.
RefsInv ==
    /\ \A e \in Entries : refs[e] = Cardinality(UsersOf(e))
    /\ \A c \in Calls : locks[c] # None =>
          \E g \in Goroutines : at[g] \in Counted /\ lock[g] = locks[c]
    /\ \A c, d \in Calls : locks[c] # None /\ locks[c] = locks[d] => c = d

\* A goroutine past lock.mu.Lock has the mutex of its entry.
HeldInv ==
    \A g \in Goroutines : at[g] = "critical" => held[lock[g]] = g

Inv == TypeOK /\ LocalInv /\ EntryIsCurrent /\ RefsInv /\ HeldInv

-------------------------------------------------------------------------------
(* Sets of users. *)

\* Every set of users is finite, so it has a number.
LEMMA UsersFinite ==
    \A e : IsFiniteSet(UsersOf(e)) /\ Cardinality(UsersOf(e)) \in Nat
BY LocksAssumption, FS_Subset, FS_CardinalityType DEF UsersOf

\* A step that neither counts a goroutine in or out nor changes an entry in use
\* leaves counts and map right.
LEMMA UsersSame ==
    ASSUME RefsInv, UNCHANGED <<locks, refs, lock>>,
           \A g \in Goroutines : at'[g] \in Counted <=> at[g] \in Counted
    PROVE  RefsInv'
<1>1. \A e \in Entries : UsersOf(e)' = UsersOf(e)
  BY DEF UsersOf
<1> QED
  BY <1>1 DEF RefsInv

-------------------------------------------------------------------------------
(* The steps. *)

\* A goroutine starts to lock a call.
LEMMA LockInv ==
    ASSUME Inv, NEW g \in Goroutines, NEW c \in Calls, Lock(g, c)
    PROVE  Inv'
<1> USE DEF Inv, TypeOK, Lock, Counted, Points
<1>1. TypeOK'
  OBVIOUS
<1>3. RefsInv'
  BY UsersSame
<1>4. (LocalInv /\ EntryIsCurrent /\ HeldInv)'
  BY LocksAssumption DEF LocalInv, EntryIsCurrent, HeldInv
<1> QED
  BY <1>1, <1>3, <1>4

\* The registry's mutex is taken, to enter or to leave.
LEMMA LockRegistryInv ==
    ASSUME Inv, NEW g \in Goroutines, LockRegistry(g)
    PROVE  Inv'
<1> USE DEF Inv, TypeOK, LockRegistry, Counted, Points
<1>1. TypeOK'
  OBVIOUS
<1>3. RefsInv'
  BY UsersSame
<1>4. (LocalInv /\ EntryIsCurrent /\ HeldInv)'
  BY DEF LocalInv, EntryIsCurrent, HeldInv
<1> QED
  BY <1>1, <1>3, <1>4

\* It takes the mutex of the entry,
LEMMA LockEntryInv ==
    ASSUME Inv, NEW g \in Goroutines, LockEntry(g)
    PROVE  Inv'
<1> USE DEF Inv, TypeOK, LockEntry, Counted, Points
<1>0. lock[g] \in Entries
  BY DEF LocalInv
<1>1. TypeOK'
  OBVIOUS
<1>3. RefsInv'
  BY UsersSame
<1>4. (LocalInv /\ EntryIsCurrent)'
  BY DEF LocalInv, EntryIsCurrent
<1>5. HeldInv'
  BY <1>0, LocksAssumption DEF HeldInv
<1> QED
  BY <1>1, <1>3, <1>4, <1>5

\* and gives it back.
LEMMA UnlockEntryInv ==
    ASSUME Inv, NEW g \in Goroutines, UnlockEntry(g)
    PROVE  Inv'
<1> USE DEF Inv, TypeOK, UnlockEntry, Counted, Points
<1>0. lock[g] \in Entries
  BY DEF LocalInv
<1>1. TypeOK'
  OBVIOUS
<1>3. RefsInv'
  BY UsersSame
<1>4. (LocalInv /\ EntryIsCurrent)'
  BY DEF LocalInv, EntryIsCurrent
<1>5. HeldInv'
  BY <1>0 DEF HeldInv
<1> QED
  BY <1>1, <1>3, <1>4, <1>5

\* The new user is counted in the entry of its call, or in a fresh one.
LEMMA LookupInv ==
    ASSUME Inv, NEW g \in Goroutines, Lookup(g)
    PROVE  Inv'
<1> USE DEF Inv, TypeOK, Counted, Points
<1>0. at[g] = "lookup" /\ call[g] \in Calls /\ lock[g] = None
  BY DEF Lookup, LocalInv
<1>1. PICK e \in Entries :
         /\ IF locks[call[g]] = None
            THEN /\ Unreferenced(e)
                 /\ refs' = [refs EXCEPT ![e] = 1]
                 /\ held' = [held EXCEPT ![e] = None]
            ELSE /\ e = locks[call[g]]
                 /\ refs' = [refs EXCEPT ![e] = @ + 1]
                 /\ UNCHANGED held
         /\ locks' = [locks EXCEPT ![call[g]] = e]
         /\ lock' = [lock EXCEPT ![g] = e]
  BY DEF Lookup
<1>2. /\ mu' = None /\ at' = [at EXCEPT ![g] = "wait"] /\ call' = call
      /\ e # None
  BY LocksAssumption DEF Lookup
<1>3. TypeOK'
  BY <1>0, <1>1, <1>2
<1>4. /\ UsersOf(e)' = UsersOf(e) \cup {g}
      /\ g \notin UsersOf(e)
      /\ \A f \in Entries \ {e} : UsersOf(f)' = UsersOf(f)
  BY <1>0, <1>1, <1>2 DEF UsersOf
<1>5. locks[call[g]] = None => UsersOf(e) = {}
  BY <1>1 DEF UsersOf, Unreferenced
<1>6. Cardinality(UsersOf(e)') = Cardinality(UsersOf(e)) + 1
  BY <1>4, UsersFinite, FS_AddElement
<1>7. \A f \in Entries : refs'[f] = Cardinality(UsersOf(f)')
  <2>1. refs'[e] = Cardinality(UsersOf(e)')
    <3>1. refs[e] = Cardinality(UsersOf(e))
      BY DEF RefsInv
    <3>2. CASE locks[call[g]] = None
      <4>1. Cardinality(UsersOf(e)) = 0
        BY <1>5, <3>2, FS_EmptySet
      <4>2. refs'[e] = 1
        BY <1>1, <3>2
      <4> QED
        BY <1>6, <4>1, <4>2
    <3>3. CASE locks[call[g]] # None
      <4>1. refs'[e] = refs[e] + 1
        BY <1>1, <3>3
      <4> QED
        BY <1>6, <3>1, <4>1
    <3> QED
      BY <3>2, <3>3
  <2>2. \A f \in Entries \ {e} : refs'[f] = refs[f]
    BY <1>1
  <2> QED
    BY <1>4, <2>1, <2>2 DEF RefsInv
<1>8. \A c \in Calls : locks'[c] = (IF c = call[g] THEN e ELSE locks[c])
  BY <1>0, <1>1
<1>9. \A c \in Calls \ {call[g]} : locks[c] # e
  BY <1>0, <1>1, <1>2 DEF Unreferenced, RefsInv
<1>10. RefsInv'
  <2>1. \A c \in Calls : locks'[c] # None =>
           \E h \in Goroutines : at'[h] \in Counted /\ lock'[h] = locks'[c]
    BY <1>0, <1>1, <1>2, <1>8 DEF RefsInv
  <2>2. \A c, d \in Calls : locks'[c] # None /\ locks'[c] = locks'[d] => c = d
    BY <1>8, <1>9 DEF RefsInv
  <2> QED
    BY <1>7, <2>1, <2>2 DEF RefsInv
<1>11. EntryIsCurrent'
  BY <1>0, <1>1, <1>2, <1>5 DEF EntryIsCurrent, LocalInv, UsersOf
<1>12. LocalInv'
  BY <1>0, <1>1, <1>2 DEF LocalInv
<1>13. HeldInv'
  BY <1>0, <1>1, <1>2, <1>5 DEF HeldInv, UsersOf, LocalInv
<1> QED
  BY <1>3, <1>10, <1>11, <1>12, <1>13

\* The entry goes exactly with its last user.
LEMMA DropInv ==
    ASSUME Inv, NEW g \in Goroutines, Drop(g)
    PROVE  Inv'
<1> USE DEF Inv, TypeOK, Counted, Points
<1>a. PICK e \in Entries, c \in Calls :
         e = lock[g] /\ c = call[g] /\ locks[c] = e /\ e # None
  BY LocksAssumption DEF Drop, LocalInv, EntryIsCurrent
<1>0. at[g] = "drop" /\ lock[g] = e /\ call[g] = c /\ locks[c] = e /\ e # None
  BY <1>a DEF Drop
<1>1. /\ refs' = [refs EXCEPT ![e] = @ - 1]
      /\ locks' = IF refs[e] = 1 THEN [locks EXCEPT ![c] = None] ELSE locks
      /\ lock' = [lock EXCEPT ![g] = None] /\ call' = [call EXCEPT ![g] = None]
      /\ at' = [at EXCEPT ![g] = "idle"] /\ mu' = None /\ held' = held
  BY <1>0 DEF Drop
<1>2. /\ UsersOf(e)' = UsersOf(e) \ {g} /\ g \in UsersOf(e)
      /\ \A f \in Entries \ {e} : UsersOf(f)' = UsersOf(f)
  BY <1>0, <1>1 DEF UsersOf
<1>3. Cardinality(UsersOf(e)') = Cardinality(UsersOf(e)) - 1
  BY <1>2, UsersFinite, FS_RemoveElement
<1>4. refs[e] \in Nat \ {0}
  BY <1>0, <1>2, UsersFinite, FS_EmptySet DEF RefsInv
<1>5. TypeOK'
  BY <1>0, <1>1, <1>4
<1>6. UsersOf(e)' = {} <=> refs[e] = 1
  <2>1. IsFiniteSet(UsersOf(e)')
    BY <1>2, UsersFinite, FS_RemoveElement
  <2> QED
    BY <1>0, <1>3, <1>4, <2>1, FS_EmptySet DEF RefsInv
<1>7. \A d \in Calls : locks'[d] = (IF d = c /\ refs[e] = 1 THEN None ELSE locks[d])
  BY <1>0, <1>1
<1>8. RefsInv'
  <2>1. \A f \in Entries : refs'[f] = Cardinality(UsersOf(f)')
    <3>1. \A f \in Entries : refs[f] = Cardinality(UsersOf(f))
      BY DEF RefsInv
    <3>2. refs'[e] = refs[e] - 1 /\ \A f \in Entries \ {e} : refs'[f] = refs[f]
      BY <1>1
    <3> QED
      BY <1>2, <1>3, <3>1, <3>2
  <2>2. \A d \in Calls : locks'[d] # None =>
           \E h \in Goroutines : at'[h] \in Counted /\ lock'[h] = locks'[d]
    <3> SUFFICES ASSUME NEW d \in Calls, locks'[d] # None
                 PROVE  \E h \in Goroutines :
                           at'[h] \in Counted /\ lock'[h] = locks'[d]
      OBVIOUS
    <3>1. CASE locks[d] = e
      BY <1>0, <1>6, <1>7, <3>1 DEF UsersOf, RefsInv
    <3>2. CASE locks[d] # e
      BY <1>0, <1>1, <1>7, <3>2 DEF RefsInv
    <3> QED
      BY <3>1, <3>2
  <2>3. \A d, b \in Calls : locks'[d] # None /\ locks'[d] = locks'[b] => d = b
    BY <1>7 DEF RefsInv
  <2> QED
    BY <2>1, <2>2, <2>3 DEF RefsInv
<1>9. LocalInv'
  BY <1>0, <1>1, LocksAssumption DEF LocalInv
<1>10. EntryIsCurrent'
  <2> SUFFICES ASSUME NEW h \in Goroutines, at'[h] \in Counted
               PROVE  locks'[call'[h]] = lock'[h]
    BY DEF EntryIsCurrent
  <2>1. /\ h # g /\ at[h] \in Counted /\ call'[h] = call[h] /\ lock'[h] = lock[h]
        /\ call[h] \in Calls /\ locks[call[h]] = lock[h]
    BY <1>0, <1>1 DEF EntryIsCurrent, LocalInv
  <2>2. refs[e] = 1 => lock[h] # e
    BY <1>2, <1>6, <2>1 DEF UsersOf
  <2> QED
    BY <1>0, <1>7, <2>1, <2>2
<1>11. HeldInv'
  BY <1>0, <1>1 DEF HeldInv
<1> QED
  BY <1>5, <1>8, <1>9, <1>10, <1>11

\* The invariant is inductive.
LEMMA StepInv ==
    ASSUME Inv, [Next]_vars
    PROVE  Inv'
<1>1. CASE UNCHANGED vars
  BY <1>1 DEF vars, Inv, TypeOK, LocalInv, EntryIsCurrent, RefsInv, HeldInv, UsersOf
<1> QED
  BY <1>1, LockInv, LockRegistryInv, LookupInv, LockEntryInv, UnlockEntryInv, DropInv
     DEF Next, Step

\* The invariant holds at the start.
LEMMA InitInv == Init => Inv
<1> SUFFICES ASSUME Init PROVE Inv
  OBVIOUS
<1>1. \A e : UsersOf(e) = {}
  BY DEF Init, UsersOf, Counted
<1> QED
  BY <1>1, FS_EmptySet DEF Init, Inv, TypeOK, LocalInv, EntryIsCurrent, RefsInv,
     HeldInv, Counted, Points

-------------------------------------------------------------------------------
\* In every state, whatever the numbers of goroutines, calls and addresses.
THEOREM Invariance == Spec => []Inv
BY InitInv, StepInv, PTL DEF Spec

\* Counts are never negative, and every variable keeps its type.
THEOREM LocksTypeCorrect == Spec => []TypeOK
<1>1. Inv => TypeOK
  BY DEF Inv
<1> QED
  BY <1>1, Invariance, PTL

\* Two goroutines that hold the lock at a time hold it for different calls.
THEOREM Exclusion == Spec => []MutualExclusion
<1>1. Inv => MutualExclusion
  BY DEF Inv, HeldInv, EntryIsCurrent, MutualExclusion, Counted
<1> QED
  BY <1>1, Invariance, PTL

\* Removing an idle entry never lets a later caller bypass a waiting one, and the
\* map holds no entry for a call that nobody uses.
THEOREM EntriesCounted == Spec => []EntriesAreCounted
<1>1. Inv => NoIdleEntry
  <2> SUFFICES ASSUME Inv, NEW c \in Calls, locks[c] # None
               PROVE  \E g \in Goroutines : at[g] \in Counted /\ call[g] = c
    BY DEF NoIdleEntry
  <2>1. PICK g \in Goroutines : at[g] \in Counted /\ lock[g] = locks[c]
    BY DEF Inv, RefsInv
  <2>2. call[g] \in Calls /\ locks[call[g]] = lock[g]
    BY <2>1 DEF Inv, EntryIsCurrent, LocalInv, Counted
  <2> QED
    BY <2>1, <2>2 DEF Inv, RefsInv
<1>2. Inv => EntriesAreCounted
  BY <1>1 DEF Inv, EntriesAreCounted
<1> QED
  BY <1>2, Invariance, PTL

-------------------------------------------------------------------------------
(* The registry implements CallMutex. *)

\* The holder of a call is the one goroutine that is past Lock for it.
HolderInv ==
    \A c \in Calls :
        /\ \A g \in Goroutines : at[g] = "critical" /\ call[g] = c => Holder[c] = g
        /\ (~\E g \in Goroutines : at[g] = "critical" /\ call[g] = c) => Holder[c] = None

\* A call that has a holder is held by a goroutine in its critical section.
LEMMA HolderCritical == Inv => HolderInv
<1> SUFFICES ASSUME Inv, NEW c \in Calls
             PROVE  /\ \A g \in Goroutines :
                           at[g] = "critical" /\ call[g] = c => Holder[c] = g
                    /\ (~\E g \in Goroutines : at[g] = "critical" /\ call[g] = c) =>
                           Holder[c] = None
  BY DEF HolderInv
<1>1. \A g, h \in Goroutines :
         at[g] = "critical" /\ call[g] = c /\ at[h] = "critical" /\ call[h] = c => g = h
  BY DEF Inv, HeldInv, EntryIsCurrent, Counted
<1>2. CASE \E g \in Goroutines : at[g] = "critical" /\ call[g] = c
  <2>1. Holder[c] = CHOOSE g \in Goroutines : at[g] = "critical" /\ call[g] = c
    BY <1>2 DEF Holder
  <2>2. /\ Holder[c] \in Goroutines
        /\ at[Holder[c]] = "critical" /\ call[Holder[c]] = c
    BY <1>2, <2>1
  <2> QED
    BY <1>1, <1>2, <2>2
<1>3. CASE ~\E g \in Goroutines : at[g] = "critical" /\ call[g] = c
  BY <1>3 DEF Holder
<1> QED
  BY <1>2, <1>3

\* A step in which nobody gets past Lock or calls release leaves the holders.
LEMMA HolderSame ==
    ASSUME HolderInv, HolderInv',
           \A g \in Goroutines, c \in Calls :
               (at[g] = "critical" /\ call[g] = c) <=> (at'[g] = "critical" /\ call'[g] = c)
    PROVE  Holder' = Holder
<1>1. ASSUME NEW c \in Calls PROVE Holder'[c] = Holder[c]
  <2>1. CASE \E g \in Goroutines : at[g] = "critical" /\ call[g] = c
    BY <2>1 DEF HolderInv
  <2>2. CASE ~\E g \in Goroutines : at[g] = "critical" /\ call[g] = c
    BY <2>2 DEF HolderInv
  <2> QED
    BY <2>1, <2>2
<1> HIDE DEF HolderInv
<1>2. Holder = [c \in Calls |-> Holder[c]] /\ Holder' = [c \in Calls |-> Holder'[c]]
  BY DEF Holder
<1> QED
  BY <1>1, <1>2

\* A call of Lock asks for the mutex of the call ...
LEMMA LockAsks ==
    ASSUME Inv, HolderInv, HolderInv', NEW g \in Goroutines, NEW c \in Calls, Lock(g, c)
    PROVE  Mutex!Ask(g, c)
<1> USE DEF Inv, TypeOK, Lock, Points
<1>1. Holder' = Holder
  BY HolderSame
<1>2. Waiting[g] = None
  BY DEF Waiting
<1>3. \A d \in Calls : Holder[d] # g
  BY LocksAssumption DEF HolderInv
<1>4. Waiting' = [Waiting EXCEPT ![g] = c]
  BY DEF Waiting
<1> QED
  BY <1>1, <1>2, <1>3, <1>4 DEF Mutex!Ask

\* ... its return is the entry, when nobody else is inside ...
LEMMA LockEntryEnters ==
    ASSUME Inv, HolderInv, HolderInv', NEW g \in Goroutines, LockEntry(g)
    PROVE  Mutex!Enter(g, call[g])
<1> USE DEF Inv, TypeOK, LockEntry, Points
<1>1. call[g] \in Calls /\ lock[g] = locks[call[g]] /\ held[lock[g]] = None
  BY DEF LocalInv, EntryIsCurrent, Counted
<1>2. \A h \in Goroutines : ~(at[h] = "critical" /\ call[h] = call[g])
  BY <1>1, LocksAssumption DEF HeldInv, EntryIsCurrent, Counted
<1>3. Holder[call[g]] = None
  BY <1>1, <1>2 DEF HolderInv
<1>4. Holder' = [Holder EXCEPT ![call[g]] = g]
  <2>1. at'[g] = "critical" /\ call' = call /\ \A h \in Goroutines \ {g} : at'[h] = at[h]
    OBVIOUS
  <2>2. Holder'[call[g]] = g
    BY <1>1, <2>1 DEF HolderInv
  <2>3. ASSUME NEW c \in Calls, c # call[g] PROVE Holder'[c] = Holder[c]
    <3>1. CASE \E h \in Goroutines : at[h] = "critical" /\ call[h] = c
      BY <2>1, <2>3, <3>1 DEF HolderInv
    <3>2. CASE ~\E h \in Goroutines : at[h] = "critical" /\ call[h] = c
      BY <2>1, <2>3, <3>2 DEF HolderInv
    <3> QED
      BY <3>1, <3>2
  <2>4. Holder = [c \in Calls |-> Holder[c]] /\ Holder' = [c \in Calls |-> Holder'[c]]
    BY DEF Holder
  <2> QED
    BY <1>1, <2>2, <2>3, <2>4
<1>5. Waiting[g] = call[g] /\ Waiting' = [Waiting EXCEPT ![g] = None]
  BY DEF Waiting
<1> QED
  BY <1>3, <1>4, <1>5 DEF Mutex!Enter

\* ... and lock.mu.Unlock is the exit.
LEMMA UnlockEntryLeaves ==
    ASSUME Inv, HolderInv, HolderInv', NEW g \in Goroutines, UnlockEntry(g)
    PROVE  Mutex!Leave(g, call[g])
<1> USE DEF Inv, TypeOK, UnlockEntry, Points
<1>1. call[g] \in Calls /\ at[g] = "critical"
  BY DEF LocalInv
<1>2. Holder[call[g]] = g
  BY <1>1 DEF HolderInv
<1>3. Holder' = [Holder EXCEPT ![call[g]] = None]
  <2>1. at'[g] = "unregister" /\ call' = call /\ \A h \in Goroutines \ {g} : at'[h] = at[h]
    OBVIOUS
  <2>2. \A h \in Goroutines : at[h] = "critical" /\ call[h] = call[g] => h = g
    BY <1>1, <1>2 DEF HolderInv
  <2>3. Holder'[call[g]] = None
    BY <1>1, <2>1, <2>2 DEF HolderInv
  <2>4. ASSUME NEW c \in Calls, c # call[g] PROVE Holder'[c] = Holder[c]
    <3>1. CASE \E h \in Goroutines : at[h] = "critical" /\ call[h] = c
      BY <2>1, <2>4, <3>1 DEF HolderInv
    <3>2. CASE ~\E h \in Goroutines : at[h] = "critical" /\ call[h] = c
      BY <2>1, <2>4, <3>2 DEF HolderInv
    <3> QED
      BY <3>1, <3>2
  <2>5. Holder = [c \in Calls |-> Holder[c]] /\ Holder' = [c \in Calls |-> Holder'[c]]
    BY DEF Holder
  <2> QED
    BY <1>1, <2>3, <2>4, <2>5
<1>4. Waiting' = Waiting
  BY DEF Waiting
<1> QED
  BY <1>2, <1>3, <1>4 DEF Mutex!Leave

\* The steps on the registry's own map are none of the mutexes'.
LEMMA RegistryStutters ==
    ASSUME Inv, HolderInv, HolderInv', NEW g \in Goroutines,
           LockRegistry(g) \/ Lookup(g) \/ Drop(g)
    PROVE  UNCHANGED <<Holder, Waiting>>
<1> USE DEF Inv, TypeOK, Points
<1>1. /\ at' = [at EXCEPT ![g] = at'[g]] /\ call' = [call EXCEPT ![g] = call'[g]]
      /\ \/ /\ at[g] \in {"register", "lookup"} /\ at'[g] \in {"lookup", "wait"}
            /\ call'[g] = call[g]
         \/ at[g] \in {"unregister", "drop"} /\ at'[g] \in {"drop", "idle"}
  BY DEF LockRegistry, Lookup, Drop
<1>2. Holder' = Holder
  <2>1. \A h \in Goroutines, c \in Calls :
           (at[h] = "critical" /\ call[h] = c) <=> (at'[h] = "critical" /\ call'[h] = c)
    BY <1>1
  <2> QED
    BY <2>1, HolderSame
<1>3. Waiting' = Waiting
  BY <1>1 DEF Waiting
<1> QED
  BY <1>2, <1>3

\* The registry gives each call a mutex of its own: what Lock and release do to
\* its map, its counts and its entries looks from outside like CallMutex.
THEOREM RegistryIsMutex == Spec => ImplementsMutex
<1>1. ASSUME Init PROVE Mutex!Init
  <2>1. Holder = [c \in Calls |-> None]
    BY <1>1 DEF Init, Holder
  <2>2. Waiting = [g \in Goroutines |-> None]
    BY <1>1 DEF Init, Waiting
  <2> QED
    BY <2>1, <2>2 DEF Mutex!Init
<1>2. Inv /\ HolderInv /\ HolderInv' /\ [Next]_vars => [Mutex!Next]_Mutex!vars
  <2> SUFFICES ASSUME Inv, HolderInv, HolderInv', [Next]_vars
               PROVE  Mutex!Next \/ UNCHANGED <<Holder, Waiting>>
    BY DEF Mutex!vars
  <2>1. CASE UNCHANGED vars
    BY <2>1 DEF vars, Holder, Waiting
  <2>2. ASSUME NEW g \in Goroutines, NEW c \in Calls, Lock(g, c) PROVE Mutex!Next
    BY <2>2, LockAsks DEF Mutex!Next
  <2>3. ASSUME NEW g \in Goroutines, Step(g)
        PROVE  Mutex!Next \/ UNCHANGED <<Holder, Waiting>>
    <3>1. CASE LockEntry(g)
      <4>1. call[g] \in Calls
        BY <3>1 DEF Inv, LocalInv, LockEntry
      <4> QED
        BY <3>1, <4>1, LockEntryEnters DEF Mutex!Next
    <3>2. CASE UnlockEntry(g)
      <4>1. call[g] \in Calls
        BY <3>2 DEF Inv, LocalInv, UnlockEntry
      <4> QED
        BY <3>2, <4>1, UnlockEntryLeaves DEF Mutex!Next
    <3>3. CASE LockRegistry(g) \/ Lookup(g) \/ Drop(g)
      BY <3>3, RegistryStutters
    <3> QED
      BY <2>3, <3>1, <3>2, <3>3 DEF Step
  <2> QED
    BY <2>1, <2>2, <2>3 DEF Next
<1> QED
  BY <1>1, <1>2, Invariance, HolderCritical, PTL DEF Spec, ImplementsMutex, Mutex!Spec


-------------------------------------------------------------------------------
(* What the queries of the list select.                                     *)

\* The values at the placeholders of a query.
Values(query) == [p \in DOMAIN query.places |-> query.args[query.places[p]]]

\* What the list's query selects, as a rule about roles.
Seen(a, filter) ==
    IF a.role \in {"owner", "admin"}
    THEN IF filter = NoOne THEN Rows ELSE OwnedBy({filter})
    ELSE IF a.role = "manager"
    THEN OwnedBy({a.user})
    ELSE IF filter = NoOne
         THEN OwnedBy({a.user} \cup Managed(a.user))
         ELSE OwnedBy({filter} \cap ({a.user} \cup Managed(a.user)))

\* The list selects by role, whatever the order of the placeholders; and so in the
\* next state.
LEMMA ListSelects ==
    ASSUME NEW a, NEW filter
    PROVE  /\ Selected(ListScope(a, filter)) = Seen(a, filter)
           /\ Selected(ListScope(a, filter))' = Seen(a, filter)'
<1>1. CASE a.role \in {"owner", "admin"} /\ filter = NoOne
  BY <1>1 DEF Selected, ListScope, Seen
<1>2. CASE a.role \in {"owner", "admin"} /\ filter # NoOne
  BY <1>2 DEF Selected, ListScope, Seen
<1>3. CASE a.role = "manager"
  BY <1>3 DEF Selected, ListScope, Seen
<1>4. CASE a.role \notin {"owner", "admin", "manager"} /\ filter = NoOne
  <2> DEFINE q == ListScope(a, filter)
             v == Values(q)
  <2>1. /\ q.shape = "team" /\ q.places = <<1, 2, 1, 3>>
        /\ q.args = <<"w", a.user, a.user>>
    BY <1>4 DEF ListScope
  <2> HIDE DEF q
  <2>2. v[1] = "w" /\ v[2] = a.user /\ v[3] = "w" /\ v[4] = a.user
    BY <2>1 DEF Values
  <2> HIDE DEF v
  <2>3. /\ Selected(q) = OwnedBy({a.user} \cup Managed(a.user))
        /\ Selected(q)' = (OwnedBy({a.user} \cup Managed(a.user)))'
    BY <2>1, <2>2 DEF Selected, Values, v
  <2> QED
    BY <1>4, <2>3 DEF Seen, q
<1>5. CASE a.role \notin {"owner", "admin", "manager"} /\ filter # NoOne
  <2> DEFINE q == ListScope(a, filter)
             v == Values(q)
  <2>1. /\ q.shape = "owner in team" /\ q.places = <<1, 2, 3, 1, 4>>
        /\ q.args = <<"w", filter, a.user, a.user>>
    BY <1>5 DEF ListScope
  <2> HIDE DEF q
  <2>2. v[1] = "w" /\ v[2] = filter /\ v[3] = a.user /\ v[5] = a.user
    <3>1. /\ DOMAIN q.places = 1..5
          /\ q.places[1] = 1 /\ q.places[2] = 2 /\ q.places[3] = 3 /\ q.places[5] = 4
      <4>1. q.places = <<1, 2, 3, 1, 4>>
        BY <2>1
      <4> QED
        BY ONLY <4>1
    <3>2. q.args[1] = "w" /\ q.args[2] = filter /\ q.args[3] = a.user /\ q.args[4] = a.user
      <4>1. q.args = <<"w", filter, a.user, a.user>>
        BY <2>1
      <4> QED
        BY ONLY <4>1
    <3> QED
      BY <3>1, <3>2 DEF Values
  <2> HIDE DEF v
  <2>3. /\ Selected(q) = OwnedBy({filter} \cap ({a.user} \cup Managed(a.user)))
        /\ Selected(q)' = (OwnedBy({filter} \cap ({a.user} \cup Managed(a.user))))'
    BY <2>1, <2>2 DEF Selected, Values, v
  <2> QED
    BY <1>5, <2>3 DEF Seen, q
<1> QED
  BY <1>1, <1>2, <1>3, <1>4, <1>5

-------------------------------------------------------------------------------
(* The inductive invariant of the list. *)

Reader == [list : {"workspace", "platform"}, user : Users \cup {NoOne}, number : Nat \ {0},
           size : 0..(MaxSize + 1), owner : Users \cup {NoOne},
           status : Statuses \cup {"any"}]

\* What the client would see now.
Current == [user |-> reader.user, role |-> team[reader.user].role]
InView == Listed(reader, Current)

ListTypes ==
    /\ ListTypeOK /\ Len(calls) <= MaxCalls
    /\ reader \in Reader /\ (pc # "idle" => reader.user \in Users)

\* While no call is taken from its view, the client sees what it saw at first and
\* maybe more; it has got each of those calls that the pages before the next one
\* begin with; and a count is right until a call comes between it and its rows.
WalkInv ==
    pc \in {"resolve", "count", "rows", "end"} /\ ~moved =>
        /\ since \subseteq InView
        /\ pc \in {"count", "rows"} => actor = Current
        /\ pc # "end" =>
              \A c \in since :
                  Cardinality(Newer(InView, c)) < Offset(reader.number, Size(reader)) => c \in got
        /\ pc = "rows" /\ ~torn => total = Cardinality(InView)
        /\ pc = "end" /\ ~torn => since \subseteq got

ListInv == ListTypes /\ WalkInv

-------------------------------------------------------------------------------
(* Pages. *)

\* A page has room.
LEMMA SizeOfPage ==
    ASSUME NEW rd \in Reader
    PROVE  Size(rd) \in 1..MaxSize
BY CallListAssumption DEF Reader, Size

\* What is listed are calls, of which there are no more than there may be.
LEMMA ListedCalls ==
    ASSUME ListTypes, NEW rd, NEW a
    PROVE  /\ Listed(rd, a) \subseteq 1..Len(calls) /\ Listed(rd, a) \subseteq 1..MaxCalls
           /\ IsFiniteSet(Listed(rd, a)) /\ Cardinality(Listed(rd, a)) \in 0..MaxCalls
<1>1. Rows \subseteq 1..Len(calls) /\ Len(calls) \in Nat /\ Len(calls) <= MaxCalls
  BY DEF ListTypes, ListTypeOK, Rows
<1>2. Listed(rd, a) \subseteq Rows
  BY ListSelects DEF Listed, Seen, OwnedBy
<1>3. Listed(rd, a) \subseteq 1..MaxCalls
  <2>1. 1..Len(calls) \subseteq 1..MaxCalls
    BY <1>1, CallListAssumption
  <2> QED
    BY <1>1, <1>2, <2>1
<1>4. IsFiniteSet(1..MaxCalls) /\ Cardinality(1..MaxCalls) = MaxCalls
  BY FS_Interval, CallListAssumption
<1>5. IsFiniteSet(Listed(rd, a)) /\ Cardinality(Listed(rd, a)) <= MaxCalls
  BY <1>3, <1>4, FS_Subset
<1>6. Cardinality(Listed(rd, a)) \in Nat
  BY <1>5, FS_CardinalityType
<1> QED
  BY <1>1, <1>2, <1>3, <1>5, <1>6, CallListAssumption

\* The same in the next state.
LEMMA NextListedFinite ==
    ASSUME ListTypes', NEW rd, NEW a
    PROVE  IsFiniteSet(Listed(rd, a)')
<1>1. Rows' \subseteq 1..Len(calls') /\ Len(calls') \in Nat
  BY DEF ListTypes, ListTypeOK, Rows
<1>2. Listed(rd, a)' \subseteq Rows'
  BY ListSelects DEF Listed, Seen, OwnedBy
<1>3. IsFiniteSet(1..Len(calls'))
  BY <1>1, FS_Interval
<1> QED
  BY <1>1, <1>2, <1>3, FS_Subset

\* A call has fewer newer ones than there are.
LEMMA NewerFewer ==
    ASSUME NEW cs, IsFiniteSet(cs), NEW c \in cs, c \in Nat
    PROVE  Cardinality(Newer(cs, c)) \in Nat /\ Cardinality(Newer(cs, c)) < Cardinality(cs)
<1>1. Newer(cs, c) \in SUBSET cs /\ c \notin Newer(cs, c)
  BY DEF Newer
<1>2. IsFiniteSet(Newer(cs, c)) /\ Cardinality(Newer(cs, c)) <= Cardinality(cs)
      /\ Cardinality(Newer(cs, c)) # Cardinality(cs)
  BY <1>1, FS_Subset
<1> QED
  BY <1>2, FS_CardinalityType

\* With more calls, no call has fewer newer ones.
LEMMA NewerGrow ==
    ASSUME NEW cs, NEW ds, cs \subseteq ds, IsFiniteSet(ds), NEW c
    PROVE  /\ Cardinality(Newer(cs, c)) \in Nat /\ Cardinality(Newer(ds, c)) \in Nat
           /\ Cardinality(Newer(cs, c)) <= Cardinality(Newer(ds, c))
<1>1. Newer(ds, c) \in SUBSET ds /\ Newer(cs, c) \in SUBSET Newer(ds, c)
  BY DEF Newer
<1>2. IsFiniteSet(Newer(ds, c))
  BY <1>1, FS_Subset
<1> QED
  BY <1>1, <1>2, FS_Subset, FS_CardinalityType

\* The calls on a page are those between its offset and the next page's.
LEMMA PageByPage ==
    ASSUME NEW cs, NEW number \in Nat \ {0}, NEW size \in Nat \ {0}, NEW c \in cs,
           Cardinality(Newer(cs, c)) \in Nat,
           Cardinality(Newer(cs, c)) < Offset(number + 1, size)
    PROVE  Cardinality(Newer(cs, c)) < Offset(number, size) \/ c \in Page(cs, number, size)
<1> DEFINE n == Cardinality(Newer(cs, c))
           from == Offset(number, size)
<1>1. from \in Nat /\ Offset(number + 1, size) = from + size
  BY DEF Offset
<1> HIDE DEF n, from
<1>2. n \in Nat /\ n < from + size
  BY <1>1 DEF n
<1>3. n < from \/ n \in from..(from + size - 1)
  BY <1>1, <1>2
<1> QED
  BY <1>3 DEF Page, n, from

\* The last page is the last.
LEMMA LastPage ==
    ASSUME NEW n \in Nat, NEW number \in Nat \ {0}, NEW size \in Nat \ {0},
           number >= TotalPages(n, size)
    PROVE  n <= Offset(number + 1, size)
<1> DEFINE pages == TotalPages(n, size)
<1>1. pages \in Nat /\ n <= pages * size
  BY DEF TotalPages
<1> HIDE DEF pages
<1>2. pages * size <= number * size
  BY <1>1 DEF pages
<1>3. Offset(number + 1, size) = number * size
  BY DEF Offset
<1> QED
  BY <1>1, <1>2, <1>3

-------------------------------------------------------------------------------
(* The steps. *)

\* What is listed depends on the calls, the memberships and whose list it is.
LEMMA ViewStays ==
    ASSUME UNCHANGED <<calls, team>>, NEW rd, NEW a
    PROVE  Listed(rd, a)' = Listed(rd, a)
<1>1. Rows' = Rows /\ \A c \in Rows : calls'[c] = calls[c]
  BY DEF Rows
<1>2. Seen(a, rd.owner)' = Seen(a, rd.owner)
  BY DEF Seen, OwnedBy, Managed, Rows
<1>3. Selected(ListScope(a, rd.owner))' = Selected(ListScope(a, rd.owner))
  BY <1>2, ListSelects
<1> QED
  BY <1>1, <1>3 DEF Listed

\* Uploads take nothing from it.
LEMMA ViewGrows ==
    ASSUME ListTypes, NEW u \in Users, Upload(u), NEW rd, NEW a
    PROVE  Listed(rd, a) \subseteq Listed(rd, a)'
<1>1. /\ Rows \subseteq Rows' /\ team' = team
      /\ \A c \in Rows : calls'[c] = calls[c]
  BY DEF ListTypes, ListTypeOK, Upload, Rows
<1>2. Managed(a.user)' = Managed(a.user)
  BY <1>1 DEF Managed
<1>3. Seen(a, rd.owner) \subseteq Seen(a, rd.owner)'
  BY <1>1, <1>2 DEF Seen, OwnedBy
<1> QED
  BY <1>1, <1>3, ListSelects DEF Listed

\* A client begins to read a list.
LEMMA BeginInv ==
    ASSUME ListInv, Begin
    PROVE  ListInv'
<1> USE DEF ListInv, ListTypes, ListTypeOK
<1>1. PICK list \in {"workspace", "platform"}, u \in Readers, size \in {0, MaxSize, MaxSize + 1},
           owner \in Users \cup {NoOne}, status \in Statuses \cup {"any"} :
         reader' = [list |-> list, user |-> u, number |-> 1, size |-> size,
                    owner |-> owner, status |-> status]
  BY DEF Begin
<1>2. reader' \in Reader /\ reader'.user \in Users /\ reader'.number = 1
  BY <1>1, CallListAssumption DEF Reader
<1>3. /\ pc' = "resolve" /\ got' = {} /\ moved' = FALSE /\ torn' = FALSE
      /\ UNCHANGED <<calls, team, actor, total, changes>>
      /\ since' = Listed(reader', [user |-> reader'.user, role |-> team[reader'.user].role])
  BY DEF Begin
<1>4. since' = InView'
  BY <1>3, ViewStays DEF InView, Current
<1>5. since' \subseteq 1..MaxCalls
  BY <1>3, ListedCalls
<1>6. ListTypes'
  BY <1>2, <1>3, <1>5 DEF Reader
<1>7. IsFiniteSet(since') /\ \A c \in since' : Cardinality(Newer(since', c)) \in Nat
  <2>1. IsFiniteSet(since')
    BY <1>3, ListedCalls
  <2> QED
    BY <2>1, NewerGrow
<1>8. Offset(reader'.number, Size(reader')) = 0
  BY <1>2, SizeOfPage DEF Offset
<1>9. \A c \in since' :
         ~(Cardinality(Newer(InView', c)) < Offset(reader'.number, Size(reader')))
  BY <1>4, <1>7, <1>8
<1>10. WalkInv'
  BY <1>3, <1>4, <1>9 DEF WalkInv
<1> QED
  BY <1>6, <1>10

\* The actor of a page is who the client is now.
LEMMA ResolveInv ==
    ASSUME ListInv, Resolve
    PROVE  ListInv'
<1> USE DEF ListInv, ListTypes, ListTypeOK
<1>1. /\ pc = "resolve" /\ pc' \in {"count", "refused"}
      /\ pc' = "count" => actor' = Current
      /\ UNCHANGED <<calls, team, reader, total, got, since, moved, torn, changes>>
      /\ actor' \in {actor, Current}
  BY DEF Resolve, Current
<1>2. Current \in [user : Users \cup {NoOne}, role : Roles]
  BY <1>1 DEF Current, Membership
<1>3. ListTypes'
  BY <1>1, <1>2
<1>4. InView' = InView /\ Current' = Current
  BY <1>1, ViewStays DEF InView, Current
<1>5. WalkInv'
  BY <1>1, <1>4 DEF WalkInv
<1> QED
  BY <1>3, <1>5

\* The count is that of the current view.
LEMMA CountInv ==
    ASSUME ListInv, Count
    PROVE  ListInv'
<1> USE DEF ListInv, ListTypes, ListTypeOK
<1>1. /\ pc = "count" /\ pc' = "rows" /\ total' = Cardinality(Listed(reader, actor))
      /\ UNCHANGED <<calls, team, reader, actor, got, since, moved, torn, changes>>
  BY DEF Count
<1>2. total' \in 0..MaxCalls
  BY <1>1, ListedCalls
<1>3. ListTypes'
  BY <1>1, <1>2, SizeOfPage
<1>4. InView' = InView /\ Current' = Current
  BY <1>1, ViewStays DEF InView, Current
<1>5. ~moved => total' = Cardinality(InView)
  BY <1>1 DEF WalkInv, InView
<1>6. WalkInv'
  BY <1>1, <1>4, <1>5 DEF WalkInv
<1> QED
  BY <1>3, <1>6

\* The rows of a page: what lies before the next one is got.
LEMMA ReadRowsInv ==
    ASSUME ListInv, ReadRows
    PROVE  ListInv'
<1> USE DEF ListInv, ListTypes, ListTypeOK
<1> DEFINE number == reader.number
           size == Size(reader)
           page == Page(Listed(reader, actor), number, size)
<1>1. /\ pc = "rows" /\ got' = got \cup page
      /\ UNCHANGED <<calls, team, actor, total, since, moved, torn, changes>>
      /\ \/ reader' = [reader EXCEPT !.number = @ + 1] /\ pc' = "resolve"
         \/ number >= TotalPages(total, size) /\ pc' = "end" /\ reader' = reader
  BY DEF ReadRows
<1>2. number \in Nat \ {0} /\ size \in Nat \ {0}
  BY SizeOfPage DEF Reader
<1>3. page \subseteq 1..MaxCalls
  BY ListedCalls DEF Page
<1>4. /\ reader' \in Reader /\ reader'.user = reader.user /\ reader'.list = reader.list
      /\ reader'.owner = reader.owner /\ reader'.status = reader.status /\ Size(reader') = size
      /\ pc' = "resolve" => reader'.number = number + 1
  BY <1>1, <1>2 DEF Reader, Size
<1>5. ListTypes'
  <2>1. reader'.number \in Nat /\ reader'.size \in 0..(MaxSize + 1)
    BY <1>4 DEF Reader
  <2>2. pc' \in {"resolve", "end"} /\ got' \subseteq 1..MaxCalls
    BY <1>1, <1>3
  <2> QED
    BY <1>1, <1>4, <2>1, <2>2
<1>6. InView' = InView
  BY <1>1, <1>4, ViewStays DEF InView, Current, Listed
<1>7. ASSUME ~moved, NEW c \in since,
             Cardinality(Newer(InView, c)) < Offset(number + 1, size)
      PROVE  c \in got'
  <2>1. c \in InView /\ Listed(reader, actor) = InView
    BY <1>1, <1>7 DEF WalkInv, InView
  <2>2. Cardinality(Newer(InView, c)) \in Nat
    BY ListedCalls, NewerGrow DEF InView
  <2>3. Cardinality(Newer(InView, c)) < Offset(number, size) \/ c \in page
    BY <1>2, <1>7, <2>1, <2>2, PageByPage
  <2> QED
    BY <1>1, <1>7, <2>3 DEF WalkInv
<1>8. ASSUME ~moved, ~torn, pc' = "end"
      PROVE  since \subseteq got'
  <2>1. total = Cardinality(InView) /\ number >= TotalPages(total, size)
    BY <1>1, <1>8 DEF WalkInv
  <2>2. total \in Nat /\ total <= Offset(number + 1, size) /\ Offset(number + 1, size) \in Nat
    BY <1>2, <2>1, LastPage DEF Offset
  <2>3. ASSUME NEW c \in since
        PROVE  c \in got'
    <3>1. c \in InView
      BY <1>1, <1>8 DEF WalkInv
    <3>2. /\ Cardinality(Newer(InView, c)) \in Nat
          /\ Cardinality(Newer(InView, c)) < Cardinality(InView)
      BY <3>1, ListedCalls, NewerFewer DEF InView
    <3> QED
      BY <1>7, <1>8, <2>1, <2>2, <3>2
  <2> QED
    BY <2>3
<1>9. since \subseteq InView' \/ moved
  BY <1>1, <1>6 DEF WalkInv
<1>10. pc' = "resolve" => Offset(reader'.number, Size(reader')) = Offset(number + 1, size)
  BY <1>4
<1>11. ASSUME ~moved, pc' = "resolve", NEW c \in since,
              Cardinality(Newer(InView', c)) < Offset(reader'.number, Size(reader'))
       PROVE  c \in got'
  BY <1>6, <1>7, <1>10, <1>11
<1> HIDE DEF page, size, number
<1>12. WalkInv'
  BY <1>1, <1>8, <1>9, <1>11 DEF WalkInv
<1> QED
  BY <1>5, <1>12

\* A walk goes on while calls come into the view and none is taken from it.
LEMMA WalkGrows ==
    ASSUME ListInv, ListTypes', UNCHANGED <<pc, reader, actor, total, got, since>>,
           ~moved' => ~moved /\ Current' = Current /\ InView \subseteq InView',
           ~moved' /\ ~torn' => ~torn /\ (pc = "rows" => InView' = InView)
    PROVE  WalkInv'
<1> USE DEF ListInv, ListTypes
<1> SUFFICES ASSUME pc \in {"resolve", "count", "rows", "end"}, ~moved'
             PROVE  WalkInv'
  BY DEF WalkInv
<1>1. ~moved /\ Current' = Current /\ InView \subseteq InView'
  OBVIOUS
<1>2. \A c : /\ Cardinality(Newer(InView, c)) <= Cardinality(Newer(InView', c))
             /\ Cardinality(Newer(InView, c)) \in Nat /\ Cardinality(Newer(InView', c)) \in Nat
  <2>1. IsFiniteSet(InView')
    BY <1>1, NextListedFinite DEF InView, Current
  <2> QED
    BY <1>1, <2>1, NewerGrow
<1>3. Offset(reader.number, Size(reader)) \in Nat
  BY SizeOfPage DEF Reader, Offset
<1>4. ASSUME pc # "end", NEW c \in since,
             Cardinality(Newer(InView', c)) < Offset(reader.number, Size(reader))
      PROVE  c \in got
  <2>1. Cardinality(Newer(InView, c)) < Offset(reader.number, Size(reader))
    BY <1>2, <1>3, <1>4
  <2> QED
    BY <1>1, <1>4, <2>1 DEF WalkInv
<1>5. since \subseteq InView'
  BY <1>1 DEF WalkInv
<1>6. pc = "rows" /\ ~torn' => total = Cardinality(InView')
  BY <1>1 DEF WalkInv
<1> QED
  BY <1>1, <1>4, <1>5, <1>6 DEF WalkInv

\* An upload adds a call that comes before all others.
LEMMA UploadInv ==
    ASSUME ListInv, NEW u \in Users, Upload(u)
    PROVE  ListInv'
<1> USE DEF ListInv, ListTypes, ListTypeOK
<1>1. /\ calls' = Append(calls, [owner |-> u, status |-> "queued"]) /\ Len(calls) < MaxCalls
      /\ torn' = (torn \/ pc = "rows")
      /\ UNCHANGED <<team, pc, reader, actor, total, got, since, moved, changes>>
  BY DEF Upload, walk
<1>2. calls' \in Seq(Call) /\ Len(calls') <= MaxCalls
  <2>1. [owner |-> u, status |-> "queued"] \in Call
    BY DEF Call, Statuses
  <2>2. calls' \in Seq(Call) /\ Len(calls') = Len(calls) + 1
    BY <1>1, <2>1
  <2> QED
    BY <1>1, <2>2, CallListAssumption
<1>3. ListTypes'
  BY <1>1, <1>2
<1>4. Current' = Current /\ InView \subseteq InView'
  BY <1>1, ViewGrows DEF InView, Current
<1>5. WalkInv'
  BY <1>1, <1>3, <1>4, WalkGrows
<1> QED
  BY <1>3, <1>5

\* A change of the status of a call leaves a sequence of calls, of the same length.
LEMMA Relabelled ==
    ASSUME NEW cs \in Seq(Call), NEW c \in DOMAIN cs, NEW s \in Statuses \cup {"gone"}
    PROVE  /\ [cs EXCEPT ![c].status = s] \in Seq(Call)
           /\ Len([cs EXCEPT ![c].status = s]) = Len(cs)
<1> DEFINE new == [cs[c] EXCEPT !.status = s]
           relabelled == [cs EXCEPT ![c] = new]
<1>1. cs[c] \in Call
  OBVIOUS
<1>2. new \in Call
  BY <1>1 DEF Call, Statuses
<1>3. relabelled = [cs EXCEPT ![c].status = s]
  OBVIOUS
<1> HIDE DEF new
<1>4. relabelled \in Seq(Call) /\ Len(relabelled) = Len(cs)
  BY <1>2
<1> QED
  BY <1>3, <1>4

\* The worker changes no workspace's list; on the platform's, what it takes from the
\* view and brings into it is noted.
LEMMA ProcessView ==
    ASSUME ListInv, NEW c \in DOMAIN calls, NEW s \in Statuses, Process(c, s)
    PROVE  /\ Current' = Current
           /\ ~moved' => ~moved /\ InView \subseteq InView'
           /\ ~torn' => ~torn /\ (pc = "rows" => InView' \subseteq InView)
<1>1. /\ calls' = [calls EXCEPT ![c].status = s] /\ s \in Transitions[calls[c].status]
      /\ UNCHANGED <<team, pc, reader, actor, total, got, since>>
      /\ moved' = (moved \/ ~(Listed(reader, actor) \subseteq Listed(reader, actor)'))
      /\ torn' = (torn \/ (pc = "rows" /\ ~(Listed(reader, actor)' \subseteq Listed(reader, actor))))
  BY DEF Process, walk
<1>2. Current' = Current
  BY <1>1 DEF Current
<1>3. CASE reader.list = "platform"
  <2>1. InView = Listed(reader, actor) /\ InView' = Listed(reader, actor)'
    BY <1>1, <1>3 DEF InView, Listed
  <2> QED
    BY <1>1, <1>2, <2>1
<1>4. CASE reader.list # "platform"
  <2>1. calls \in Seq(Call) /\ calls[c].status # "gone" /\ s # "gone"
    <3>1. calls \in Seq(Call)
      BY DEF ListInv, ListTypes, ListTypeOK
    <3>2. Transitions["gone"] = {} /\ "gone" \notin Statuses
      BY DEF Transitions, Statuses
    <3> QED
      BY <1>1, <3>1, <3>2
  <2>2. DOMAIN calls' = DOMAIN calls /\ \A d \in DOMAIN calls :
           /\ calls'[d].owner = calls[d].owner
           /\ calls'[d].status = "gone" <=> calls[d].status = "gone"
    BY <1>1, <2>1 DEF Call
  <2>3. Rows' = Rows /\ \A us : OwnedBy(us)' = OwnedBy(us)
    BY <2>2 DEF Rows, OwnedBy
  <2>4. \A u : Managed(u)' = Managed(u)
    BY <1>1 DEF Managed
  <2>5. Seen(Current, reader.owner)' = Seen(Current, reader.owner)
    BY <1>1, <1>2, <2>3, <2>4 DEF Seen
  <2>6. InView' = InView
    BY <1>1, <1>2, <1>4, <2>5, ListSelects DEF InView, Listed
  <2> QED
    BY <1>1, <1>2, <2>6
<1> QED
  BY <1>3, <1>4

\* The worker moves a call.
LEMMA ProcessInv ==
    ASSUME ListInv, NEW c \in DOMAIN calls, NEW s \in Statuses, Process(c, s)
    PROVE  ListInv'
<1> USE DEF ListInv, ListTypes, ListTypeOK
<1>1. /\ calls' = [calls EXCEPT ![c].status = s]
      /\ UNCHANGED <<team, pc, reader, actor, total, got, since>>
      /\ moved' \in BOOLEAN /\ torn' \in BOOLEAN /\ changes' \in 0..MaxChanges
  BY CallListAssumption DEF Process, walk
<1>2. calls' \in Seq(Call) /\ Len(calls') = Len(calls)
  <2>1. s \in Statuses \cup {"gone"} /\ calls \in Seq(Call)
    OBVIOUS
  <2> DEFINE newCalls == [calls EXCEPT ![c].status = s]
  <2>2. newCalls \in Seq(Call) /\ Len(newCalls) = Len(calls)
    BY <2>1, Relabelled
  <2> QED
    BY <1>1, <2>2
<1>3. ListTypes'
  BY <1>1, <1>2
<1>4. WalkInv'
  BY <1>1, <1>3, ProcessView, WalkGrows
<1> QED
  BY <1>3, <1>4

\* After a call was taken from the view of someone, nothing is promised.
LEMMA ChangeInv ==
    ASSUME ListInv, NEW newCalls, NEW newTeam, Change(newCalls, newTeam),
           newCalls \in Seq(Call), Len(newCalls) = Len(calls), newTeam \in [Users -> Membership]
    PROVE  ListInv'
<1> USE DEF ListInv, ListTypes, ListTypeOK
<1>1. /\ calls' = newCalls /\ team' = newTeam /\ moved' = TRUE
      /\ changes' = changes + 1 /\ changes < MaxChanges
      /\ UNCHANGED <<pc, reader, actor, total, got, since, torn>>
  BY DEF Change, walk
<1>2. ListTypes'
  BY <1>1, CallListAssumption
<1>3. WalkInv'
  BY <1>1 DEF WalkInv
<1> QED
  BY <1>2, <1>3

\* A rolled back upload is a change of the view.
LEMMA RollbackInv ==
    ASSUME ListInv, NEW c \in DOMAIN calls, Rollback(c)
    PROVE  ListInv'
<1> DEFINE newCalls == [calls EXCEPT ![c].status = "gone"]
<1>1. newCalls \in Seq(Call) /\ Len(newCalls) = Len(calls)
  BY Relabelled DEF ListInv, ListTypes, ListTypeOK, Statuses
<1>2. team \in [Users -> Membership]
  BY DEF ListInv, ListTypes, ListTypeOK
<1>3. Change(newCalls, team)
  BY DEF Rollback
<1> HIDE DEF newCalls
<1> QED
  BY <1>1, <1>2, <1>3, ChangeInv

\* So is another role, supervisor or end of a membership.
LEMMA ChangeMemberInv ==
    ASSUME ListInv, NEW u \in Users, ChangeMember(u)
    PROVE  ListInv'
<1>1. PICK m \in [role : {"supervisor", "manager"}, active : BOOLEAN, sup : {team[u].sup, NoOne}] :
         Change(calls, [team EXCEPT ![u] = m])
  BY DEF ChangeMember
<1>2. calls \in Seq(Call) /\ team \in [Users -> Membership]
  BY DEF ListInv, ListTypes, ListTypeOK
<1>3. m \in Membership
  BY <1>2 DEF Membership, Roles
<1>4. [team EXCEPT ![u] = m] \in [Users -> Membership]
  BY <1>2, <1>3
<1> QED
  BY <1>1, <1>2, <1>4, ChangeInv

\* Every step of the client and of the others preserves the invariant.
LEMMA ListStepInv == ListInv /\ [ListNext]_listVars => ListInv'
<1> SUFFICES ASSUME ListInv, [ListNext]_listVars PROVE ListInv'
  OBVIOUS
<1>1. CASE UNCHANGED listVars
  <2>1. UNCHANGED <<calls, team, pc, reader, actor, total, got, since, moved, torn, changes>>
    BY <1>1 DEF listVars
  <2>2. InView' = InView /\ Current' = Current
    BY <2>1, ViewStays DEF InView, Current
  <2>3. ListTypes'
    BY <2>1 DEF ListInv, ListTypes, ListTypeOK
  <2>4. WalkInv'
    BY <2>1, <2>2 DEF ListInv, WalkInv
  <2> QED
    BY <2>3, <2>4 DEF ListInv
<1> QED
  BY <1>1, BeginInv, ResolveInv, CountInv, ReadRowsInv, UploadInv, ProcessInv, RollbackInv,
     ChangeMemberInv DEF ListNext, Terminated

\* It holds before the client begins.
LEMMA ListInitInv == ListInit => ListInv
<1> SUFFICES ASSUME ListInit PROVE ListInv
  OBVIOUS
<1> USE CallListAssumption DEF ListInit, NoReader
<1>1. calls = << >> /\ calls \in Seq(Call) /\ Len(calls) = 0
  OBVIOUS
<1>2. actor \in [user : Users \cup {NoOne}, role : Roles]
  BY DEF Roles
<1>3. reader \in Reader
  BY DEF Reader
<1>4. ListTypeOK
  <2>1. team \in [Users -> Membership] /\ pc = "idle"
    OBVIOUS
  <2>2. reader.number = 1 /\ reader.size = 1 /\ 1 \in 0..(MaxSize + 1) /\ 1 \in Nat
    OBVIOUS
  <2>3. total \in 0..MaxCalls /\ changes \in 0..MaxChanges
    OBVIOUS
  <2>4. got \subseteq 1..MaxCalls /\ since \subseteq 1..MaxCalls
    OBVIOUS
  <2>5. moved \in BOOLEAN /\ torn \in BOOLEAN
    OBVIOUS
  <2> QED
    BY ONLY <1>1, <1>2, <2>1, <2>2, <2>3, <2>4, <2>5 DEF ListTypeOK
<1>5. Len(calls) <= MaxCalls /\ pc = "idle"
  BY <1>1
<1>6. ListTypes
  BY ONLY <1>3, <1>4, <1>5 DEF ListTypes
<1>7. WalkInv
  BY DEF WalkInv
<1> QED
  BY <1>6, <1>7 DEF ListInv

\* The inductive invariant of the list holds in every state.
THEOREM ListInvariance == ListSpec => []ListInv
BY ListInitInv, ListStepInv, PTL DEF ListSpec

\* A client that walks to the last page of a list has got every call it could see
\* when it began, unless one was taken from its view or came between the count and
\* the rows of a page, whatever the size of the pages and of the workspace.
THEOREM NothingIsSkipped == ListSpec => []NothingSkipped
<1>1. ListInv => NothingSkipped
  BY DEF ListInv, ListTypes, WalkInv, NothingSkipped
<1> QED
  BY <1>1, ListInvariance, PTL

\* A page shows a manager, and a supervisor, nothing beyond their scope.
THEOREM PagesInScope == ListSpec => PagesStayInScope
<1> DEFINE A == pc = "rows" /\ reader.list = "workspace" =>
          \A c \in got' \ got :
              \/ actor.role \in {"owner", "admin"}
              \/ calls[c].owner = actor.user
              \/ /\ actor.role = "supervisor"
                 /\ team[calls[c].owner].sup = actor.user
                 /\ team[calls[c].owner].active
                 /\ team[calls[c].owner].role = "manager"
<1>1. ListInv /\ [ListNext]_listVars => A
  <2> SUFFICES ASSUME ListInv, [ListNext]_listVars, pc = "rows", reader.list = "workspace",
                      NEW c \in got' \ got,
                      actor.role \notin {"owner", "admin"}
               PROVE  \/ calls[c].owner = actor.user
                      \/ /\ actor.role = "supervisor"
                         /\ team[calls[c].owner].sup = actor.user
                         /\ team[calls[c].owner].active
                         /\ team[calls[c].owner].role = "manager"
    OBVIOUS
  <2>1. got' # got
    OBVIOUS
  <2>2. ReadRows
    BY <2>1 DEF ListNext, listVars, Begin, Resolve, Count, Upload, Process, Change, Rollback,
               ChangeMember, Terminated, walk
  <2>3. c \in Listed(reader, actor)
    BY <2>2 DEF ReadRows, Page
  <2>4. c \in Seen(actor, reader.owner)
    BY <2>3, ListSelects DEF Listed
  <2>5. actor.role \in {"manager", "supervisor"}
    BY DEF ListInv, ListTypes, ListTypeOK, Roles
  <2>6. CASE actor.role = "manager"
    BY <2>4, <2>6 DEF Seen, OwnedBy
  <2>7. CASE actor.role = "supervisor"
    <3>1. calls[c].owner \in {actor.user} \cup Managed(actor.user)
      BY <2>4, <2>7 DEF Seen, OwnedBy
    <3> QED
      BY <2>7, <3>1 DEF Managed
  <2> QED
    BY <2>5, <2>6, <2>7
<1>2. A => [A]_listVars
  OBVIOUS
<1> QED
  BY <1>1, <1>2, ListInvariance, PTL DEF ListSpec, PagesStayInScope

-------------------------------------------------------------------------------
(* The three texts of the rule about who sees which calls. *)

\* h is the function that Renumber computes for n arguments: it takes the largest
\* step of a set last.
Renumbers(places, n, h) ==
    /\ h = [s \in SUBSET (1..n) |-> h[s]]
    /\ \A s \in SUBSET (1..n) :
          h[s] = IF s = {} THEN places ELSE Replace(h[s \ {Max(s)}], n + 1 - Max(s))

\* The largest of some arguments.
LEMMA MaxOfSome ==
    ASSUME NEW n \in 1..3, NEW s \in SUBSET (1..n), s # {}
    PROVE  Max(s) \in s /\ \A y \in s : Max(s) >= y
<1>1. s \in SUBSET {1, 2, 3}
  OBVIOUS
<1>2. \E x \in s : \A y \in s : x >= y
  <2>1. CASE 3 \in s
    BY <1>1, <2>1
  <2>2. CASE 3 \notin s /\ 2 \in s
    BY <1>1, <2>2
  <2>3. CASE 3 \notin s /\ 2 \notin s
    <3>1. s = {1}
      BY <1>1, <2>3
    <3> QED
      BY <3>1
  <2> QED
    BY <2>1, <2>2, <2>3
<1> QED
  BY <1>2 DEF Max

\* There is such a function: three rounds of the replacements, for a condition has
\* three arguments at most, reach it.
LEMMA RenumbersExists ==
    ASSUME NEW places, NEW n \in 1..3
    PROVE  \E h : Renumbers(places, n, h)
<1> DEFINE Round(h) == [s \in SUBSET (1..n) |->
               IF s = {} THEN places ELSE Replace(h[s \ {Max(s)}], n + 1 - Max(s))]
           h0 == [s \in SUBSET (1..n) |-> places]
           h1 == Round(h0)
           h2 == Round(h1)
           h3 == Round(h2)
<1>1. \A s \in SUBSET (1..n) : s # {} => s \ {Max(s)} \in SUBSET (1..n)
  OBVIOUS
<1>2. \A s \in SUBSET (1..n), k \in 1..3 :
         s # {} /\ s \subseteq 1..k => s \ {Max(s)} \subseteq 1..(k - 1)
  <2> SUFFICES ASSUME NEW s \in SUBSET (1..n), NEW k \in 1..3, s # {}, s \subseteq 1..k,
                      NEW y \in s \ {Max(s)}
               PROVE  y \in 1..(k - 1)
    OBVIOUS
  <2>1. Max(s) \in s /\ Max(s) >= y /\ y # Max(s)
    BY MaxOfSome
  <2>2. y \in 1..k /\ Max(s) \in 1..k
    BY <2>1
  <2>3. \A m, z \in 1..k : m >= z /\ z # m => z \in 1..(k - 1)
    OBVIOUS
  <2> QED
    BY <2>1, <2>2, <2>3
<1>3. ASSUME NEW h, NEW j, NEW k \in 1..3,
             \A s \in SUBSET (1..n) : s \subseteq 1..(k - 1) => h[s] = j[s]
      PROVE  \A s \in SUBSET (1..n) : s \subseteq 1..k => Round(h)[s] = Round(j)[s]
  <2> SUFFICES ASSUME NEW s \in SUBSET (1..n), s \subseteq 1..k
               PROVE  Round(h)[s] = Round(j)[s]
    OBVIOUS
  <2>1. CASE s = {}
    BY <2>1
  <2>2. CASE s # {}
    <3>1. h[s \ {Max(s)}] = j[s \ {Max(s)}]
      BY <1>1, <1>2, <1>3, <2>2
    <3> QED
      BY <2>2, <3>1
  <2> QED
    BY <2>1, <2>2
<1> DEFINE Like(h, j, k) == \A s \in SUBSET (1..n) : s \subseteq 1..k => h[s] = j[s]
<1>4. Like(h0, h1, 0)
  <2>1. \A s \in SUBSET (1..n) : s \subseteq 1..0 => s = {}
    OBVIOUS
  <2> QED
    BY <2>1
<1>5. \A h, j : \A k \in 1..3 : Like(h, j, k - 1) => Like(Round(h), Round(j), k)
  BY <1>3
<1>6. \A s \in SUBSET (1..n) : s \subseteq 1..3
  OBVIOUS
<1>7. Round(h3) = [s \in SUBSET (1..n) |-> Round(h3)[s]] /\ h3 = [s \in SUBSET (1..n) |-> h3[s]]
  OBVIOUS
<1>11. \A h, s : s \in SUBSET (1..n) => Round(h)[s] =
          IF s = {} THEN places ELSE Replace(h[s \ {Max(s)}], n + 1 - Max(s))
  OBVIOUS
<1> HIDE DEF h0, Round, Like
<1>8. Like(h1, h2, 1)
  BY <1>4, <1>5
<1>9. Like(h2, h3, 2)
  BY <1>5, <1>8
<1>10. Like(h3, Round(h3), 3)
  BY <1>5, <1>9
<1>12. \A s \in SUBSET (1..n) : h3[s] = Round(h3)[s]
  BY <1>6, <1>10 DEF Like
<1> HIDE DEF h3
<1> QED
  BY <1>7, <1>11, <1>12 DEF Renumbers

\* Renumber is what that function says of all arguments.
LEMMA RenumberIs ==
    ASSUME NEW places, NEW n \in 1..3
    PROVE  \E h : Renumbers(places, n, h) /\ Renumber(places, n) = h[1..n]
<1> DEFINE seq == [i \in 1..n |-> n + 1 - i]
           g == CHOOSE g : g = [s \in SUBSET (1..n) |->
                  IF s = {} THEN places ELSE LET x == Max(s) IN Replace(g[s \ {x}], seq[x])]
<1>1. PICK h : Renumbers(places, n, h)
  BY RenumbersExists
<1>2. \A s \in SUBSET (1..n) : s # {} => seq[Max(s)] = n + 1 - Max(s)
  <2>1. \A s \in SUBSET (1..n) : s # {} => Max(s) \in 1..n
    BY MaxOfSome
  <2> QED
    BY <2>1
<1>3. h = [s \in SUBSET (1..n) |->
             IF s = {} THEN places ELSE LET x == Max(s) IN Replace(h[s \ {x}], seq[x])]
  <2> HIDE DEF seq
  <2> QED
    BY <1>1, <1>2 DEF Renumbers
<1>4. g = [s \in SUBSET (1..n) |->
             IF s = {} THEN places ELSE LET x == Max(s) IN Replace(g[s \ {x}], seq[x])]
  <2> HIDE DEF seq
  <2> QED
    BY <1>3
<1>5. DOMAIN seq = 1..n
  OBVIOUS
<1>6. Renumber(places, n) = g[1..n]
  <2>1. Renumber(places, n) = FoldLeft(Replace, places, seq)
    BY DEF Renumber
  <2> HIDE DEF seq
  <2> QED
    BY <1>5, <2>1 DEF FoldLeft, MapThenFoldSet
<1> HIDE DEF seq, g
<1>7. Renumbers(places, n, g)
  BY <1>2, <1>4 DEF Renumbers
<1> QED
  BY <1>6, <1>7

\* The last argument is replaced first.
LEMMA MaxUpto ==
    ASSUME NEW k \in 1..3
    PROVE  Max(1..k) = k /\ (1..k) \ {k} = 1..(k - 1)
<1>1. Max(1..k) \in 1..k /\ \A y \in 1..k : Max(1..k) >= y
  <2>1. 1..k \in SUBSET (1..k) /\ 1..k # {}
    OBVIOUS
  <2> QED
    BY <2>1, MaxOfSome
<1>2. Max(1..k) >= k
  BY <1>1
<1>3. Max(1..k) = k
  BY <1>1, <1>2
<1> QED
  BY <1>3

\* Renumber replaces the largest placeholder first.
LEMMA RenumberOne ==
    ASSUME NEW places
    PROVE  Renumber(places, 1) = Replace(places, 1)
<1>1. PICK h : Renumbers(places, 1, h) /\ Renumber(places, 1) = h[1..1]
  BY RenumberIs
<1>2. h[1..1] = Replace(h[1..0], 1)
  <2>1. Max(1..1) = 1 /\ (1..1) \ {1} = 1..0 /\ 1..1 # {} /\ 1 + 1 - 1 = 1
    BY MaxUpto
  <2> QED
    BY <1>1, <2>1 DEF Renumbers
<1>3. h[1..0] = places
  BY <1>1 DEF Renumbers
<1> QED
  BY <1>1, <1>2, <1>3

\* With two arguments,
LEMMA RenumberTwo ==
    ASSUME NEW places
    PROVE  Renumber(places, 2) = Replace(Replace(places, 2), 1)
<1>1. PICK h : Renumbers(places, 2, h) /\ Renumber(places, 2) = h[1..2]
  BY RenumberIs
<1>2. h[1..2] = Replace(h[1..1], 1)
  <2>1. Max(1..2) = 2 /\ (1..2) \ {2} = 1..1 /\ 1..2 # {} /\ 2 + 1 - 2 = 1
    BY MaxUpto
  <2> QED
    BY <1>1, <2>1 DEF Renumbers
<1>3. h[1..1] = Replace(h[1..0], 2)
  <2>1. Max(1..1) = 1 /\ (1..1) \ {1} = 1..0 /\ 1..1 # {} /\ 2 + 1 - 1 = 2 /\ 1..1 \subseteq 1..2
    BY MaxUpto
  <2> QED
    BY <1>1, <2>1 DEF Renumbers
<1>4. h[1..0] = places
  BY <1>1 DEF Renumbers
<1> QED
  BY <1>1, <1>2, <1>3, <1>4

\* and with three.
LEMMA RenumberThree ==
    ASSUME NEW places
    PROVE  Renumber(places, 3) = Replace(Replace(Replace(places, 3), 2), 1)
<1>1. PICK h : Renumbers(places, 3, h) /\ Renumber(places, 3) = h[1..3]
  BY RenumberIs
<1>2. h[1..3] = Replace(h[1..2], 1)
  <2>1. Max(1..3) = 3 /\ (1..3) \ {3} = 1..2 /\ 1..3 # {} /\ 3 + 1 - 3 = 1
    BY MaxUpto
  <2> QED
    BY <1>1, <2>1 DEF Renumbers
<1>3. h[1..2] = Replace(h[1..1], 2)
  <2>1. Max(1..2) = 2 /\ (1..2) \ {2} = 1..1 /\ 1..2 # {} /\ 3 + 1 - 2 = 2 /\ 1..2 \subseteq 1..3
    BY MaxUpto
  <2> QED
    BY <1>1, <2>1 DEF Renumbers
<1>4. h[1..1] = Replace(h[1..0], 3)
  <2>1. Max(1..1) = 1 /\ (1..1) \ {1} = 1..0 /\ 1..1 # {} /\ 3 + 1 - 1 = 3 /\ 1..1 \subseteq 1..3
    BY MaxUpto
  <2> QED
    BY <1>1, <2>1 DEF Renumbers
<1>5. h[1..0] = places
  BY <1>1 DEF Renumbers
<1> QED
  BY <1>1, <1>2, <1>3, <1>4, <1>5

\* The placeholders of the detail's query, which has one argument more.
LEMMA DetailPlaces ==
    /\ Renumber(<<1>>, 1) = <<2>>
    /\ Renumber(<<1, 2>>, 2) = <<2, 3>>
    /\ Renumber(<<1, 2, 1, 3>>, 3) = <<2, 3, 2, 4>>
<1>1. Replace(<<1>>, 1) = <<2>>
  BY DEF Replace
<1>2. Replace(<<1, 2>>, 2) = <<1, 3>>
  BY DEF Replace
<1>3. Replace(<<1, 3>>, 1) = <<2, 3>>
  BY DEF Replace
<1>4. Replace(<<1, 2, 1, 3>>, 3) = <<1, 2, 1, 4>>
  BY DEF Replace
<1>5. Replace(<<1, 2, 1, 4>>, 2) = <<1, 3, 1, 4>>
  BY DEF Replace
<1>6. Replace(<<1, 3, 1, 4>>, 1) = <<2, 3, 2, 4>>
  BY DEF Replace
<1>7. Renumber(<<1>>, 1) = <<2>>
  BY <1>1, RenumberOne
<1>8. Renumber(<<1, 2>>, 2) = <<2, 3>>
  BY <1>2, <1>3, RenumberTwo
<1>9. Renumber(<<1, 2, 1, 3>>, 3) = <<2, 3, 2, 4>>
  BY <1>4, <1>5, <1>6, RenumberThree
<1> QED
  BY <1>7, <1>8, <1>9

\* The arguments of the list's query, after the call's id.
LEMMA DetailArguments ==
    ASSUME NEW c, NEW u
    PROVE  /\ (<<c>> \o <<"w">>)[2] = "w"
           /\ (<<c>> \o <<"w", u>>)[2] = "w" /\ (<<c>> \o <<"w", u>>)[3] = u
           /\ (<<c>> \o <<"w", u, u>>)[2] = "w"
           /\ (<<c>> \o <<"w", u, u>>)[3] = u /\ (<<c>> \o <<"w", u, u>>)[4] = u
           /\ Len(<<"w">>) = 1 /\ Len(<<"w", u>>) = 2 /\ Len(<<"w", u, u>>) = 3
OBVIOUS

\* The detail's query selects what the list's does.
LEMMA DetailSelects ==
    ASSUME NEW a, NEW c
    PROVE  Selected(DetailScope(a, c)) = Seen(a, NoOne)
<1> DEFINE scope == ListScope(a, NoOne)
           q == DetailScope(a, c)
           v == Values(q)
<1>0. /\ q.shape = scope.shape /\ q.places = Renumber(scope.places, Len(scope.args))
      /\ q.args = <<c>> \o scope.args
  BY DEF DetailScope
<1>1. CASE a.role \in {"owner", "admin"}
  <2>1. scope.shape = "all" /\ scope.places = <<1>> /\ scope.args = <<"w">>
    BY <1>1 DEF ListScope
  <2> HIDE DEF scope, q
  <2>2. q.places = <<2>> /\ q.args[2] = "w" /\ q.shape = "all"
    BY <1>0, <2>1, DetailArguments, DetailPlaces
  <2>3. v[1] = "w"
    BY <2>2 DEF Values
  <2>4. Selected(q) = Rows
    BY <2>2, <2>3 DEF Selected, Values
  <2> QED
    BY <1>1, <2>4 DEF Seen, q
<1>2. CASE a.role = "manager"
  <2>1. scope.shape = "owner" /\ scope.places = <<1, 2>> /\ scope.args = <<"w", a.user>>
    BY <1>2 DEF ListScope
  <2> HIDE DEF scope, q
  <2>2. /\ q.places = <<2, 3>> /\ q.args[2] = "w" /\ q.args[3] = a.user
        /\ q.shape = "owner"
    BY <1>0, <2>1, DetailArguments, DetailPlaces
  <2>3. v[1] = "w" /\ v[2] = a.user
    BY <2>2 DEF Values
  <2>4. Selected(q) = OwnedBy({a.user})
    BY <2>2, <2>3 DEF Selected, Values
  <2> QED
    BY <1>2, <2>4 DEF Seen, q
<1>3. CASE a.role \notin {"owner", "admin", "manager"}
  <2>1. /\ scope.shape = "team" /\ scope.places = <<1, 2, 1, 3>>
        /\ scope.args = <<"w", a.user, a.user>>
    BY <1>3 DEF ListScope
  <2> HIDE DEF scope, q
  <2>2. /\ q.places = <<2, 3, 2, 4>> /\ q.args[2] = "w"
        /\ q.args[3] = a.user /\ q.args[4] = a.user /\ q.shape = "team"
    BY <1>0, <2>1, DetailArguments, DetailPlaces
  <2>3. v[1] = "w" /\ v[2] = a.user /\ v[3] = "w" /\ v[4] = a.user
    <3>1. /\ DOMAIN q.places = 1..4
          /\ q.places[1] = 2 /\ q.places[2] = 3 /\ q.places[3] = 2 /\ q.places[4] = 4
      <4>1. q.places = <<2, 3, 2, 4>>
        BY <2>2
      <4> QED
        BY ONLY <4>1
    <3> QED
      BY <2>2, <3>1 DEF Values
  <2> HIDE DEF v
  <2>4. Selected(q) = OwnedBy({a.user} \cup Managed(a.user))
    BY <2>2, <2>3 DEF Selected, Values, v
  <2> QED
    BY <1>3, <2>4 DEF Seen, q
<1> QED
  BY <1>1, <1>2, <1>3

\* A count of some calls and one of others of the same list are no more than all.
LEMMA CountsFit ==
    ASSUME NEW S, IsFiniteSet(S), NEW A, NEW B, A \subseteq S, B \subseteq S, A \cap B = {}
    PROVE  Cardinality(A) + Cardinality(B) <= Cardinality(S)
<1>1. IsFiniteSet(A) /\ IsFiniteSet(B) /\ IsFiniteSet(A \cup B)
  BY FS_Subset, A \cup B \subseteq S
<1>2. Cardinality(A \cup B) = Cardinality(A) + Cardinality(B) - Cardinality(A \cap B)
  BY <1>1, FS_Union
<1>3. Cardinality(A \cap B) = 0
  BY FS_EmptySet
<1>4. Cardinality(A \cup B) <= Cardinality(S)
  BY FS_Subset, A \cup B \subseteq S
<1>5. Cardinality(A) \in Nat /\ Cardinality(B) \in Nat
  BY <1>1, FS_CardinalityType
<1> QED
  BY <1>2, <1>3, <1>4, <1>5

\* The list, the detail and the dashboard, three texts of one rule, agree about
\* what an actor sees, in every state of a workspace of any size.
THEOREM ViewsAgree == ListSpec => []ScopesAgree
<1>1. ASSUME ListInv PROVE ScopesAgree
  <2>1. DetailMatchesList
    <3>1. \A a : Selected(ListScope(a, NoOne)) = Seen(a, NoOne)
      BY ListSelects
    <3>2. \A a, c : Selected(DetailScope(a, c)) = Seen(a, NoOne)
      BY DetailSelects
    <3>3. \A a : Seen(a, NoOne) \subseteq Rows
      BY DEF Seen, OwnedBy
    <3> QED
      BY <3>1, <3>2, <3>3 DEF DetailMatchesList, Detailed
  <2>2. DashboardMatchesList
    <3> SUFFICES ASSUME NEW a \in Actors
                 PROVE  /\ Summary(a).total = Cardinality(Selected(ListScope(a, NoOne)))
                        /\ Summary(a).completed + Summary(a).failed <= Summary(a).total
      BY DEF DashboardMatchesList
    <3> DEFINE seen == Selected(ListScope(a, NoOne))
               completed == {c \in seen : calls[c].status = "completed"}
               failed == {c \in seen : calls[c].status = "failed"}
    <3>1. DashboardScope(a) = ListScope(a, NoOne)
      BY DEF DashboardScope, ListScope
    <3>2. Summary(a) = [total |-> Cardinality(seen), completed |-> Cardinality(completed),
                        failed |-> Cardinality(failed)]
      BY <3>1 DEF Summary
    <3>3. IsFiniteSet(seen)
      <4>1. Listed(NoReader, a) = seen
        BY DEF Listed, NoReader
      <4> QED
        BY <1>1, <4>1, ListedCalls DEF ListInv
    <3>4. completed \subseteq seen /\ failed \subseteq seen /\ completed \cap failed = {}
      OBVIOUS
    <3> HIDE DEF seen, completed, failed
    <3>5. Cardinality(completed) + Cardinality(failed) <= Cardinality(seen)
      BY <3>3, <3>4, CountsFit
    <3> QED
      BY <3>2, <3>5 DEF seen
  <2>3. FilterNarrows
    <3> SUFFICES ASSUME NEW a \in Actors, NEW u \in Users, a.role # "manager"
                 PROVE  Seen(a, u) = Seen(a, NoOne) \cap OwnedBy({u})
      BY ListSelects DEF FilterNarrows
    <3>1. u # NoOne
      BY CallListAssumption
    <3> QED
      BY <3>1 DEF Seen, OwnedBy
  <2> QED
    BY <2>1, <2>2, <2>3 DEF ScopesAgree
<1> QED
  BY <1>1, ListInvariance, PTL

===============================================================================
