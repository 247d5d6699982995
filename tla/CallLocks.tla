------------------------------- MODULE CallLocks ------------------------------
(***************************************************************************)
(* callLockRegistry: the per-call mutexes of one worker process, made on   *)
(* demand, counted, and removed from the map when nobody uses them.  The   *)
(* two mutexes (r.mu of the registry and lock.mu of an entry) are taken    *)
(* and released in the steps of the code; what runs between r.mu.Lock and  *)
(* r.mu.Unlock is one step, taken by the goroutine that has r.mu.          *)
(***************************************************************************)
EXTENDS Naturals, FiniteSets

CONSTANTS
    Goroutines,  \* the goroutines that process deliveries
    Calls,       \* call ids
    Entries,     \* addresses of callLock values; free ones are used again
    None

ASSUME LocksAssumption ==
    /\ IsFiniteSet(Goroutines)
    /\ None \notin Goroutines \cup Calls \cup Entries

VARIABLES
    mu,      \* the goroutine that has r.mu, or None
    locks,   \* r.locks: the entry of each call, or None
    refs,    \* lock.refs of each entry
    held,    \* the goroutine that has lock.mu of each entry, or None
    at,      \* where each goroutine is
    call,    \* the call id each goroutine locks
    lock     \* its variable lock, or None

vars == <<mu, locks, refs, held, at, call, lock>>

\* "idle": outside Lock and release; "register": at the first r.mu.Lock;
\* "lookup": has r.mu; "wait": at lock.mu.Lock; "critical": Lock has returned;
\* "unregister": at the second r.mu.Lock; "drop": has r.mu.
Points == {"idle", "register", "lookup", "wait", "critical", "unregister", "drop"}

\* The points at which a goroutine is counted in the refs of its entry.
Counted == {"wait", "critical", "unregister", "drop"}

TypeOK ==
    /\ mu \in Goroutines \cup {None}
    /\ locks \in [Calls -> Entries \cup {None}]
    /\ refs \in [Entries -> Nat]
    /\ held \in [Entries -> Goroutines \cup {None}]
    /\ at \in [Goroutines -> Points]
    /\ call \in [Goroutines -> Calls \cup {None}]
    /\ lock \in [Goroutines -> Entries \cup {None}]

Init ==
    /\ mu = None
    /\ locks = [c \in Calls |-> None]
    /\ refs = [e \in Entries |-> 0]
    /\ held = [e \in Entries |-> None]
    /\ at = [g \in Goroutines |-> "idle"]
    /\ call = [g \in Goroutines |-> None]
    /\ lock = [g \in Goroutines |-> None]

-------------------------------------------------------------------------------
\* An address that nothing refers to: free for a new entry.
Unreferenced(e) ==
    /\ \A c \in Calls : locks[c] # e
    /\ \A g \in Goroutines : lock[g] # e

\* callLocks.Lock(id) is called.
Lock(g, c) ==
    /\ at[g] = "idle"
    /\ at' = [at EXCEPT ![g] = "register"]
    /\ call' = [call EXCEPT ![g] = c]
    /\ UNCHANGED <<mu, locks, refs, held, lock>>

\* r.mu.Lock(), the first of Lock and the one of release.
LockRegistry(g) ==
    /\ at[g] \in {"register", "unregister"}
    /\ mu = None
    /\ mu' = g
    /\ at' = [at EXCEPT ![g] = IF @ = "register" THEN "lookup" ELSE "drop"]
    /\ UNCHANGED <<locks, refs, held, call, lock>>

\* The count is left to the goroutines that have lock.mu: a waiter is not in it.
Lookup_WaiterNotCounted(g) ==
    /\ at[g] = "lookup"
    /\ \E e \in Entries :
          /\ IF locks[call[g]] = None
             THEN Unreferenced(e) /\ refs' = [refs EXCEPT ![e] = 1]
             ELSE e = locks[call[g]] /\ UNCHANGED refs
          /\ locks' = [locks EXCEPT ![call[g]] = e]
          /\ lock' = [lock EXCEPT ![g] = e]
          /\ held' = IF locks[call[g]] = None THEN [held EXCEPT ![e] = None] ELSE held
    /\ mu' = None
    /\ at' = [at EXCEPT ![g] = "wait"]
    /\ UNCHANGED call

\* Find or make the entry, count this goroutine in, r.mu.Unlock().
Lookup(g) ==
    /\ at[g] = "lookup"
    /\ \E e \in Entries :
          /\ IF locks[call[g]] = None
             THEN /\ Unreferenced(e)
                  /\ refs' = [refs EXCEPT ![e] = 1]
                  /\ held' = [held EXCEPT ![e] = None]
             ELSE /\ e = locks[call[g]]
                  /\ refs' = [refs EXCEPT ![e] = @ + 1]
                  /\ UNCHANGED held
          /\ locks' = [locks EXCEPT ![call[g]] = e]
          /\ lock' = [lock EXCEPT ![g] = e]
    /\ mu' = None
    /\ at' = [at EXCEPT ![g] = "wait"]
    /\ UNCHANGED call

\* The mutex of the entry is not waited for.
LockEntry_NoWait(g) ==
    /\ at[g] = "wait"
    /\ held' = [held EXCEPT ![lock[g]] = g]
    /\ at' = [at EXCEPT ![g] = "critical"]
    /\ UNCHANGED <<mu, locks, refs, call, lock>>

\* lock.mu.Lock() returns, and Lock with it.
LockEntry(g) ==
    /\ at[g] = "wait"
    /\ held[lock[g]] = None
    /\ held' = [held EXCEPT ![lock[g]] = g]
    /\ at' = [at EXCEPT ![g] = "critical"]
    /\ UNCHANGED <<mu, locks, refs, call, lock>>

\* The registry is updated but the mutex of the entry stays locked.
UnlockEntry_Forgotten(g) ==
    /\ at[g] = "critical"
    /\ at' = [at EXCEPT ![g] = "unregister"]
    /\ UNCHANGED <<mu, locks, refs, held, call, lock>>

\* release: lock.mu.Unlock().
UnlockEntry(g) ==
    /\ at[g] = "critical"
    /\ held' = [held EXCEPT ![lock[g]] = None]
    /\ at' = [at EXCEPT ![g] = "unregister"]
    /\ UNCHANGED <<mu, locks, refs, call, lock>>

\* Count this goroutine out, remove the entry if it was the last, r.mu.Unlock().
Drop(g) ==
    /\ at[g] = "drop"
    /\ refs' = [refs EXCEPT ![lock[g]] = @ - 1]
    /\ locks' = IF refs[lock[g]] = 1 THEN [locks EXCEPT ![call[g]] = None] ELSE locks
    /\ lock' = [lock EXCEPT ![g] = None]
    /\ call' = [call EXCEPT ![g] = None]
    /\ mu' = None
    /\ at' = [at EXCEPT ![g] = "idle"]
    /\ UNCHANGED held

Step(g) ==
    LockRegistry(g) \/ Lookup(g) \/ LockEntry(g) \/ UnlockEntry(g) \/ Drop(g)

Next == \E g \in Goroutines : Step(g) \/ \E c \in Calls : Lock(g, c)

Spec == Init /\ [][Next]_vars

\* A goroutine that may run does; sync.Mutex hands a lock that is released over
\* and over to every waiter in the end (its starvation mode).
Fairness ==
    \A g \in Goroutines :
        /\ WF_vars(Lookup(g) \/ UnlockEntry(g) \/ Drop(g))
        /\ SF_vars(LockRegistry(g))
        /\ SF_vars(LockEntry(g))

FairSpec == Spec /\ Fairness

-------------------------------------------------------------------------------
\* Whether the goroutine waits for, has, or has yet to give back an entry, the
\* entry is the one the map holds for its call: removing an idle entry never
\* lets a later caller bypass a waiting one.
EntryIsCurrent ==
    \A g \in Goroutines : at[g] \in Counted => locks[call[g]] = lock[g]

\* The deliveries of one call are serialized: two goroutines are between the
\* return of Lock and the call of release only for different calls.
MutualExclusion ==
    \A g, h \in Goroutines :
        at[g] = "critical" /\ at[h] = "critical" /\ call[g] = call[h] => g = h

\* The map holds an entry only for calls in use, so it does not grow with the
\* number of calls ever processed.
NoIdleEntry ==
    \A c \in Calls :
        locks[c] # None =>
            \E g \in Goroutines : at[g] \in Counted /\ call[g] = c

\* The reference counts do both things they are for: they keep an entry as long
\* as it is needed, and no longer.
EntriesAreCounted == EntryIsCurrent /\ NoIdleEntry

\* Every caller of Lock gets the lock.
LockReturns == \A g \in Goroutines : at[g] = "register" ~> at[g] = "critical"

\* The holder of a call's lock, and what each goroutine waits for.
Holder ==
    [c \in Calls |->
        IF \E g \in Goroutines : at[g] = "critical" /\ call[g] = c
        THEN CHOOSE g \in Goroutines : at[g] = "critical" /\ call[g] = c
        ELSE None]

Waiting ==
    [g \in Goroutines |->
        IF at[g] \in {"register", "lookup", "wait"} THEN call[g] ELSE None]

\* The registry implements one mutex per call.
Mutex == INSTANCE CallMutex WITH holder <- Holder, waiting <- Waiting

ImplementsMutex == Mutex!Spec

===============================================================================
