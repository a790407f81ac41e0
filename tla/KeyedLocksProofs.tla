-------------------------- MODULE KeyedLocksProofs --------------------------
(***************************************************************************)
(* Mutual exclusion, and the count of the map, for any keys, any finite    *)
(* set of threads and any supply of lock objects.                          *)
(***************************************************************************)
EXTENDS KeyedLocks, FiniteSetTheorems, TLAPS

Users(k) == {t \in Threads : Uses(t, k)}

(* The stages in which a thread refers to its lock through the map, and    *)
(* those in which the lock is locked on its behalf.                        *)
Attached(t) == pc[t] \in {"waiting", "held", "reading", "unlocking"}
Owns(t) == pc[t] \in {"held", "reading", "unlocking"}

KeyKnown == \A t \in Threads : pc[t] # "idle" => key[t] \in Keys

EntryHasLock == \A k \in Keys : byKey[k].users = 0 <=> byKey[k].lock = NoLock

(* The lease finds in the map the very object it took. *)
SameObject == \A t \in Threads : Attached(t) => /\ mine[t] \in Locks
                                                /\ mine[t] = byKey[key[t]].lock

OwnedIsLocked == \A t \in Threads : Owns(t) => mine[t] \in locked

OneOwner == \A t, u \in Threads : Owns(t) /\ Owns(u) /\ mine[t] = mine[u] => t = u

RightEntry == \A t \in Threads : pc[t] = "unlocking" => entry[t] = mine[t]

(* The types of the variables, without what EntryHasLock says of the map.  *)
Typed ==
    /\ byKey \in [Keys -> [lock : Locks \cup {NoLock}, users : Nat]]
    /\ locked \in SUBSET Locks
    /\ pc \in [Threads -> Stages]
    /\ key \in [Threads -> Keys \cup {NoKey}]
    /\ mine \in [Threads -> Locks \cup {NoLock}]
    /\ entry \in [Threads -> Locks \cup {NoLock}]
    /\ calls \in [Threads -> 0..Parties]

IInv == /\ Typed
        /\ UsersCounted
        /\ KeyKnown
        /\ EntryHasLock
        /\ SameObject
        /\ OwnedIsLocked
        /\ OneOwner
        /\ RightEntry

LEMMA UsersFinite ==
    ASSUME NEW k
    PROVE  IsFiniteSet(Users(k)) /\ Cardinality(Users(k)) \in Nat
<1>1. IsFiniteSet(Users(k))
    BY LocksAssumption, FS_Subset DEF Users
<1> QED
    BY <1>1, FS_CardinalityType

(* An empty count means that nobody uses the key. *)
LEMMA NoUsers ==
    ASSUME UsersCounted, NEW k \in Keys, byKey[k].users = 0, NEW t \in Threads
    PROVE  ~Uses(t, k)
<1>1. Cardinality(Users(k)) = 0
    BY DEF UsersCounted, Users
<1>2. Users(k) = {}
    BY <1>1, UsersFinite, FS_EmptySet
<1> QED
    BY <1>2 DEF Users

(* The last user is alone. *)
LEMMA LastUser ==
    ASSUME Typed, UsersCounted, NEW k \in Keys, byKey[k].users <= 1,
           NEW t \in Threads, NEW u \in Threads, Uses(t, k), Uses(u, k)
    PROVE  t = u
<1>1. (t \in Users(k) /\ u \in Users(k) \ {t}) \/ t = u
    BY DEF Users
<1>2. Cardinality(Users(k)) <= 1
    BY DEF UsersCounted, Users
<1>3. ASSUME t # u PROVE FALSE
    <2>1. /\ IsFiniteSet(Users(k) \ {t})
          /\ Cardinality(Users(k) \ {t}) = Cardinality(Users(k)) - 1
        BY <1>1, <1>3, UsersFinite, FS_RemoveElement
    <2>2. Cardinality(Users(k) \ {t}) = 0
        BY <1>2, <2>1, UsersFinite, FS_CardinalityType
    <2>3. Users(k) \ {t} = {}
        BY <2>1, <2>2, FS_EmptySet
    <2> QED
        BY <1>1, <1>3, <2>3
<1> QED
    BY <1>3

(* Entering counts one user more, and the map keeps counting right. *)
LEMMA EnterCounts ==
    ASSUME Typed, UsersCounted, NEW t \in Threads, NEW k \in Keys, NEW l \in Locks,
           pc[t] = "idle", Enter(k, l), key' = [key EXCEPT ![t] = k],
           NEW s \in {"waiting", "held"}, pc' = [pc EXCEPT ![t] = s]
    PROVE  UsersCounted'
<1> SUFFICES ASSUME NEW j \in Keys
             PROVE  byKey'[j].users = Cardinality(Users(j)')
    BY DEF UsersCounted, Users
<1>1. byKey[j].users = Cardinality(Users(j))
    BY DEF UsersCounted, Users
<1>2. CASE j = k
    <2>1. Users(k)' = Users(k) \cup {t} /\ t \notin Users(k)
        BY DEF Users, Uses, Typed, Stages
    <2>2. Cardinality(Users(k)') = Cardinality(Users(k)) + 1
        BY <2>1, UsersFinite, FS_AddElement
    <2>3. byKey'[k].users = byKey[k].users + 1
        BY DEF Enter, Typed
    <2> QED
        BY <1>1, <1>2, <2>2, <2>3
<1>3. CASE j # k
    <2>1. Users(j)' = Users(j)
        BY <1>3 DEF Users, Uses, Typed, Stages
    <2>2. byKey'[j] = byKey[j]
        BY <1>3 DEF Enter, Typed
    <2> QED
        BY <1>1, <2>1, <2>2
<1> QED
    BY <1>2, <1>3

(* A step that neither enters nor leaves leaves the count right. *)
LEMMA StayCounts ==
    ASSUME UsersCounted, byKey' = byKey,
           \A j \in Keys, u \in Threads : Uses(u, j)' <=> Uses(u, j)
    PROVE  UsersCounted'
<1>1. \A j \in Keys : Users(j)' = Users(j)
    BY DEF Users
<1> QED
    BY <1>1 DEF UsersCounted, Users

(* Leaving counts one user fewer. *)
LEMMA LeaveCounts ==
    ASSUME Typed, UsersCounted, KeyKnown, NEW t \in Threads, Leave(t)
    PROVE  UsersCounted'
<1>0. PICK k \in Keys : k = key[t] /\ Uses(t, k)
    BY DEF KeyKnown, Leave, Goto, Uses, Stages
<1> SUFFICES ASSUME NEW j \in Keys
             PROVE  byKey'[j].users = Cardinality(Users(j)')
    BY DEF UsersCounted, Users
<1>1. byKey[j].users = Cardinality(Users(j))
    BY DEF UsersCounted, Users
<1>2. CASE j = k
    <2>1. Users(k)' = Users(k) \ {t} /\ t \in Users(k)
        BY <1>0 DEF Users, Uses, Leave, Goto, Typed, Stages
    <2>2. Cardinality(Users(k)') = Cardinality(Users(k)) - 1
        BY <2>1, UsersFinite, FS_RemoveElement
    <2>3. Cardinality(Users(k)) # 0
        BY <2>1, UsersFinite, FS_EmptySet
    <2>4. byKey[k].users \in Nat /\ byKey[k].users # 0
        BY <1>0, <1>1, <1>2, <2>3 DEF Typed
    <2>5. byKey'[k] = Left(byKey[k])
        BY <1>0 DEF Leave, Typed
    <2>6. byKey[k] \in [lock : Locks \cup {NoLock}, users : Nat]
        BY DEF Typed
    <2>7. Left(byKey[k]).users = byKey[k].users - 1
        BY <2>4, <2>6 DEF Left, NoEntry
    <2> QED
        BY <1>1, <1>2, <2>1, <2>2, <2>5, <2>7
<1>3. CASE j # k
    <2>1. Users(j)' = Users(j)
        BY <1>0, <1>3 DEF Users, Uses, Leave, Goto, Typed, Stages
    <2>2. byKey'[j] = byKey[j]
        BY <1>0, <1>3 DEF Leave, Typed
    <2> QED
        BY <1>1, <2>1, <2>2
<1> QED
    BY <1>2, <1>3

------------------------------------------------------------------------------
LEMMA Initially == Init => IInv
<1> SUFFICES ASSUME Init PROVE IInv
    OBVIOUS
<1>1. UsersCounted
    <2>1. \A k \in Keys : {t \in Threads : Uses(t, k)} = {}
        BY DEF Init, Uses, Stages
    <2> QED
        BY <2>1, FS_EmptySet DEF UsersCounted, Init, NoEntry
<1>2. Typed
    BY LocksAssumption DEF Init, Typed, NoEntry, Stages
<1> QED
    BY <1>1, <1>2 DEF Init, IInv, KeyKnown, EntryHasLock, SameObject, OwnedIsLocked,
       OneOwner, RightEntry, Attached, Owns, NoEntry

(* What both ways of entering have in common. *)
LEMMA EnterFacts ==
    ASSUME IInv, NEW t \in Threads, NEW k \in Keys, NEW l \in Locks,
           LockFor(k, l), Enter(k, l)
    PROVE  /\ byKey' \in [Keys -> [lock : Locks \cup {NoLock}, users : Nat]]
           /\ EntryHasLock'
           /\ byKey'[k].lock = l
           /\ \A u \in Threads : Attached(u) => byKey'[key[u]].lock = byKey[key[u]].lock
<1>1. byKey[k] \in [lock : Locks \cup {NoLock}, users : Nat]
    BY DEF IInv, Typed
<1>2. byKey'[k] = [lock |-> l, users |-> byKey[k].users + 1]
    BY DEF Enter, IInv, Typed
<1>3. \A j \in Keys : j # k => byKey'[j] = byKey[j]
    BY DEF Enter, IInv, Typed
<1>4. byKey' \in [Keys -> [lock : Locks \cup {NoLock}, users : Nat]]
    BY <1>1 DEF Enter, IInv, Typed
<1>5. EntryHasLock'
    BY <1>1, <1>2, <1>3, LocksAssumption DEF EntryHasLock, IInv
<1>6. ASSUME NEW u \in Threads, Attached(u)
      PROVE  byKey'[key[u]].lock = byKey[key[u]].lock
    <2>1. key[u] \in Keys
        BY <1>6 DEF IInv, KeyKnown, Attached
    <2>2. CASE key[u] = k
        <3>1. Uses(u, k)
            BY <1>6, <2>2 DEF Uses, Attached, Stages
        <3>2. byKey[k].users # 0
            BY <3>1, NoUsers DEF IInv
        <3> QED
            BY <1>2, <2>2, <3>2 DEF LockFor
    <2> QED
        BY <1>3, <2>1, <2>2
<1> QED
    BY <1>2, <1>4, <1>5, <1>6

LEMMA TryTakeStep ==
    ASSUME IInv, NEW t \in Threads, NEW k \in Keys, TryTake(t, k)
    PROVE  IInv'
<1> PICK l \in Locks : /\ LockFor(k, l)
                       /\ l \notin locked
                       /\ Goto(t, "idle", "held")
                       /\ locked' = locked \cup {l}
                       /\ Enter(k, l)
                       /\ key' = [key EXCEPT ![t] = k]
                       /\ mine' = [mine EXCEPT ![t] = l]
                       /\ calls' = [calls EXCEPT ![t] = Parties]
                       /\ UNCHANGED entry
    BY DEF TryTake
<1>1. UsersCounted'
    BY EnterCounts DEF IInv, Goto
<1>2. /\ byKey' \in [Keys -> [lock : Locks \cup {NoLock}, users : Nat]]
      /\ EntryHasLock'
      /\ byKey'[k].lock = l
      /\ \A u \in Threads : Attached(u) => byKey'[key[u]].lock = byKey[key[u]].lock
    BY EnterFacts
<1>3. Typed'
    BY <1>2, LocksAssumption DEF IInv, Typed, Goto, Stages
<1>4. /\ pc' = [pc EXCEPT ![t] = "held"]
      /\ \A u \in Threads \ {t} : key'[u] = key[u] /\ mine'[u] = mine[u] /\ pc'[u] = pc[u]
      /\ key'[t] = k /\ mine'[t] = l /\ pc'[t] = "held"
    BY DEF Goto, IInv, Typed
<1>5. KeyKnown'
    BY <1>4 DEF IInv, KeyKnown
<1>6. SameObject'
    BY <1>2, <1>4 DEF IInv, SameObject, Attached
<1>7. OwnedIsLocked'
    BY <1>4 DEF IInv, OwnedIsLocked, Owns
<1>8. OneOwner'
    BY <1>4 DEF IInv, OneOwner, OwnedIsLocked, Owns
<1>9. RightEntry'
    BY <1>4 DEF IInv, RightEntry
<1> QED
    BY <1>1, <1>2, <1>3, <1>5, <1>6, <1>7, <1>8, <1>9 DEF IInv

LEMMA QueueStep ==
    ASSUME IInv, NEW t \in Threads, NEW k \in Keys, Queue(t, k)
    PROVE  IInv'
<1> PICK l \in Locks : /\ LockFor(k, l)
                       /\ Goto(t, "idle", "waiting")
                       /\ Enter(k, l)
                       /\ key' = [key EXCEPT ![t] = k]
                       /\ mine' = [mine EXCEPT ![t] = l]
                       /\ UNCHANGED <<locked, entry, calls>>
    BY DEF Queue
<1>1. UsersCounted'
    BY EnterCounts DEF IInv, Goto
<1>2. /\ byKey' \in [Keys -> [lock : Locks \cup {NoLock}, users : Nat]]
      /\ EntryHasLock'
      /\ byKey'[k].lock = l
      /\ \A u \in Threads : Attached(u) => byKey'[key[u]].lock = byKey[key[u]].lock
    BY EnterFacts
<1>3. Typed'
    BY <1>2 DEF IInv, Typed, Goto, Stages
<1>4. /\ \A u \in Threads \ {t} : key'[u] = key[u] /\ mine'[u] = mine[u] /\ pc'[u] = pc[u]
      /\ key'[t] = k /\ mine'[t] = l /\ pc'[t] = "waiting"
    BY DEF Goto, IInv, Typed
<1>5. KeyKnown'
    BY <1>4 DEF IInv, KeyKnown
<1>6. SameObject'
    BY <1>2, <1>4 DEF IInv, SameObject, Attached
<1>7. OwnedIsLocked'
    BY <1>4 DEF IInv, OwnedIsLocked, Owns
<1>8. OneOwner'
    BY <1>4 DEF IInv, OneOwner, Owns
<1>9. RightEntry'
    BY <1>4 DEF IInv, RightEntry
<1> QED
    BY <1>1, <1>2, <1>3, <1>5, <1>6, <1>7, <1>8, <1>9 DEF IInv

LEMMA AcquireStep ==
    ASSUME IInv, NEW t \in Threads, Acquire(t)
    PROVE  IInv'
<1>1. UsersCounted'
    BY StayCounts DEF IInv, Typed, Acquire, Goto, Uses, Stages
<1>2. Typed'
    BY LocksAssumption DEF IInv, Typed, Acquire, Goto, Stages, SameObject, Attached
<1>3. KeyKnown' /\ EntryHasLock' /\ SameObject' /\ RightEntry'
    BY DEF IInv, Typed, Acquire, Goto, KeyKnown, EntryHasLock, SameObject, RightEntry,
       Attached
<1>4. OwnedIsLocked' /\ OneOwner'
    BY DEF IInv, Typed, Acquire, Goto, OwnedIsLocked, OneOwner, Owns
<1> QED
    BY <1>1, <1>2, <1>3, <1>4 DEF IInv

LEMMA InterruptStep ==
    ASSUME IInv, NEW t \in Threads, Interrupt(t)
    PROVE  IInv'
<1>1. UsersCounted'
    BY StayCounts DEF IInv, Typed, Interrupt, Goto, Uses, Stages
<1> QED
    BY <1>1 DEF IInv, Typed, Interrupt, Goto, KeyKnown, EntryHasLock, SameObject,
       RightEntry, OwnedIsLocked, OneOwner, Attached, Owns, Stages

LEMMA ReleaseStep ==
    ASSUME IInv, NEW t \in Threads, Release(t)
    PROVE  IInv'
<1>1. /\ UNCHANGED <<byKey, locked, key, mine, entry>>
      /\ \A u \in Threads : pc'[u] = pc[u] \/ (pc[u] = "held" /\ pc'[u] = "reading")
    BY DEF Release, IInv, Typed
<1>2. UsersCounted'
    BY <1>1, StayCounts DEF IInv, Uses, Stages
<1>3. Typed'
    BY LocksAssumption DEF IInv, Typed, Release, Stages
<1> QED
    BY <1>1, <1>2, <1>3 DEF IInv, KeyKnown, EntryHasLock, SameObject,
       RightEntry, OwnedIsLocked, OneOwner, Attached, Owns

LEMMA ReadEntryStep ==
    ASSUME IInv, NEW t \in Threads, ReadEntry(t)
    PROVE  IInv'
<1>1. UsersCounted'
    BY StayCounts DEF IInv, Typed, ReadEntry, Goto, Uses, Stages
<1>2. key[t] \in Keys /\ byKey[key[t]].lock = mine[t] /\ mine[t] \in Locks
    BY DEF IInv, ReadEntry, Goto, KeyKnown, SameObject, Attached
<1>3. Typed'
    BY <1>2 DEF IInv, Typed, ReadEntry, Goto, Stages
<1>4. RightEntry'
    BY <1>2 DEF IInv, Typed, ReadEntry, Goto, RightEntry
<1> QED
    BY <1>1, <1>3, <1>4 DEF IInv, Typed, ReadEntry, Goto, KeyKnown, EntryHasLock,
       SameObject, OwnedIsLocked, OneOwner, Attached, Owns

LEMMA UnlockStep ==
    ASSUME IInv, NEW t \in Threads, Unlock(t)
    PROVE  IInv'
<1>1. UsersCounted'
    BY StayCounts DEF IInv, Typed, Unlock, Goto, Uses, Stages
<1>2. entry[t] = mine[t]
    BY DEF IInv, Unlock, Goto, RightEntry
<1>3. Typed'
    BY DEF IInv, Typed, Unlock, Goto, Stages
<1>4. OwnedIsLocked'
    BY <1>2 DEF IInv, Typed, Unlock, Goto, OwnedIsLocked, OneOwner, Owns
<1> QED
    BY <1>1, <1>3, <1>4 DEF IInv, Typed, Unlock, Goto, KeyKnown, EntryHasLock,
       SameObject, RightEntry, OneOwner, Attached, Owns

LEMMA LeaveStep ==
    ASSUME IInv, NEW t \in Threads, Leave(t)
    PROVE  IInv'
<1>1. UsersCounted'
    BY LeaveCounts DEF IInv
<1>2. PICK k \in Keys : k = key[t] /\ Uses(t, k)
    BY DEF IInv, KeyKnown, Leave, Goto, Uses, Stages
<1>3. byKey[k] \in [lock : Locks \cup {NoLock}, users : Nat]
    BY DEF IInv, Typed
<1>4. /\ byKey'[k] = Left(byKey[k])
      /\ \A j \in Keys : j # k => byKey'[j] = byKey[j]
    BY <1>2 DEF IInv, Typed, Leave
<1>5. Left(byKey[k]) \in [lock : Locks \cup {NoLock}, users : Nat]
    BY <1>3 DEF Left, NoEntry
<1>6. Typed'
    BY <1>2, <1>5 DEF IInv, Typed, Leave, Goto, Stages
<1>7. EntryHasLock'
    BY <1>3, <1>4 DEF IInv, EntryHasLock, Left, NoEntry
<1>8. \A u \in Threads \ {t} : key'[u] = key[u] /\ mine'[u] = mine[u] /\ pc'[u] = pc[u]
    BY DEF IInv, Typed, Leave, Goto
<1>9. pc'[t] = "left"
    BY DEF IInv, Typed, Leave, Goto
<1>10. SameObject'
    <2> SUFFICES ASSUME NEW u \in Threads, Attached(u)'
                 PROVE  mine'[u] \in Locks /\ mine'[u] = byKey'[key'[u]].lock
        BY DEF SameObject
    <2>1. u # t /\ Attached(u)
        BY <1>8, <1>9 DEF Attached
    <2>2. mine[u] \in Locks /\ mine[u] = byKey[key[u]].lock /\ key[u] \in Keys
        BY <2>1 DEF IInv, SameObject, KeyKnown, Attached
    <2>3. CASE key[u] = k
        <3>1. Uses(u, k)
            BY <2>1, <2>3 DEF Attached, Uses, Stages
        <3>2. ~(byKey[k].users <= 1)
            BY <1>2, <2>1, <3>1, LastUser DEF IInv
        <3>3. byKey'[k].lock = byKey[k].lock
            BY <1>3, <1>4, <3>2 DEF Left
        <3> QED
            BY <1>8, <2>1, <2>2, <2>3, <3>3
    <2> QED
        BY <1>4, <1>8, <2>1, <2>2, <2>3
<1>11. KeyKnown' /\ OwnedIsLocked' /\ OneOwner' /\ RightEntry'
    BY <1>8, <1>9 DEF IInv, Typed, Leave, Goto, KeyKnown, OwnedIsLocked, OneOwner,
       RightEntry, Owns
<1> QED
    BY <1>1, <1>6, <1>7, <1>10, <1>11 DEF IInv

LEMMA RetireStep ==
    ASSUME IInv, NEW t \in Threads, Retire(t)
    PROVE  IInv'
<1>1. /\ UNCHANGED <<byKey, locked, mine, entry, calls>>
      /\ \A u \in Threads \ {t} : key'[u] = key[u] /\ pc'[u] = pc[u]
      /\ pc[t] = "left" /\ pc'[t] = "idle"
    BY DEF Retire, Goto, IInv, Typed
<1>2. UsersCounted'
    BY <1>1, StayCounts DEF IInv, Uses, Stages
<1>3. Typed'
    BY DEF IInv, Typed, Retire, Goto, Stages
<1> QED
    BY <1>1, <1>2, <1>3 DEF IInv, KeyKnown, EntryHasLock, SameObject,
       RightEntry, OwnedIsLocked, OneOwner, Attached, Owns

LEMMA StepKeepsIInv == IInv /\ [Next]_vars => IInv'
<1> SUFFICES ASSUME IInv, [Next]_vars PROVE IInv'
    OBVIOUS
<1>1. CASE Next
    BY <1>1, TryTakeStep, QueueStep, AcquireStep, InterruptStep, ReleaseStep,
       ReadEntryStep, UnlockStep, LeaveStep, RetireStep DEF Next, Step
<1>2. CASE UNCHANGED vars
    BY <1>2 DEF vars, IInv, Typed, UsersCounted, KeyKnown, EntryHasLock, SameObject,
       OwnedIsLocked, OneOwner, RightEntry, Attached, Owns, Uses
<1> QED
    BY <1>1, <1>2

LEMMA Invariant == Spec => []IInv
<1> QED
    BY Initially, StepKeepsIInv, PTL DEF Spec

(* Every variable keeps its type. *)
THEOREM TypeCorrect == Spec => []TypeOK
<1>1. IInv => TypeOK
    <2> SUFFICES ASSUME IInv, NEW k \in Keys
                 PROVE  byKey[k] \in {NoEntry} \cup [lock : Locks, users : Nat \ {0}]
        BY DEF IInv, Typed, TypeOK
    <2>1. /\ byKey[k] \in [lock : Locks \cup {NoLock}, users : Nat]
          /\ byKey[k].users = 0 <=> byKey[k].lock = NoLock
        BY DEF IInv, Typed, EntryHasLock
    <2> QED
        BY <2>1 DEF NoEntry
<1> QED
    BY <1>1, Invariant, PTL

(* Two threads never hold one key at the same time: they would hold the    *)
(* one lock object the map has for it.                                     *)
LEMMA IInvExcludes == IInv => MutualExclusion
<1> SUFFICES ASSUME IInv, NEW t \in Threads, NEW u \in Threads, NEW k \in Keys,
                    Holds(t, k), Holds(u, k)
             PROVE  t = u
    BY DEF MutualExclusion
<1>1. mine[t] = byKey[k].lock /\ mine[u] = byKey[k].lock
    BY DEF IInv, SameObject, Attached, Holds
<1> QED
    BY <1>1 DEF IInv, OneOwner, Owns, Holds

THEOREM Exclusion == Spec => []MutualExclusion
<1> QED
    BY IInvExcludes, Invariant, PTL

(* The map counts exactly the users of a key, so it neither leaks an entry *)
(* nor drops one that is waited for.                                       *)
THEOREM Counting == Spec => []UsersCounted
<1>1. IInv => UsersCounted
    BY DEF IInv
<1> QED
    BY <1>1, Invariant, PTL

------------------------------------------------------------------------------
(* The locks implement one mutex per key: taking is Take, the first        *)
(* release() is Give, and everything else is invisible.                    *)
holders == [k \in Keys |-> {t \in Threads : Holds(t, k)}]

(* A key is taken only while nobody holds it. *)
LEMMA NobodyHolds ==
    ASSUME IInv, NEW k \in Keys, NEW l, LockFor(k, l), l \notin locked
    PROVE  \A u \in Threads : ~Holds(u, k)
<1> SUFFICES ASSUME NEW u \in Threads, Holds(u, k) PROVE FALSE
    OBVIOUS
<1>1. Uses(u, k)
    BY DEF Uses, Holds, Stages
<1>2. l = byKey[k].lock
    BY <1>1, NoUsers DEF IInv, LockFor
<1>3. mine[u] = byKey[k].lock /\ mine[u] \in locked
    BY DEF IInv, SameObject, OwnedIsLocked, Attached, Owns, Holds
<1> QED
    BY <1>2, <1>3

LEMMA TakeMaps ==
    ASSUME IInv, NEW t \in Threads, NEW k \in Keys, \A u \in Threads : ~Holds(u, k),
           pc' = [pc EXCEPT ![t] = "held"], key'[t] = k, pc[t] # "held",
           \A u \in Threads \ {t} : key'[u] = key[u]
    PROVE  Mutex!Take(t, k)
<1>1. \A u \in Threads \ {t}, j \in Keys : Holds(u, j)' <=> Holds(u, j)
    BY DEF IInv, Typed, Holds
<1>2. \A j \in Keys : Holds(t, j)' <=> j = k
    BY DEF IInv, Typed, Holds
<1>3. \A j \in Keys : ~Holds(t, j)
    BY DEF Holds
<1>4. holders' = [holders EXCEPT ![k] = {t}]
    BY <1>1, <1>2, <1>3 DEF holders
<1> QED
    BY <1>4 DEF Mutex!Take, holders

LEMMA GiveMaps ==
    ASSUME IInv, NEW t \in Threads, Release(t), pc[t] = "held"
    PROVE  \E k \in Keys : Mutex!Give(t, k)
<1>1. PICK k \in Keys : k = key[t]
    BY DEF IInv, KeyKnown
<1>2. Holds(t, k)
    BY <1>1 DEF Holds
<1>3. {u \in Threads : Holds(u, k)} = {t}
    BY <1>2, IInvExcludes DEF MutualExclusion
<1>4. \A u \in Threads \ {t}, j \in Keys : Holds(u, j)' <=> Holds(u, j)
    BY DEF IInv, Typed, Release, Holds
<1>5. \A j \in Keys : ~Holds(t, j)'
    BY DEF IInv, Typed, Release, Holds
<1>6. \A j \in Keys : j # k => ~Holds(t, j)
    BY <1>1 DEF Holds
<1>7. \A j \in Keys : {u \in Threads : Holds(u, j)}' =
                        IF j = k THEN {} ELSE {u \in Threads : Holds(u, j)}
    BY <1>3, <1>4, <1>5, <1>6
<1>8. holders' = [holders EXCEPT ![k] = {}]
    BY <1>7 DEF holders
<1> QED
    BY <1>3, <1>8 DEF Mutex!Give, holders

LEMMA HiddenStep ==
    ASSUME \A u \in Threads, j \in Keys : Holds(u, j)' <=> Holds(u, j)
    PROVE  holders' = holders
BY DEF holders

LEMMA StepMaps == IInv /\ [Next]_vars => [Mutex!Next]_holders
<1> SUFFICES ASSUME IInv, [Next]_vars PROVE [Mutex!Next]_holders
    OBVIOUS
<1>1. ASSUME NEW t \in Threads, NEW k \in Keys, TryTake(t, k)
      PROVE  Mutex!Take(t, k)
    <2> PICK l \in Locks : /\ LockFor(k, l)
                           /\ l \notin locked
                           /\ Goto(t, "idle", "held")
                           /\ key' = [key EXCEPT ![t] = k]
        BY <1>1 DEF TryTake
    <2>1. \A u \in Threads : ~Holds(u, k)
        BY NobodyHolds
    <2> QED
        BY <2>1, TakeMaps DEF Goto, IInv, Typed
<1>2. ASSUME NEW t \in Threads, NEW k \in Keys, Queue(t, k)
      PROVE  holders' = holders
    BY <1>2, HiddenStep DEF Queue, Goto, Holds, IInv, Typed
<1>3. ASSUME NEW t \in Threads, Acquire(t)
      PROVE  \E k \in Keys : Mutex!Take(t, k)
    <2>1. PICK k \in Keys : k = key[t]
        BY <1>3 DEF Acquire, Goto, IInv, KeyKnown
    <2>2. ASSUME NEW u \in Threads, Holds(u, k) PROVE FALSE
        <3>1. mine[t] = byKey[k].lock
            BY <1>3, <2>1 DEF Acquire, Goto, IInv, SameObject, Attached
        <3>2. mine[u] = byKey[k].lock /\ mine[u] \in locked
            BY <2>2 DEF IInv, SameObject, OwnedIsLocked, Attached, Owns, Holds
        <3> QED
            BY <1>3, <3>1, <3>2 DEF Acquire
    <2> QED
        BY <1>3, <2>1, <2>2, TakeMaps DEF Acquire, Goto, IInv, Typed
<1>4. ASSUME NEW t \in Threads, Release(t)
      PROVE  holders' = holders \/ \E k \in Keys : Mutex!Give(t, k)
    <2>1. CASE pc[t] = "held"
        BY <1>4, <2>1, GiveMaps
    <2>2. CASE pc[t] # "held"
        BY <1>4, <2>2, HiddenStep DEF Release, Holds
    <2> QED
        BY <2>1, <2>2
<1>5. ASSUME NEW t \in Threads,
             Interrupt(t) \/ ReadEntry(t) \/ Unlock(t) \/ Leave(t) \/ Retire(t)
      PROVE  holders' = holders
    BY <1>5, HiddenStep DEF Interrupt, ReadEntry, Unlock, Leave, Retire, Goto, Holds,
       IInv, Typed
<1>6. ASSUME UNCHANGED vars PROVE holders' = holders
    BY <1>6, HiddenStep DEF vars, Holds
<1> QED
    BY <1>1, <1>2, <1>3, <1>4, <1>5, <1>6 DEF Next, Step, Mutex!Next

LEMMA InitMaps == Init => Mutex!Init
BY DEF Init, Mutex!Init, Holds

THEOREM Implements == Spec => IsMutex
<1>1. IInv /\ [Next]_vars => [Mutex!Next]_([k \in Keys |-> {t \in Threads : Holds(t, k)}])
    BY StepMaps DEF holders
<1> QED
    BY <1>1, InitMaps, Invariant, PTL DEF Spec, IsMutex, Mutex!Spec

=============================================================================
