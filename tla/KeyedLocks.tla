----------------------------- MODULE KeyedLocks -----------------------------
(***************************************************************************)
(* The daemon's locks, one per conversation and one per card               *)
(* (src/athena/daemon/server.py, ThreadLease and KeyedLocks).              *)
(*                                                                         *)
(* The map knows a key only while somebody uses it, so a lock object comes *)
(* into being with its first user and is forgotten with its last; a lease  *)
(* remembers its key and not its lock, and finds the lock again in the map *)
(* when it is released.  A block under the guard is one action; a lock is  *)
(* never waited for under the guard.                                       *)
(***************************************************************************)
EXTENDS Integers, FiniteSets

CONSTANTS Keys,       \* conversation ids, or approval ids
          Threads,    \* the request threads of the daemon
          Locks,      \* the threading.Lock objects that memory has room for
          NoLock,     \* None
          NoKey,
          Parties     \* how many parties may release one lease

ASSUME LocksAssumption == /\ IsFiniteSet(Threads)
                          /\ NoLock \notin Locks
                          /\ NoKey \notin Keys
                          /\ Parties \in Nat \ {0}

VARIABLES byKey,      \* _by_key: the lock of a key and how many use it; 0 is no entry
          locked,     \* the lock objects that are taken
          pc,         \* where each thread is
          key,        \* the key its lease is for
          mine,       \* the lock object it took, or waits for
          entry,      \* what _release read from the map
          calls       \* how many calls of release() are still to come

vars == <<byKey, locked, pc, key, mine, entry, calls>>

Stages == {"idle", "waiting", "held", "reading", "unlocking", "leaving", "left"}

NoEntry == [lock |-> NoLock, users |-> 0]

Init == /\ byKey = [k \in Keys |-> NoEntry]
        /\ locked = {}
        /\ pc = [t \in Threads |-> "idle"]
        /\ key = [t \in Threads |-> NoKey]
        /\ mine = [t \in Threads |-> NoLock]
        /\ entry = [t \in Threads |-> NoLock]
        /\ calls = [t \in Threads |-> 0]

Goto(t, from, to) == /\ pc[t] = from
                     /\ pc' = [pc EXCEPT ![t] = to]

(* threading.Lock() makes an object nobody refers to.                      *)
Unreferenced(l) == /\ l \notin locked
                   /\ \A k \in Keys : byKey[k].lock # l
                   /\ \A t \in Threads : mine[t] # l /\ entry[t] # l

(* self._by_key.get(key, (threading.Lock(), 0)): the lock of the key, or a *)
(* new one.                                                                *)
LockFor(k, l) == IF byKey[k].users = 0 THEN Unreferenced(l) ELSE l = byKey[k].lock

Enter(k, l) == byKey' = [byKey EXCEPT ![k] = [lock |-> l, users |-> @.users + 1]]

(* try_take: refused, without a trace, while somebody holds the key. *)
TryTake(t, k) ==
    \E l \in Locks :
        /\ LockFor(k, l)
        /\ l \notin locked
        /\ Goto(t, "idle", "held")
        /\ locked' = locked \cup {l}
        /\ Enter(k, l)
        /\ key' = [key EXCEPT ![t] = k]
        /\ mine' = [mine EXCEPT ![t] = l]
        /\ calls' = [calls EXCEPT ![t] = Parties]
        /\ UNCHANGED entry

(* take, under the guard: the waiter is counted before it waits. *)
Queue(t, k) ==
    \E l \in Locks :
        /\ LockFor(k, l)
        /\ Goto(t, "idle", "waiting")
        /\ Enter(k, l)
        /\ key' = [key EXCEPT ![t] = k]
        /\ mine' = [mine EXCEPT ![t] = l]
        /\ UNCHANGED <<locked, entry, calls>>

(* take, lock.acquire() returns. *)
Acquire(t) == /\ Goto(t, "waiting", "held")
              /\ mine[t] \notin locked
              /\ locked' = locked \cup {mine[t]}
              /\ calls' = [calls EXCEPT ![t] = Parties]
              /\ UNCHANGED <<byKey, key, mine, entry>>

(* take, an exception in the wait: the waiter leaves without the lock. *)
Interrupt(t) == /\ Goto(t, "waiting", "leaving")
                /\ UNCHANGED <<byKey, locked, key, mine, entry, calls>>

(* Mutant: every call of release() releases. *)
ReleaseAgain(t) ==
    /\ calls[t] > 0
    /\ calls' = [calls EXCEPT ![t] = @ - 1]
    /\ pc' = IF pc[t] \in {"held", "left"} THEN [pc EXCEPT ![t] = "reading"] ELSE pc
    /\ UNCHANGED <<byKey, locked, key, mine, entry>>

(* ThreadLease.release: the stream as it ends, the handler when a stream   *)
(* never started; only the first call of either does anything.             *)
Release(t) ==
    /\ calls[t] > 0
    /\ calls' = [calls EXCEPT ![t] = @ - 1]
    /\ pc' = IF pc[t] = "held" THEN [pc EXCEPT ![t] = "reading"] ELSE pc
    /\ UNCHANGED <<byKey, locked, key, mine, entry>>

(* _release, under the guard: find the key's lock again. *)
ReadEntry(t) == /\ Goto(t, "reading", "unlocking")
                /\ entry' = [entry EXCEPT ![t] = byKey[key[t]].lock]
                /\ UNCHANGED <<byKey, locked, key, mine, calls>>

(* Mutant: the lock is forgotten and stays locked. *)
UnlockNothing(t) == /\ Goto(t, "unlocking", "leaving")
                    /\ entry' = [entry EXCEPT ![t] = NoLock]
                    /\ UNCHANGED <<byKey, locked, key, mine, calls>>

(* _release, outside it: entry[0].release(). *)
Unlock(t) == /\ Goto(t, "unlocking", "leaving")
             /\ locked' = locked \ {entry[t]}
             /\ entry' = [entry EXCEPT ![t] = NoLock]
             /\ UNCHANGED <<byKey, key, mine, calls>>

(* Mutants: the key is forgotten before its last user is gone, or never.   *)
LeftEarly(e) == IF e.users <= 2 THEN NoEntry ELSE [e EXCEPT !.users = @ - 1]
LeftNever(e) == [e EXCEPT !.users = @ - 1]

(* _leave: one user fewer, and the entry goes with its last.               *)
Left(e) == IF e.users <= 1 THEN NoEntry ELSE [e EXCEPT !.users = @ - 1]

Leave(t) == /\ Goto(t, "leaving", "left")
            /\ byKey' = [byKey EXCEPT ![key[t]] = Left(@)]
            /\ mine' = [mine EXCEPT ![t] = NoLock]
            /\ UNCHANGED <<locked, key, entry, calls>>

(* The route is over once everybody who may release the lease has tried. *)
Retire(t) == /\ calls[t] = 0
             /\ Goto(t, "left", "idle")
             /\ key' = [key EXCEPT ![t] = NoKey]
             /\ UNCHANGED <<byKey, locked, mine, entry, calls>>

Step(t) == Acquire(t) \/ Release(t) \/ ReadEntry(t) \/ Unlock(t) \/ Leave(t) \/ Retire(t)

Next == \E t \in Threads :
            Step(t) \/ Interrupt(t) \/ \E k \in Keys : TryTake(t, k) \/ Queue(t, k)

Spec == Init /\ [][Next]_vars

(* A thread that can go on does: turns and answers end, and a free lock    *)
(* that is waited for wakes one of its waiters.  Which waiter is not said. *)
FairSpec == Spec /\ \A t \in Threads : WF_vars(Step(t))

------------------------------------------------------------------------------
(* Properties *)

TypeOK ==
    /\ byKey \in [Keys -> {NoEntry} \cup [lock : Locks, users : Nat \ {0}]]
    /\ locked \in SUBSET Locks
    /\ pc \in [Threads -> Stages]
    /\ key \in [Threads -> Keys \cup {NoKey}]
    /\ mine \in [Threads -> Locks \cup {NoLock}]
    /\ entry \in [Threads -> Locks \cup {NoLock}]
    /\ calls \in [Threads -> 0..Parties]

(* A thread acts on its key from the moment the lock is its own until the  *)
(* lease is released.                                                      *)
Holds(t, k) == pc[t] = "held" /\ key[t] = k

(* Two turns never run in one conversation, and two answers to one card    *)
(* run one after the other (ADR 0141, ADR 0152), though the lock object of *)
(* a key is made anew whenever the key has fallen quiet.                   *)
MutualExclusion ==
    \A t, u \in Threads : \A k \in Keys : Holds(t, k) /\ Holds(u, k) => t = u

(* The map counts exactly those who hold, wait or have yet to leave: it    *)
(* forgets a quiet key, and never one that somebody still waits for.       *)
Uses(t, k) == key[t] = k /\ pc[t] \in Stages \ {"idle", "left"}

UsersCounted ==
    \A k \in Keys : byKey[k].users = Cardinality({t \in Threads : Uses(t, k)})

(* The locks implement one mutex per key. *)
Mutex == INSTANCE CardMutex WITH holder <- [k \in Keys |-> {t \in Threads : Holds(t, k)}]

IsMutex == Mutex!Spec

(* A lock that is waited for is handed on: no waiter is left behind a lock *)
(* nobody holds.                                                           *)
Stranded(t) == pc[t] = "waiting" /\ \A u \in Threads : ~Holds(u, key[t])

HandedOn == \A t \in Threads : Stranded(t) ~> ~Stranded(t)

=============================================================================
