----------------------------- MODULE TasksProofs -----------------------------
(***************************************************************************)
(* Delegated tasks, for any number of tasks and requests and any caps.     *)
(*                                                                         *)
(* The inductive invariant says what a request knows while it is under way *)
(* (ThreadOK), what is true of each task whoever works on it (TaskOK), and *)
(* that a task that has ended has one teller at most.                      *)
(***************************************************************************)
EXTENDS Tasks, FiniteSetTheorems, TLAPS

Behind == {"opened", "turning"}
Telling == {"stopping", "ended"}

ThreadOK(t) ==
    /\ pc[t] = "idle" <=> task[t] = NoTask
    /\ daemon # "up" => pc[t] = "idle"
    /\ pc[t] \in Holding => lease[task[t]] = t
    /\ pc[t] = "stopping" => row[task[t]] = "killed"
    /\ pc[t] \in Telling => row[task[t]] \in Ended /\ told[task[t]] = <<>>

TaskOK(k) ==
    /\ lease[k] # NoThread => pc[lease[k]] \in Holding /\ task[lease[k]] = k
    /\ door[k] # "none" <=> lease[k] # NoThread /\ pc[lease[k]] \in Behind
    /\ door[k] = "killed" => row[k] = "killed"
    /\ row[k] \notin Ended => told[k] = <<>>
    /\ k \in swept => daemon = "booting" /\ row[k] \in Ended /\ told[k] = <<>>

OneTeller == \A t, u \in Threads :
    pc[t] \in Telling /\ pc[u] \in Telling /\ task[t] = task[u] => t = u

ThreadsOK == \A t \in Threads : ThreadOK(t)
TasksOK == \A k \in TaskIds : TaskOK(k)

IInv == TypeOK /\ ThreadsOK /\ TasksOK /\ OneTeller /\ CapsHold

LEMMA WithFinite ==
    ASSUME NEW s
    PROVE  IsFiniteSet(With(s)) /\ Cardinality(With(s)) \in Nat
<1>1. IsFiniteSet(With(s))
    BY TasksAssumption, FS_Subset DEF With
<1> QED
    BY <1>1, FS_CardinalityType

(* A step that neither starts a task nor files one keeps the caps. *)
LEMMA FewerKeepCaps ==
    ASSUME CapsHold, With("running")' \subseteq With("running"),
           With("queued")' \subseteq With("queued")
    PROVE  CapsHold'
<1>1. /\ Cardinality(With("running")') <= Cardinality(With("running"))
      /\ Cardinality(With("running")') \in Nat
    BY WithFinite, FS_Subset, FS_CardinalityType
<1>2. /\ Cardinality(With("queued")') <= Cardinality(With("queued"))
      /\ Cardinality(With("queued")') \in Nat
    BY WithFinite, FS_Subset, FS_CardinalityType
<1> QED
    BY <1>1, <1>2, WithFinite, TasksAssumption DEF CapsHold

(* A request under way has a task, and the daemon is up. *)
LEMMA UnderWay ==
    ASSUME IInv, NEW t \in Threads, pc[t] # "idle"
    PROVE  task[t] \in TaskIds /\ daemon = "up"
BY DEF IInv, TypeOK, ThreadsOK, ThreadOK

LEMMA Initially == Init => IInv
<1> SUFFICES ASSUME Init PROVE IInv
    OBVIOUS
<1>1. TypeOK
    BY DEF Init, TypeOK, Stages
<1>2. ThreadsOK
    BY DEF Init, ThreadsOK, ThreadOK, Holding, Telling
<1>3. TasksOK
    BY DEF Init, TasksOK, TaskOK
<1>4. OneTeller
    BY DEF Init, OneTeller, Telling
<1>5. CapsHold
    <2>1. With("running") = {} /\ With("queued") = {}
        BY DEF Init, With
    <2> QED
        BY <2>1, FS_EmptySet, TasksAssumption DEF CapsHold
<1> QED
    BY <1>1, <1>2, <1>3, <1>4, <1>5 DEF IInv

------------------------------------------------------------------------------
(* Every action keeps the inductive invariant: a lemma for each, with a    *)
(* step for each part of it.                                               *)

LEMMA StopDoorStep == ASSUME IInv, NEW t \in Threads, StopDoor(t) PROVE IInv'
<1>1. TypeOK'
    BY DEF IInv, TypeOK, StopDoor, Goto, table, boot, Stages
<1>2. ThreadsOK'
    <2> SUFFICES ASSUME NEW u \in Threads PROVE ThreadOK(u)'
        BY DEF ThreadsOK
    <2> QED
        BY DEF IInv, ThreadsOK, ThreadOK, StopDoor, Goto, table, boot, Holding,
           Telling
<1>3. TasksOK'
    <2> SUFFICES ASSUME NEW j \in TaskIds PROVE TaskOK(j)'
        BY DEF TasksOK
    <2> QED
        BY DEF IInv, ThreadsOK, ThreadOK, TasksOK, TaskOK, StopDoor, Goto, table,
           boot, Holding
<1>4. OneTeller'
    BY DEF IInv, OneTeller, StopDoor, Goto, Telling
<1>5. CapsHold'
    BY DEF IInv, CapsHold, With, StopDoor, table
<1> QED
    BY <1>1, <1>2, <1>3, <1>4, <1>5 DEF IInv

LEMMA TellStep == ASSUME IInv, NEW t \in Threads, Tell(t) PROVE IInv'
<1>1. TypeOK'
    <2>1. told' \in [TaskIds -> Seq(Ended)]
        <3>1. CASE told' = told
            BY <3>1 DEF IInv, TypeOK
        <3>2. CASE told' = [told EXCEPT ![task[t]] = Append(@, row[task[t]])]
            <4>1. told[task[t]] \in Seq(Ended) /\ row[task[t]] \in Ended
                BY DEF IInv, TypeOK, ThreadsOK, ThreadOK, Tell, Depart, Goto, Telling
            <4>2. Append(told[task[t]], row[task[t]]) \in Seq(Ended)
                BY <4>1
            <4> QED
                BY <3>2, <4>2 DEF IInv, TypeOK
        <3> QED
            BY <3>1, <3>2 DEF Tell
    <2> QED
        BY <2>1 DEF IInv, TypeOK, Tell, Depart, Goto, boot, turnLocks, Stages
<1>2. ThreadsOK'
    <2> SUFFICES ASSUME NEW u \in Threads PROVE ThreadOK(u)'
        BY DEF ThreadsOK
    <2> QED
        BY DEF IInv, TypeOK, ThreadsOK, ThreadOK, TasksOK, OneTeller, Tell, Depart,
           Goto, boot, turnLocks, Holding, Telling
<1>3. TasksOK'
    <2> SUFFICES ASSUME NEW j \in TaskIds PROVE TaskOK(j)'
        BY DEF TasksOK
    <2> QED
        BY <1>1 DEF IInv, TypeOK, ThreadsOK, ThreadOK, TasksOK, TaskOK, Tell, Depart,
           Goto, boot, turnLocks, Holding
<1>4. OneTeller'
    BY DEF IInv, TypeOK, OneTeller, Tell, Depart, Goto, Telling
<1>5. CapsHold'
    BY DEF IInv, CapsHold, With, Tell
<1> QED
    BY <1>1, <1>2, <1>3, <1>4, <1>5 DEF IInv

LEMMA CheckStep == ASSUME IInv, NEW t \in Threads, NEW k \in TaskIds, Check(t, k) PROVE IInv'
<1>1. TypeOK'
    BY DEF IInv, TypeOK, Check, Arrive, Goto, table, boot, turnLocks, Stages
<1>2. ThreadsOK'
    <2> SUFFICES ASSUME NEW u \in Threads PROVE ThreadOK(u)'
        BY DEF ThreadsOK
    <2> QED
        BY TasksAssumption DEF IInv, TypeOK, ThreadsOK, ThreadOK, Check, Arrive, Goto,
           table, boot, turnLocks, Holding, Telling
<1>3. TasksOK'
    <2> SUFFICES ASSUME NEW j \in TaskIds PROVE TaskOK(j)'
        BY DEF TasksOK
    <2> QED
        BY TasksAssumption DEF IInv, ThreadsOK, ThreadOK, TasksOK, TaskOK, Check,
           Arrive, Goto, table, boot, turnLocks
<1>4. OneTeller'
    BY DEF IInv, OneTeller, Check, Arrive, Goto, Telling
<1>5. CapsHold'
    BY DEF IInv, CapsHold, With, Check, table
<1> QED
    BY <1>1, <1>2, <1>3, <1>4, <1>5 DEF IInv

LEMMA TakeLeaseStep == ASSUME IInv, NEW t \in Threads, TakeLease(t) PROVE IInv'
<1>1. TypeOK'
    BY DEF IInv, TypeOK, TakeLease, Goto, table, boot, Stages
<1>2. ThreadsOK'
    <2> SUFFICES ASSUME NEW u \in Threads PROVE ThreadOK(u)'
        BY DEF ThreadsOK
    <2> QED
        BY TasksAssumption DEF IInv, TypeOK, ThreadsOK, ThreadOK, TakeLease, Goto,
           table, boot, Telling
<1>3. TasksOK'
    <2> SUFFICES ASSUME NEW j \in TaskIds PROVE TaskOK(j)'
        BY DEF TasksOK
    <2> QED
        BY DEF IInv, TypeOK, TasksOK, TaskOK, TakeLease, Goto, table, boot, Holding,
           Behind
<1>4. OneTeller'
    BY DEF IInv, OneTeller, TakeLease, Goto, Telling
<1>5. CapsHold'
    BY DEF IInv, CapsHold, With, TakeLease, table
<1> QED
    BY <1>1, <1>2, <1>3, <1>4, <1>5 DEF IInv

LEMMA BusyStep == ASSUME IInv, NEW t \in Threads, Busy(t) PROVE IInv'
<1>1. TypeOK'
    BY DEF IInv, TypeOK, Busy, Depart, Goto, table, boot, turnLocks, Stages
<1>2. ThreadsOK'
    <2> SUFFICES ASSUME NEW u \in Threads PROVE ThreadOK(u)'
        BY DEF ThreadsOK
    <2> QED
        BY DEF IInv, TypeOK, ThreadsOK, ThreadOK, Busy, Depart, Goto, table, boot,
           turnLocks, Holding, Telling
<1>3. TasksOK'
    <2> SUFFICES ASSUME NEW j \in TaskIds PROVE TaskOK(j)'
        BY DEF TasksOK
    <2> QED
        BY DEF IInv, TasksOK, TaskOK, Busy, Depart, Goto, table, boot, turnLocks,
           Holding
<1>4. OneTeller'
    BY DEF IInv, OneTeller, Busy, Depart, Goto, Telling
<1>5. CapsHold'
    BY DEF IInv, CapsHold, With, Busy, table
<1> QED
    BY <1>1, <1>2, <1>3, <1>4, <1>5 DEF IInv

LEMMA BeginTurnStep == ASSUME IInv, NEW t \in Threads, BeginTurn(t) PROVE IInv'
<1>1. TypeOK'
    BY DEF IInv, TypeOK, ThreadsOK, ThreadOK, BeginTurn, Goto, table, boot, turnLocks, Stages
<1>2. ThreadsOK'
    <2> SUFFICES ASSUME NEW u \in Threads PROVE ThreadOK(u)'
        BY DEF ThreadsOK
    <2> QED
        BY DEF IInv, ThreadsOK, ThreadOK, BeginTurn, Goto, table, boot, turnLocks, Holding,
           Telling
<1>3. TasksOK'
    <2> SUFFICES ASSUME NEW j \in TaskIds PROVE TaskOK(j)'
        BY DEF TasksOK
    <2> QED
        BY DEF IInv, TasksOK, TaskOK, BeginTurn, Goto, table, boot, turnLocks, Holding,
           Behind
<1>4. OneTeller'
    BY DEF IInv, OneTeller, BeginTurn, Goto, table, Telling
<1>5. CapsHold'
    BY DEF IInv, CapsHold, With, BeginTurn, table
<1> QED
    BY <1>1, <1>2, <1>3, <1>4, <1>5 DEF IInv

LEMMA TurnRefusedStep == ASSUME IInv, NEW t \in Threads, TurnRefused(t) PROVE IInv'
<1>1. TypeOK'
    BY DEF IInv, TypeOK, TurnRefused, Depart, Goto, Release, table, boot, Stages
<1>2. ThreadsOK'
    <2> SUFFICES ASSUME NEW u \in Threads PROVE ThreadOK(u)'
        BY DEF ThreadsOK
    <2> QED
        BY DEF IInv, TypeOK, ThreadsOK, ThreadOK, TurnRefused, Depart, Goto, Release,
           table, boot, Holding, Telling
<1>3. TasksOK'
    <2> SUFFICES ASSUME NEW j \in TaskIds PROVE TaskOK(j)'
        BY DEF TasksOK
    <2> QED
        BY DEF IInv, TypeOK, ThreadsOK, ThreadOK, TasksOK, TaskOK, TurnRefused,
           Depart, Goto, Release, table, boot, Holding, Behind
<1>4. OneTeller'
    BY DEF IInv, OneTeller, TurnRefused, Depart, Goto, Telling
<1>5. CapsHold'
    BY DEF IInv, CapsHold, With, TurnRefused, table
<1> QED
    BY <1>1, <1>2, <1>3, <1>4, <1>5 DEF IInv

LEMMA HangUpStep == ASSUME IInv, NEW t \in Threads, HangUp(t) PROVE IInv'
<1>1. TypeOK'
    BY DEF IInv, TypeOK, HangUp, Depart, Goto, Release, table, boot, Stages
<1>2. ThreadsOK'
    <2> SUFFICES ASSUME NEW u \in Threads PROVE ThreadOK(u)'
        BY DEF ThreadsOK
    <2> QED
        BY DEF IInv, TypeOK, ThreadsOK, ThreadOK, HangUp, Depart, Goto, Release,
           table, boot, Holding, Telling
<1>3. TasksOK'
    <2> SUFFICES ASSUME NEW j \in TaskIds PROVE TaskOK(j)'
        BY DEF TasksOK
    <2> QED
        BY DEF IInv, TypeOK, ThreadsOK, ThreadOK, TasksOK, TaskOK, HangUp, Depart,
           Goto, Release, table, boot, Holding, Behind
<1>4. OneTeller'
    BY DEF IInv, OneTeller, HangUp, Depart, Goto, Telling
<1>5. CapsHold'
    BY DEF IInv, CapsHold, With, HangUp, table
<1> QED
    BY <1>1, <1>2, <1>3, <1>4, <1>5 DEF IInv

LEMMA OpenDoorStep == ASSUME IInv, NEW t \in Threads, OpenDoor(t) PROVE IInv'
<1>1. TypeOK'
    BY DEF IInv, TypeOK, OpenDoor, Goto, table, boot, Stages
<1>2. ThreadsOK'
    <2> SUFFICES ASSUME NEW u \in Threads PROVE ThreadOK(u)'
        BY DEF ThreadsOK
    <2> QED
        BY DEF IInv, ThreadsOK, ThreadOK, OpenDoor, Goto, table, boot, Holding,
           Telling
<1>3. TasksOK'
    <2> SUFFICES ASSUME NEW j \in TaskIds PROVE TaskOK(j)'
        BY DEF TasksOK
    <2> QED
        BY TasksAssumption DEF IInv, TypeOK, ThreadsOK, ThreadOK, TasksOK, TaskOK,
           OpenDoor, Goto, table, boot, Holding, Behind
<1>4. OneTeller'
    BY DEF IInv, OneTeller, OpenDoor, Goto, Telling
<1>5. CapsHold'
    BY DEF IInv, CapsHold, With, OpenDoor, table
<1> QED
    BY <1>1, <1>2, <1>3, <1>4, <1>5 DEF IInv

LEMMA RunTurnStep == ASSUME IInv, NEW t \in Threads, RunTurn(t) PROVE IInv'
<1>1. TypeOK'
    BY DEF IInv, TypeOK, RunTurn, Goto, table, boot, turnLocks, Stages
<1>2. ThreadsOK'
    <2> SUFFICES ASSUME NEW u \in Threads PROVE ThreadOK(u)'
        BY DEF ThreadsOK
    <2> QED
        BY DEF IInv, ThreadsOK, ThreadOK, RunTurn, Goto, table, boot, turnLocks,
           Holding, Telling
<1>3. TasksOK'
    <2> SUFFICES ASSUME NEW j \in TaskIds PROVE TaskOK(j)'
        BY DEF TasksOK
    <2> QED
        BY DEF IInv, TasksOK, TaskOK, RunTurn, Goto, table, boot, turnLocks, Holding,
           Behind
<1>4. OneTeller'
    BY DEF IInv, OneTeller, RunTurn, Goto, Telling
<1>5. CapsHold'
    BY DEF IInv, CapsHold, With, RunTurn, table
<1> QED
    BY <1>1, <1>2, <1>3, <1>4, <1>5 DEF IInv

LEMMA CloseDoorStep == ASSUME IInv, NEW t \in Threads, CloseDoor(t) PROVE IInv'
<1>0. /\ pc[t] \in Behind
      /\ pc' = [pc EXCEPT ![t] = "closed"]
      /\ task[t] \in TaskIds
    BY UnderWay DEF CloseDoor, Goto, Behind
<1>1. TypeOK'
    BY <1>0 DEF IInv, TypeOK, CloseDoor, table, boot, Stages
<1>2. ThreadsOK'
    <2> SUFFICES ASSUME NEW u \in Threads PROVE ThreadOK(u)'
        BY DEF ThreadsOK
    <2> QED
        BY DEF IInv, TypeOK, ThreadsOK, ThreadOK, CloseDoor, Goto, table, boot,
           Holding, Telling
<1>3. TasksOK'
    <2> SUFFICES ASSUME NEW j \in TaskIds PROVE TaskOK(j)'
        BY DEF TasksOK
    <2>1. lease[task[t]] = t /\ t # NoThread
        BY <1>0, TasksAssumption DEF IInv, ThreadsOK, ThreadOK, Holding, Behind
    <2>2. /\ pc' = [pc EXCEPT ![t] = "closed"] /\ door' = [door EXCEPT ![task[t]] = "none"]
          /\ UNCHANGED <<row, told, daemon, swept, lease, task>>
        BY <1>0 DEF CloseDoor, table, boot
    <2> QED
        BY <2>1, <2>2 DEF IInv, TypeOK, TasksOK, TaskOK, Holding, Behind
<1>4. OneTeller'
    BY DEF IInv, TypeOK, OneTeller, CloseDoor, Goto, table, Telling
<1>5. CapsHold'
    BY DEF IInv, CapsHold, With, CloseDoor, table
<1> QED
    BY <1>1, <1>2, <1>3, <1>4, <1>5 DEF IInv

LEMMA EndTurnStep == ASSUME IInv, NEW t \in Threads, EndTurn(t) PROVE IInv'
<1>1. TypeOK'
    BY DEF IInv, TypeOK, EndTurn, Depart, Goto, Release, table, boot, Stages
<1>2. ThreadsOK'
    <2> SUFFICES ASSUME NEW u \in Threads PROVE ThreadOK(u)'
        BY DEF ThreadsOK
    <2> QED
        BY DEF IInv, TypeOK, ThreadsOK, ThreadOK, EndTurn, Depart, Goto, Release,
           table, boot, Holding, Telling
<1>3. TasksOK'
    <2> SUFFICES ASSUME NEW j \in TaskIds PROVE TaskOK(j)'
        BY DEF TasksOK
    <2> QED
        BY DEF IInv, TypeOK, ThreadsOK, ThreadOK, TasksOK, TaskOK, EndTurn, Depart,
           Goto, Release, table, boot, Holding, Behind
<1>4. OneTeller'
    BY DEF IInv, OneTeller, EndTurn, Depart, Goto, Telling
<1>5. CapsHold'
    BY DEF IInv, CapsHold, With, EndTurn, table
<1> QED
    BY <1>1, <1>2, <1>3, <1>4, <1>5 DEF IInv

LEMMA FinishStep == ASSUME IInv, NEW t \in Threads, NEW k \in TaskIds, Finish(t, k) PROVE IInv'
<1>0. \A u \in Threads : pc[u] \in Telling => u # t /\ task[u] # k
    BY DEF IInv, ThreadsOK, ThreadOK, Finish, Arrive, Goto, Ended, Telling
<1>1. TypeOK'
    BY DEF IInv, TypeOK, Finish, Arrive, Goto, boot, turnLocks, Ended, Stages
<1>2. ThreadsOK'
    <2> SUFFICES ASSUME NEW u \in Threads PROVE ThreadOK(u)'
        BY DEF ThreadsOK
    <2>0. ThreadOK(u) /\ k # NoTask
        BY TasksAssumption DEF IInv, ThreadsOK
    <2>1. told[k] = <<>>
        BY DEF IInv, TasksOK, TaskOK, Finish, Ended
    <2>2. CASE u = t
        BY <1>1, <2>0, <2>1, <2>2 DEF ThreadOK, TypeOK, Finish, Arrive, Goto, boot,
           Ended, Holding
    <2>3. CASE u # t
        <3>1. /\ pc'[u] = pc[u] /\ task'[u] = task[u] /\ told' = told /\ daemon' = daemon
              /\ lease' = lease
            BY <2>3 DEF Finish, Arrive, Goto, boot, turnLocks
        <3>2. pc[u] \in Telling => row'[task[u]] = row[task[u]]
            BY <1>0 DEF Finish
        <3> QED
            BY <2>0, <3>1, <3>2 DEF ThreadOK, Telling
    <2> QED
        BY <2>2, <2>3
<1>3. TasksOK'
    <2> SUFFICES ASSUME NEW j \in TaskIds PROVE TaskOK(j)'
        BY DEF TasksOK
    <2> QED
        BY <1>1, TasksAssumption DEF IInv, TypeOK, ThreadsOK, ThreadOK, TasksOK,
           TaskOK, Finish, Arrive, Goto, boot, turnLocks, Active
<1>4. OneTeller'
    <2>1. \A u \in Threads \ {t} : pc'[u] = pc[u] /\ task'[u] = task[u]
        BY DEF Finish, Arrive, Goto
    <2>2. task'[t] = k
        BY DEF IInv, TypeOK, Finish, Arrive
    <2> QED
        BY <1>0, <2>1, <2>2 DEF IInv, OneTeller
<1>5. CapsHold'
    <2>1. /\ With("running")' \subseteq With("running")
          /\ With("queued")' \subseteq With("queued")
        BY DEF With, Finish
    <2> QED
        BY <2>1, FewerKeepCaps DEF IInv
<1> QED
    BY <1>1, <1>2, <1>3, <1>4, <1>5 DEF IInv

LEMMA StopStep == ASSUME IInv, NEW t \in Threads, NEW k \in TaskIds, Stop(t, k) PROVE IInv'
<1>0. \A u \in Threads : pc[u] \in Telling => u # t /\ task[u] # k
    BY DEF IInv, ThreadsOK, ThreadOK, Stop, Arrive, Goto, Active, Ended, Telling
<1>1. TypeOK'
    BY DEF IInv, TypeOK, Stop, Arrive, Goto, boot, turnLocks, Ended, Stages
<1>2. ThreadsOK'
    <2> SUFFICES ASSUME NEW u \in Threads PROVE ThreadOK(u)'
        BY DEF ThreadsOK
    <2>0. ThreadOK(u) /\ k # NoTask
        BY TasksAssumption DEF IInv, ThreadsOK
    <2>1. told[k] = <<>>
        BY DEF IInv, TasksOK, TaskOK, Stop, Active, Ended
    <2>2. CASE u = t
        BY <1>1, <2>0, <2>1, <2>2 DEF ThreadOK, TypeOK, Stop, Arrive, Goto, boot,
           Ended, Holding
    <2>3. CASE u # t
        <3>1. /\ pc'[u] = pc[u] /\ task'[u] = task[u] /\ told' = told /\ daemon' = daemon
              /\ lease' = lease
            BY <2>3 DEF Stop, Arrive, Goto, boot, turnLocks
        <3>2. pc[u] \in Telling => row'[task[u]] = row[task[u]]
            BY <1>0 DEF Stop
        <3> QED
            BY <2>0, <3>1, <3>2 DEF ThreadOK, Telling
    <2> QED
        BY <2>2, <2>3
<1>3. TasksOK'
    <2> SUFFICES ASSUME NEW j \in TaskIds PROVE TaskOK(j)'
        BY DEF TasksOK
    <2> QED
        BY <1>1, TasksAssumption DEF IInv, TypeOK, ThreadsOK, ThreadOK, TasksOK,
           TaskOK, Stop, Arrive, Goto, boot, turnLocks, Active
<1>4. OneTeller'
    <2>1. \A u \in Threads \ {t} : pc'[u] = pc[u] /\ task'[u] = task[u]
        BY DEF Stop, Arrive, Goto
    <2>2. task'[t] = k
        BY DEF IInv, TypeOK, Stop, Arrive
    <2> QED
        BY <1>0, <2>1, <2>2 DEF IInv, OneTeller
<1>5. CapsHold'
    <2>1. /\ With("running")' \subseteq With("running")
          /\ With("queued")' \subseteq With("queued")
        BY DEF With, Stop
    <2> QED
        BY <2>1, FewerKeepCaps DEF IInv
<1> QED
    BY <1>1, <1>2, <1>3, <1>4, <1>5 DEF IInv

LEMMA StopTurnStep == ASSUME IInv, NEW k \in TaskIds, StopTurn(k) PROVE IInv'
<1>1. TypeOK'
    BY DEF IInv, TypeOK, StopTurn, table, boot, locals
<1>2. ThreadsOK'
    <2> SUFFICES ASSUME NEW u \in Threads PROVE ThreadOK(u)'
        BY DEF ThreadsOK
    <2> QED
        BY DEF IInv, ThreadsOK, ThreadOK, StopTurn, table, boot, locals
<1>3. TasksOK'
    <2> SUFFICES ASSUME NEW j \in TaskIds PROVE TaskOK(j)'
        BY DEF TasksOK
    <2> QED
        BY DEF IInv, TasksOK, TaskOK, StopTurn, table, boot, locals
<1>4. OneTeller'
    BY DEF IInv, OneTeller, StopTurn, locals
<1>5. CapsHold'
    BY DEF IInv, CapsHold, With, StopTurn, table
<1> QED
    BY <1>1, <1>2, <1>3, <1>4, <1>5 DEF IInv

LEMMA TellSweptStep == ASSUME IInv, NEW k \in TaskIds, TellSwept(k) PROVE IInv'
<1>1. TypeOK'
    <2>1. told' \in [TaskIds -> Seq(Ended)]
        <3>1. CASE told' = told
            BY <3>1 DEF IInv, TypeOK
        <3>2. CASE told' = [told EXCEPT ![k] = Append(@, row[k])]
            <4>1. told[k] \in Seq(Ended) /\ row[k] \in Ended
                BY DEF IInv, TypeOK, TasksOK, TaskOK, TellSwept
            <4>2. Append(told[k], row[k]) \in Seq(Ended)
                BY <4>1
            <4> QED
                BY <3>2, <4>2 DEF IInv, TypeOK
        <3> QED
            BY <3>1, <3>2 DEF TellSwept
    <2> QED
        BY <2>1 DEF IInv, TypeOK, TellSwept, turnLocks, locals
<1>2. ThreadsOK'
    <2> SUFFICES ASSUME NEW u \in Threads PROVE ThreadOK(u)'
        BY DEF ThreadsOK
    <2> QED
        BY DEF IInv, ThreadsOK, ThreadOK, TasksOK, TaskOK, TellSwept, turnLocks,
           locals, Telling
<1>3. TasksOK'
    <2> SUFFICES ASSUME NEW j \in TaskIds PROVE TaskOK(j)'
        BY DEF TasksOK
    <2> QED
        BY DEF IInv, TypeOK, TasksOK, TaskOK, TellSwept, turnLocks, locals
<1>4. OneTeller'
    BY DEF IInv, OneTeller, TellSwept, locals
<1>5. CapsHold'
    BY DEF IInv, CapsHold, With, TellSwept
<1> QED
    BY <1>1, <1>2, <1>3, <1>4, <1>5 DEF IInv

LEMMA CrashStep == ASSUME IInv, Crash PROVE IInv'
<1>1. TypeOK'
    BY DEF IInv, TypeOK, Crash, table, Stages
<1>2. ThreadsOK'
    <2> SUFFICES ASSUME NEW u \in Threads PROVE ThreadOK(u)'
        BY DEF ThreadsOK
    <2> QED
        BY DEF ThreadOK, Crash, Holding, Telling
<1>3. TasksOK'
    <2> SUFFICES ASSUME NEW j \in TaskIds PROVE TaskOK(j)'
        BY DEF TasksOK
    <2> QED
        BY DEF IInv, TasksOK, TaskOK, Crash, table
<1>4. OneTeller'
    BY DEF OneTeller, Crash, Telling
<1>5. CapsHold'
    BY DEF IInv, CapsHold, With, Crash, table
<1> QED
    BY <1>1, <1>2, <1>3, <1>4, <1>5 DEF IInv

LEMMA SweepStep == ASSUME IInv, Sweep PROVE IInv'
<1>1. TypeOK'
    BY DEF IInv, TypeOK, Sweep, With, turnLocks, locals, Ended
<1>2. ThreadsOK'
    <2> SUFFICES ASSUME NEW u \in Threads PROVE ThreadOK(u)'
        BY DEF ThreadsOK
    <2> QED
        BY DEF IInv, ThreadsOK, ThreadOK, Sweep, locals, Holding, Telling
<1>3. TasksOK'
    <2> SUFFICES ASSUME NEW j \in TaskIds PROVE TaskOK(j)'
        BY DEF TasksOK
    <2> QED
        BY DEF IInv, TasksOK, TaskOK, Sweep, With, turnLocks, locals, Ended
<1>4. OneTeller'
    BY DEF IInv, OneTeller, Sweep, locals
<1>5. CapsHold'
    <2>1. /\ With("running")' \subseteq With("running")
          /\ With("queued")' \subseteq With("queued")
        BY DEF Sweep, With
    <2> QED
        BY <2>1, FewerKeepCaps DEF IInv
<1> QED
    BY <1>1, <1>2, <1>3, <1>4, <1>5 DEF IInv

LEMMA ReadyStep == ASSUME IInv, Ready PROVE IInv'
<1>1. TypeOK'
    BY DEF IInv, TypeOK, Ready, table, turnLocks, locals
<1>2. ThreadsOK'
    <2> SUFFICES ASSUME NEW u \in Threads PROVE ThreadOK(u)'
        BY DEF ThreadsOK
    <2> QED
        BY DEF IInv, ThreadsOK, ThreadOK, Ready, table, turnLocks, locals
<1>3. TasksOK'
    <2> SUFFICES ASSUME NEW j \in TaskIds PROVE TaskOK(j)'
        BY DEF TasksOK
    <2> QED
        BY DEF IInv, TasksOK, TaskOK, Ready, table, turnLocks, locals
<1>4. OneTeller'
    BY DEF IInv, OneTeller, Ready, locals
<1>5. CapsHold'
    BY DEF IInv, CapsHold, With, Ready, table
<1> QED
    BY <1>1, <1>2, <1>3, <1>4, <1>5 DEF IInv

LEMMA DelegateStep == ASSUME IInv, NEW k \in TaskIds, Delegate(k) PROVE IInv'
<1>1. TypeOK'
    BY DEF IInv, TypeOK, Delegate, boot, turnLocks, locals, Active
<1>2. ThreadsOK'
    <2> SUFFICES ASSUME NEW u \in Threads PROVE ThreadOK(u)'
        BY DEF ThreadsOK
    <2> QED
        BY DEF IInv, ThreadsOK, ThreadOK, Delegate, boot, turnLocks, locals, Ended
<1>3. TasksOK'
    <2> SUFFICES ASSUME NEW j \in TaskIds PROVE TaskOK(j)'
        BY DEF TasksOK
    <2> QED
        BY DEF IInv, TasksOK, TaskOK, Delegate, boot, turnLocks, locals, Ended
<1>4. OneTeller'
    BY DEF IInv, OneTeller, Delegate, locals
<1>5. CapsHold'
    <2>1. /\ With("running")' = With("running")
          /\ With("queued")' = With("queued") \cup {k}
          /\ k \notin With("queued")
        BY DEF With, IInv, TypeOK, Delegate
    <2>2. Cardinality(With("queued")') = Cardinality(With("queued")) + 1
        BY <2>1, WithFinite, FS_AddElement
    <2> QED
        BY <2>1, <2>2, WithFinite, TasksAssumption DEF IInv, CapsHold, Delegate
<1> QED
    BY <1>1, <1>2, <1>3, <1>4, <1>5 DEF IInv

LEMMA ClaimStep == ASSUME IInv, Claim PROVE IInv'
<1>1. TypeOK'
    BY DEF IInv, TypeOK, Claim, boot, turnLocks, locals, Active
<1>2. ThreadsOK'
    <2> SUFFICES ASSUME NEW u \in Threads PROVE ThreadOK(u)'
        BY DEF ThreadsOK
    <2> QED
        BY DEF IInv, ThreadsOK, ThreadOK, Claim, Oldest, boot, turnLocks, locals,
           Ended
<1>3. TasksOK'
    <2> SUFFICES ASSUME NEW j \in TaskIds PROVE TaskOK(j)'
        BY DEF TasksOK
    <2> QED
        BY DEF IInv, TasksOK, TaskOK, Claim, Oldest, boot, turnLocks, locals, Ended
<1>4. OneTeller'
    BY DEF IInv, OneTeller, Claim, locals
<1>5. CapsHold'
    <2>1. PICK k \in TaskIds : row[k] = "queued" /\ row' = [row EXCEPT ![k] = "running"]
        <3>1. PICK i \in 1..Len(filed) :
                  Oldest(i) /\ row' = [row EXCEPT ![filed[i]] = "running"]
            BY DEF Claim
        <3>2. filed[i] \in TaskIds
            BY DEF IInv, TypeOK
        <3> QED
            BY <3>1, <3>2 DEF Oldest
    <2>2. /\ With("running")' = With("running") \cup {k}
          /\ k \notin With("running")
          /\ With("queued")' \subseteq With("queued")
        BY <2>1 DEF With, IInv, TypeOK
    <2>3. Cardinality(With("running")') = Cardinality(With("running")) + 1
        BY <2>2, WithFinite, FS_AddElement
    <2>4. /\ Cardinality(With("queued")') <= Cardinality(With("queued"))
          /\ Cardinality(With("queued")') \in Nat
        BY <2>2, WithFinite, FS_Subset, FS_CardinalityType
    <2> QED
        BY <2>3, <2>4, WithFinite, TasksAssumption DEF IInv, CapsHold, Claim
<1> QED
    BY <1>1, <1>2, <1>3, <1>4, <1>5 DEF IInv

------------------------------------------------------------------------------
(* What every reachable state satisfies *)

LEMMA StepKeepsIInv == IInv /\ [Next]_vars => IInv'
<1> SUFFICES ASSUME IInv, [Next]_vars PROVE IInv'
    OBVIOUS
<1>1. ASSUME NEW k \in TaskIds, Delegate(k) \/ StopTurn(k) \/ TellSwept(k) PROVE IInv'
    BY <1>1, DelegateStep, StopTurnStep, TellSweptStep
<1>2. CASE Claim
    BY <1>2, ClaimStep
<1>3. ASSUME NEW t \in Threads, NEW k \in TaskIds, Finish(t, k) \/ Stop(t, k) \/ Check(t, k)
      PROVE  IInv'
    BY <1>3, FinishStep, StopStep, CheckStep
<1>4. ASSUME NEW t \in Threads, Proceed(t) PROVE IInv'
    BY <1>4, StopDoorStep, TellStep, TakeLeaseStep, BusyStep, BeginTurnStep,
       TurnRefusedStep, HangUpStep, OpenDoorStep, RunTurnStep, CloseDoorStep, EndTurnStep
       DEF Proceed
<1>5. CASE Crash \/ Sweep \/ Ready
    BY <1>5, CrashStep, SweepStep, ReadyStep
<1>6. CASE UNCHANGED vars
    BY <1>6 DEF vars, table, boot, turnLocks, locals, IInv, TypeOK, ThreadsOK,
       ThreadOK, TasksOK, TaskOK, OneTeller, CapsHold, With
<1> QED
    BY <1>1, <1>2, <1>3, <1>4, <1>5, <1>6 DEF Next

LEMMA Invariant == Spec => []IInv
<1> QED
    BY Initially, StepKeepsIInv, PTL DEF Spec

(* The variables of the daemon keep their types. *)
THEOREM TypeCorrect == Spec => []TypeOK
<1>1. IInv => TypeOK
    BY DEF IInv
<1> QED
    BY <1>1, Invariant, PTL

(* However delegating, claiming, ending and restarting interleave, no more *)
(* than RunningCap tasks run and no more than QueuedCap wait.              *)
THEOREM Caps == Spec => []CapsHold
<1>1. IInv => CapsHold
    BY DEF IInv
<1> QED
    BY <1>1, Invariant, PTL

LEMMA IInvOneTurn == IInv => OneTurnOneDoor
<1> SUFFICES ASSUME IInv, NEW k \in TaskIds
             PROVE  LET holders == {t \in Threads : task[t] = k /\ pc[t] \in Holding}
                        open == {t \in holders : pc[t] \in {"opened", "turning"}}
                    IN  /\ holders = {lease[k]} \ {NoThread}
                        /\ (door[k] = "none") <=> (open = {})
    BY DEF OneTurnOneDoor
<1> DEFINE holders == {t \in Threads : task[t] = k /\ pc[t] \in Holding}
<1>1. \A t \in Threads : t # NoThread /\ (t \in holders => lease[k] = t)
    BY TasksAssumption DEF IInv, ThreadsOK, ThreadOK
<1>2. lease[k] # NoThread => lease[k] \in holders
    BY DEF IInv, TypeOK, TasksOK, TaskOK
<1>3. holders = {lease[k]} \ {NoThread}
    BY <1>1, <1>2
<1>4. door[k] # "none" <=> \E t \in holders : pc[t] \in {"opened", "turning"}
    BY <1>1, <1>2 DEF IInv, TasksOK, TaskOK, Behind
<1> QED
    BY <1>3, <1>4

(* A task has one turn at a time, in the thread that holds its lease, and  *)
(* a door exactly while that turn can be stopped.                          *)
THEOREM OneTurn == Spec => []OneTurnOneDoor
<1> QED
    BY IInvOneTurn, Invariant, PTL

(* The turn that stop ends belongs to a row that already reads killed.     *)
THEOREM KillFirst == Spec => []KillComesFirst
<1>1. IInv => KillComesFirst
    <2> SUFFICES ASSUME IInv, NEW t \in Threads, pc[t] = "turning", door[task[t]] = "killed"
                 PROVE  row[task[t]] = "killed"
        BY DEF KillComesFirst
    <2> QED
        BY UnderWay DEF IInv, TasksOK, TaskOK
<1> QED
    BY <1>1, Invariant, PTL

------------------------------------------------------------------------------
(* The refinement *)

LEMMA InitMaps == Init => Life!Init
BY DEF Init, Life!Init

(* What is told is the first thing told of the task, and its true end. *)
LEMMA ToldIsHeard ==
    ASSUME IInv, NEW k \in TaskIds, row[k] \in Ended, told[k] = <<>>, row' = row,
           told' = [told EXCEPT ![k] = Append(@, row[k])]
    PROVE  Life!Hear(k)
<1>1. Append(<<>>, row[k]) = <<row[k]>>
    OBVIOUS
<1>2. told' = [told EXCEPT ![k] = <<row[k]>>]
    BY <1>1
<1> QED
    BY DEF Life!Hear, Life!Endings, Ended

LEMMA StepMaps == IInv /\ [Next]_vars => [Life!Next]_<<row, told>>
<1> SUFFICES ASSUME IInv, [Next]_vars PROVE Life!Next \/ UNCHANGED <<row, told>>
    OBVIOUS
<1> USE DEF Life!Becomes
<1>1. ASSUME NEW k \in TaskIds, Delegate(k) PROVE Life!Next
    BY <1>1 DEF Delegate, Life!Next
<1>2. ASSUME NEW k \in TaskIds, TellSwept(k) PROVE Life!Next \/ UNCHANGED <<row, told>>
    <2>1. row[k] \in Ended /\ told[k] = <<>> /\ row' = row
        BY <1>2 DEF IInv, TasksOK, TaskOK, TellSwept
    <2> QED
        BY <1>2, <2>1, ToldIsHeard DEF TellSwept, Life!Next
<1>3. CASE Claim
    <2>1. PICK i \in 1..Len(filed) : Oldest(i) /\ row' = [row EXCEPT ![filed[i]] = "running"]
        BY <1>3 DEF Claim
    <2>2. filed[i] \in TaskIds /\ told' = told
        BY <1>3 DEF Claim, IInv, TypeOK
    <2> QED
        BY <2>1, <2>2 DEF Oldest, Life!Next
<1>4. ASSUME NEW t \in Threads, NEW k \in TaskIds, Finish(t, k) PROVE Life!Next
    <2>1. PICK end \in {"done", "failed"} :
              row[k] = "running" /\ row' = [row EXCEPT ![k] = end] /\ told' = told
        BY <1>4 DEF Finish
    <2> QED
        BY <2>1 DEF Life!Next, Life!Endings
<1>5. ASSUME NEW t \in Threads, NEW k \in TaskIds, Stop(t, k) PROVE Life!Next
    <2>1. row[k] \in Active /\ row' = [row EXCEPT ![k] = "killed"] /\ told' = told
        BY <1>5 DEF Stop
    <2> QED
        BY <2>1 DEF Active, Life!Next, Life!Endings
<1>6. ASSUME NEW t \in Threads, Tell(t) PROVE Life!Next \/ UNCHANGED <<row, told>>
    <2>1. task[t] \in TaskIds
        BY <1>6, UnderWay DEF Tell, Depart, Goto
    <2>2. row[task[t]] \in Ended /\ told[task[t]] = <<>> /\ row' = row
        BY <1>6 DEF IInv, ThreadsOK, ThreadOK, Telling, Tell, Depart, Goto
    <2> QED
        BY <1>6, <2>1, <2>2, ToldIsHeard DEF Tell, Life!Next
<1>7. CASE Sweep
    BY <1>7 DEF Sweep, Life!Next, Life!Restart
<1>8. ASSUME NEW k \in TaskIds, StopTurn(k) PROVE UNCHANGED <<row, told>>
    BY <1>8 DEF StopTurn, table
<1>9. ASSUME NEW t \in Threads, NEW k \in TaskIds, Check(t, k) PROVE UNCHANGED <<row, told>>
    BY <1>9 DEF Check, table
<1>10. ASSUME NEW t \in Threads, Proceed(t), ~Tell(t) PROVE UNCHANGED <<row, told>>
    BY <1>10 DEF Proceed, StopDoor, TakeLease, Busy, BeginTurn, TurnRefused, HangUp,
       OpenDoor, RunTurn, CloseDoor, EndTurn, table
<1>11. CASE Crash \/ Ready \/ UNCHANGED vars
    BY <1>11 DEF Crash, Ready, vars, table
<1> QED
    BY <1>1, <1>2, <1>3, <1>4, <1>5, <1>6, <1>7, <1>8, <1>9, <1>10, <1>11 DEF Next

(* Across every interleaving, crash and refused disk, each task lives the  *)
(* life tasks.py promises: it ends once, a restart ends exactly what ran,  *)
(* and its parent thread hears of one end, the one its row shows.          *)
THEOREM LifeIsKept == Spec => KeepsTaskLife
<1>1. IInv /\ [Next]_vars => [Life!Next]_<<row, told>>
    BY StepMaps
<1> QED
    BY <1>1, InitMaps, Invariant, PTL DEF Spec, KeepsTaskLife, Life!Spec,
       Life!lifeVars
==============================================================================
