-------------------------------- MODULE Tasks --------------------------------
(***************************************************************************)
(* Delegated tasks (ADR 0141):                                             *)
(*                                                                         *)
(*   daemon/tasks.py    the rows: delegate, claim, begin_turn, finish,     *)
(*                      stop, sweep, and the harvest                       *)
(*   daemon/routes.py   run: task_of, the conversation's lease, begin_turn,*)
(*                      and the turn itself                                *)
(*   daemon/server.py   turn_door, stop_turn, stop_conversation, _stream   *)
(*                                                                         *)
(* Threads are the request threads of one daemon; every transition of a    *)
(* row is one transaction under Tasks._lock.  The windows are whoever      *)
(* sends the requests: any request, at any time.  Left out: task.changed   *)
(* on the bus, the tab and origin a turn binds, the count of turns with    *)
(* the brief that opens the first, and the vitals gate, which can only     *)
(* make a claim find nothing.                                              *)
(***************************************************************************)
EXTENDS Integers, Sequences, FiniteSets

CONSTANTS TaskIds, Threads,
          RunningCap, QueuedCap,   \* TASKS_RUNNING_CAP, TASKS_QUEUED_CAP
          NoTask, NoThread

ASSUME TasksAssumption == /\ IsFiniteSet(TaskIds)
                          /\ RunningCap \in Nat
                          /\ QueuedCap \in Nat
                          /\ NoTask \notin TaskIds
                          /\ NoThread \notin Threads

VARIABLES
    (* companion_task, and the episodes in the parent threads *)
    row,      \* the status of each task
    filed,    \* the tasks in the order they were delegated
    told,     \* what the parent thread was told of each task
    (* the daemon's memory *)
    daemon,   \* "up", "down", or "booting" until the ready line
    swept,    \* tasks the sweep ended and has still to tell of
    lease,    \* who holds the lock of the task's conversation
    door,     \* the turn door of the task's conversation
    (* the threads *)
    pc, task  \* where each is, and with which task

table == <<row, filed, told>>
boot == <<daemon, swept>>
turnLocks == <<lease, door>>
locals == <<pc, task>>
vars == <<table, boot, turnLocks, locals>>

Active == {"queued", "running"}
Ended == {"done", "failed", "killed", "interrupted"}
Stages == {"idle", "checked", "leased", "begun", "opened", "turning", "closed",
           "stopping", "ended"}

Init == /\ row = [k \in TaskIds |-> "absent"]
        /\ filed = <<>>
        /\ told = [k \in TaskIds |-> <<>>]
        /\ daemon = "up"
        /\ swept = {}
        /\ lease = [k \in TaskIds |-> NoThread]
        /\ door = [k \in TaskIds |-> "none"]
        /\ pc = [t \in Threads |-> "idle"]
        /\ task = [t \in Threads |-> NoTask]

With(status) == {k \in TaskIds : row[k] = status}

Goto(t, from, to) == /\ pc[t] = from
                     /\ pc' = [pc EXCEPT ![t] = to]

Arrive(t, to, k) == /\ daemon = "up"
                    /\ Goto(t, "idle", to)
                    /\ task' = [task EXCEPT ![t] = k]

Depart(t, from) == /\ Goto(t, from, "idle")
                   /\ task' = [task EXCEPT ![t] = NoTask]

Release(t) == lease' = [lease EXCEPT ![task[t]] = NoThread]

------------------------------------------------------------------------------
(* The table *)

(* Mutant: the cap is checked off by one. *)
DelegateOneMore(k) == /\ daemon = "up"
                      /\ row[k] = "absent"
                      /\ Cardinality(With("queued")) <= QueuedCap
                      /\ row' = [row EXCEPT ![k] = "queued"]
                      /\ filed' = Append(filed, k)
                      /\ UNCHANGED <<told, boot, turnLocks, locals>>

Delegate(k) == /\ daemon = "up"
               /\ row[k] = "absent"
               /\ Cardinality(With("queued")) < QueuedCap
               /\ row' = [row EXCEPT ![k] = "queued"]
               /\ filed' = Append(filed, k)
               /\ UNCHANGED <<told, boot, turnLocks, locals>>

Oldest(i) == /\ row[filed[i]] = "queued"
             /\ \A j \in 1..(i - 1) : row[filed[j]] # "queued"

(* claim_or_held; a claim that is held, or finds nothing, changes nothing. *)
Claim == /\ daemon = "up"
         /\ Cardinality(With("running")) < RunningCap
         /\ \E i \in 1..Len(filed) :
                Oldest(i) /\ row' = [row EXCEPT ![filed[i]] = "running"]
         /\ UNCHANGED <<filed, told, boot, turnLocks, locals>>

(* Mutant: whoever reports the end is believed. *)
FinishAnyway(t, k) == \E status \in {"done", "failed"} :
    /\ Arrive(t, "ended", k)
    /\ row[k] # "absent"
    /\ row' = [row EXCEPT ![k] = status]
    /\ UNCHANGED <<filed, told, boot, turnLocks>>

Finish(t, k) == \E status \in {"done", "failed"} :
    /\ Arrive(t, "ended", k)
    /\ row[k] = "running"
    /\ row' = [row EXCEPT ![k] = status]
    /\ UNCHANGED <<filed, told, boot, turnLocks>>

(* Mutant: the turn is stopped, and the row is left for its window to end. *)
StopTurnOnly(t, k) == /\ row[k] = "running"
                      /\ Arrive(t, "stopping", k)
                      /\ UNCHANGED <<table, boot, turnLocks>>

(* stop: the row is killed first, and then a running task's turn.          *)
Stop(t, k) == /\ row[k] \in Active
              /\ Arrive(t, IF row[k] = "running" THEN "stopping" ELSE "ended", k)
              /\ row' = [row EXCEPT ![k] = "killed"]
              /\ UNCHANGED <<filed, told, boot, turnLocks>>

(* stop_conversation.  The door is looked up, and then stopped: one whose  *)
(* turn ended in between is stopped in vain, like one that is not there.   *)
StopDoor(t) == LET k == task[t] IN
    /\ Goto(t, "stopping", "ended")
    /\ door' = [door EXCEPT ![k] = IF @ = "none" THEN @ ELSE "killed"]
    /\ UNCHANGED <<table, boot, lease, task>>

(* Mutant: the harvest line is made from the row as it was read before. *)
TellTheOld(t) == /\ told' = [told EXCEPT ![task[t]] = Append(@, "running")]
                 /\ Depart(t, "ended")
                 /\ UNCHANGED <<row, filed, boot, turnLocks>>

(* _ended: the row is read back and its end goes into the parent thread,   *)
(* unless the disk refuses the episode.                                    *)
Tell(t) == /\ Depart(t, "ended")
           /\ \/ told' = [told EXCEPT ![task[t]] = Append(@, row[task[t]])]
              \/ told' = told
           /\ UNCHANGED <<row, filed, boot, turnLocks>>

------------------------------------------------------------------------------
(* A turn of a task: POST /run with its task_id *)

(* task_of *)
Check(t, k) == /\ row[k] = "running"
               /\ Arrive(t, "checked", k)
               /\ UNCHANGED <<table, boot, turnLocks>>

(* Mutant: a busy conversation is taken over. *)
TakeLeaseAnyway(t) == /\ Goto(t, "checked", "leased")
                      /\ lease' = [lease EXCEPT ![task[t]] = t]
                      /\ UNCHANGED <<table, boot, door, task>>

TakeLease(t) == /\ Goto(t, "checked", "leased")
                /\ lease[task[t]] = NoThread
                /\ lease' = [lease EXCEPT ![task[t]] = t]
                /\ UNCHANGED <<table, boot, door, task>>

(* thread_busy *)
Busy(t) == /\ Depart(t, "checked")
           /\ lease[task[t]] # NoThread
           /\ UNCHANGED <<table, boot, turnLocks>>

(* begin_turn finds the task still running. *)
BeginTurn(t) == /\ Goto(t, "leased", "begun")
                /\ row[task[t]] = "running"
                /\ UNCHANGED <<table, boot, turnLocks, task>>

(* Mutant: the refusal keeps the lease. *)
TurnRefusedKeeps(t) == /\ Depart(t, "leased")
                       /\ row[task[t]] # "running"
                       /\ UNCHANGED <<table, boot, turnLocks>>

(* task_not_running, found by begin_turn *)
TurnRefused(t) == /\ Depart(t, "leased")
                  /\ row[task[t]] # "running"
                  /\ Release(t)
                  /\ UNCHANGED <<table, boot, door>>

(* The client is gone before the first frame: the turn's generator is      *)
(* closed unrun, and the stream's release gives the lease back.            *)
HangUp(t) == /\ Depart(t, "begun")
             /\ Release(t)
             /\ UNCHANGED <<table, boot, door>>

(* turn_door *)
OpenDoor(t) == /\ Goto(t, "begun", "opened")
               /\ door' = [door EXCEPT ![task[t]] = "open"]
               /\ UNCHANGED <<table, boot, lease, task>>

(* in_space lets the turn in, and it runs. *)
RunTurn(t) == /\ Goto(t, "opened", "turning")
              /\ UNCHANGED <<table, boot, turnLocks, task>>

(* The turn ends by itself or is cancelled through its door, or never ran, *)
(* because its project is being erased; either way turn_door takes its     *)
(* door away...                                                            *)
CloseDoor(t) == /\ \/ Goto(t, "turning", "closed")
                   \/ Goto(t, "opened", "closed")
                /\ door' = [door EXCEPT ![task[t]] = "none"]
                /\ UNCHANGED <<table, boot, lease, task>>

(* ... and _holding gives the lease back. *)
EndTurn(t) == /\ Depart(t, "closed")
              /\ Release(t)
               /\ UNCHANGED <<table, boot, door>>

(* stop_turn naming the task's conversation: the person stops its turn,    *)
(* and the task runs on.                                                   *)
StopTurn(k) == /\ door[k] = "open"
               /\ door' = [door EXCEPT ![k] = "stopped"]
               /\ UNCHANGED <<table, boot, lease, locals>>

------------------------------------------------------------------------------
(* The daemon dies, and starts *)

Crash == /\ daemon # "down"
         /\ daemon' = "down"
         /\ swept' = {}
         /\ lease' = [k \in TaskIds |-> NoThread]
         /\ door' = [k \in TaskIds |-> "none"]
         /\ pc' = [t \in Threads |-> "idle"]
         /\ task' = [t \in Threads |-> NoTask]
         /\ UNCHANGED table

(* Mutant: a restart ends what waited, too. *)
SweepAll == LET ending == {k \in TaskIds : row[k] \in Active} IN
    /\ daemon = "down"
    /\ daemon' = "booting"
    /\ swept' = ending
    /\ row' = [k \in TaskIds |-> IF k \in ending THEN "interrupted" ELSE row[k]]
    /\ UNCHANGED <<filed, told, turnLocks, locals>>

Sweep == /\ daemon = "down"
         /\ daemon' = "booting"
         /\ swept' = With("running")
         /\ row' = [k \in TaskIds |-> IF row[k] = "running" THEN "interrupted" ELSE row[k]]
         /\ UNCHANGED <<filed, told, turnLocks, locals>>

TellSwept(k) == /\ k \in swept
                /\ swept' = swept \ {k}
                /\ \/ told' = [told EXCEPT ![k] = Append(@, row[k])]
                   \/ told' = told
                /\ UNCHANGED <<row, filed, daemon, turnLocks, locals>>

Ready == /\ daemon = "booting"
         /\ swept = {}
         /\ daemon' = "up"
         /\ UNCHANGED <<table, swept, turnLocks, locals>>

------------------------------------------------------------------------------
Proceed(t) == \/ StopDoor(t) \/ Tell(t)
              \/ TakeLease(t) \/ Busy(t) \/ BeginTurn(t) \/ TurnRefused(t)
              \/ HangUp(t) \/ OpenDoor(t) \/ RunTurn(t) \/ CloseDoor(t) \/ EndTurn(t)

Next == \/ \E k \in TaskIds : Delegate(k) \/ StopTurn(k) \/ TellSwept(k)
        \/ Claim
        \/ \E t \in Threads, k \in TaskIds : Finish(t, k) \/ Stop(t, k) \/ Check(t, k)
        \/ \E t \in Threads : Proceed(t)
        \/ Crash \/ Sweep \/ Ready

Spec == Init /\ [][Next]_vars

(* A thread that has begun a request goes on with it: the harness ends     *)
(* every turn, in turn.finished or turn.error.                             *)
FairSpec == Spec /\ \A t \in Threads : WF_vars(Proceed(t))

------------------------------------------------------------------------------
TypeOK == /\ row \in [TaskIds -> Active \cup Ended \cup {"absent"}]
          /\ filed \in Seq(TaskIds)
          /\ told \in [TaskIds -> Seq(Ended)]
          /\ daemon \in {"up", "down", "booting"}
          /\ swept \subseteq TaskIds
          /\ lease \in [TaskIds -> Threads \cup {NoThread}]
          /\ door \in [TaskIds -> {"none", "open", "stopped", "killed"}]
          /\ pc \in [Threads -> Stages]
          /\ task \in [Threads -> TaskIds \cup {NoTask}]

Holding == {"leased", "begun", "opened", "turning", "closed"}

(* A task's turn runs in the task's conversation and never inside another  *)
(* turn of it (tasks.py:10-11, server.py:520-521): the thread in the turn  *)
(* holds the lease, and the door there is that turn's.                     *)
OneTurnOneDoor == \A k \in TaskIds :
    LET holders == {t \in Threads : task[t] = k /\ pc[t] \in Holding}
        open == {t \in holders : pc[t] \in {"opened", "turning"}}
    IN  /\ holders = {lease[k]} \ {NoThread}
        /\ (door[k] = "none") <=> (open = {})

(* At most RunningCap tasks run and QueuedCap wait, across every order of  *)
(* delegating, claiming, ending and restarting.                            *)
CapsHold == /\ Cardinality(With("running")) <= RunningCap
            /\ Cardinality(With("queued")) <= QueuedCap

(* stop: the row is killed first, so that the turn's window, whose stream  *)
(* ends in cancelled, reads killed (tasks.py:541-542), and the daemon      *)
(* begins no further turn of it.                                           *)
KillComesFirst == \A t \in Threads :
    pc[t] = "turning" /\ door[task[t]] = "killed" => row[task[t]] = "killed"

Life == INSTANCE TaskLife WITH Tasks <- TaskIds, life <- row

(* Each task keeps the life tasks.py promises, and its parent thread is    *)
(* told of one end at most, the one the row shows.                         *)
KeepsTaskLife == Life!Spec

(* "The stream that follows gives the lock back however it ends"           *)
(* (routes.py:642): no conversation of a task is busy for ever.            *)
TurnLockFreed == \A k \in TaskIds : \A t \in Threads : lease[k] = t ~> lease[k] # t

(* "A running row has its turn stopped through the turn door and becomes   *)
(* killed" (tasks.py:31-32).                                               *)
KilledTurnIsStopped == \A t \in Threads :
    LET k == task[t] IN
    pc[t] = "turning" /\ row[k] = "killed" /\ door[k] = "open" =>
        \E u \in Threads : pc[u] = "stopping" /\ task[u] = k
==============================================================================
