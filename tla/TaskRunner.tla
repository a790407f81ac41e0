------------------------------ MODULE TaskRunner ------------------------------
(***************************************************************************)
(* Her window's task runner (apps/desktop/src/stores/task-runner.ts): it   *)
(* hears of delegated tasks, claims them one at a time, gives each a tab   *)
(* and drives its turns until it can report how the task ended.            *)
(*                                                                         *)
(* The window runs on one thread, so an action is what happens from one    *)
(* await to the next.  The daemon's side is what its answers and frames    *)
(* show of it; Tasks models it in full.  Which tab a task works on, texts, *)
(* the gate's lists and the timeouts of a page are left out.               *)
(***************************************************************************)
EXTENDS Naturals, Sequences, FiniteSets

CONSTANTS TaskIds,
          Cards,              \* the cards the tasks' turns may file
          RunningCap,         \* TASKS_RUNNING_CAP, the daemon's and the window's
          MaxContinuations,   \* MAX_CONTINUATIONS
          MaxReloads,         \* how often the window goes away and comes back
          MaxBus,             \* frames on their way at once
          NoApi,              \* whether it may find no daemon to ask
          None

ASSUME TaskRunnerAssumption == /\ RunningCap \in Nat \ {0}
                               /\ MaxContinuations \in Nat
                               /\ MaxReloads \in Nat
                               /\ MaxBus \in Nat
                               /\ NoApi \in BOOLEAN
                               /\ None \notin TaskIds

VARIABLES
    (* the daemon *)
    row,        \* the status of each task
    bus,        \* task.changed frames on their way to the window
    list,       \* a GET /tasks answer on its way, or None
    (* the runner *)
    swept,      \* "no", "sweeping", "yes", or "closed" once it was stopped
    orphans,    \* rows of the first list still to be reported failed
    claim,      \* the claim loop: "no", "ask", "reply", or "stuck" (see Tick)
    claimed,    \* the task in the reply, or None
    again,
    run,        \* one record per task: where its loop waits, and its Active entry
    (* the window *)
    filed, reloads

daemon == <<row, bus, list>>
ears == <<swept, orphans>>
claiming == <<claim, claimed, again>>
window == <<filed, reloads>>
vars == <<daemon, ears, claiming, run, window>>

Off == [at |-> "off", aborted |-> FALSE, abandoned |-> FALSE,
        out |-> FALSE, step |-> 0, cards |-> {}, lost |-> {}, released |-> {}, outcome |-> "none"]

Init == /\ row = [t \in TaskIds |-> "none"]
        /\ bus = <<>> /\ list = None
        /\ swept = "no" /\ orphans = {}
        /\ claim = "no" /\ claimed = None /\ again = FALSE
        /\ run = [t \in TaskIds |-> Off]
        /\ filed = {} /\ reloads = 0

Active(r) == {t \in TaskIds : r[t].at # "off"}
Finishing(t) == run[t].at = "finish"

(* task.changed is published; a longer backlog counts as missed. *)
Frame(t, status) == bus' = IF Len(bus) < MaxBus THEN Append(bus, [task |-> t, status |-> status])
                           ELSE <<>>

------------------------------------------------------------------------------
(* Claiming *)

(* Mutant: one run too many. *)
HasRoomForOneMore(r) == Cardinality(Active(r)) <= RunningCap

HasRoom(r) == Cardinality(Active(r)) < RunningCap

(* The loop of tickRunner asks for a task while there is room for another  *)
(* run, and a daemon to ask.                                               *)
Round(r, over) == \/ HasRoom(r) /\ claim' = "ask"
                  \/ (HasRoom(r) => NoApi) /\ claim' = over

(* tickRunner: one claim loop at a time; a call meanwhile (or once more at *)
(* once) sends it round again.  A loop that is over in its first round has *)
(* not waited for anything: it clears `claiming` before its own promise is *)
(* stored there, and no later call finds that empty again.                 *)
Tick(r, oncemore) ==
    IF swept = "closed" THEN UNCHANGED claiming
    ELSE IF claim = "no" THEN Round(r, "stuck") /\ claimed' = None /\ again' = oncemore
    ELSE again' = TRUE /\ UNCHANGED <<claim, claimed>>

(* POST /tasks/claim at the daemon *)
DaemonClaims ==
    /\ claim = "ask"
    /\ claim' = "reply"
    /\ \/ \E t \in TaskIds :
             /\ row[t] = "queued"
             /\ Cardinality({s \in TaskIds : row[s] = "running"}) < RunningCap
             /\ row' = [row EXCEPT ![t] = "running"]
             /\ Frame(t, "running")
             /\ claimed' = t
       \/ /\ \/ \A t \in TaskIds : row[t] # "queued"
             \/ Cardinality({s \in TaskIds : row[s] = "running"}) >= RunningCap
          /\ claimed' = None
          /\ UNCHANGED <<row, bus>>
    /\ UNCHANGED <<list, ears, again, run, window>>

(* bind: a free tab of the app, or one is opened in the background.  The   *)
(* person opens, closes and focuses tabs at will, so either may be.        *)
Bound(t) == \E at \in {"publish", "open"} : run' = [run EXCEPT ![t] = [Off EXCEPT !.at = at]]

(* The reply is launched; after none, or one that runs here already, the   *)
(* loop goes round again only if it was called meanwhile.                  *)
ClaimReply ==
    /\ claim = "reply"
    /\ claimed' = None
    /\ IF claimed = None \/ claimed \in Active(run)
       THEN /\ IF again THEN Round(run, "no") ELSE claim' = "no"
            /\ again' = FALSE
            /\ UNCHANGED run
       ELSE /\ Bound(claimed)
            /\ Round(run', "no")
            /\ again' = (again /\ HasRoom(run'))
    /\ UNCHANGED <<daemon, ears, window>>

(* The claim fails, or its reply is lost. *)
ClaimFails ==
    /\ claim \in {"ask", "reply"}
    /\ claim' = "no"
    /\ claimed' = None
    /\ UNCHANGED <<daemon, ears, again, run, window>>

------------------------------------------------------------------------------
(* What the runner hears *)

Abort(ts) == run' = [t \in TaskIds |-> [run[t] EXCEPT !.aborted = (@ \/ t \in ts)]]

(* Runs that a status other than "running" stops; a finish on its way is no kill. *)
Ended(status) == {t \in Active(run) : status[t] # "running" /\ ~Finishing(t)}

(* taskChanged, for a frame.  Before the first list nothing is acted on.   *)
HearFrame ==
    /\ bus # <<>>
    /\ swept # "sweeping"
    /\ bus' = Tail(bus)
    /\ LET f == Head(bus)
           over == f.task \in Active(run) /\ f.status # "running"
       IN \/ /\ swept = "yes"
             /\ Abort(IF over /\ ~Finishing(f.task) THEN {f.task} ELSE {})
             /\ IF f.status = "queued" \/ over THEN Tick(run, FALSE) ELSE UNCHANGED claiming
          \/ swept # "yes" /\ UNCHANGED <<run, claiming>>
    /\ UNCHANGED <<row, list, ears, window>>

(* The first list: the rows it says are running are nobody's.              *)
FirstList ==
    /\ list # None
    /\ swept = "no"
    /\ swept' = "sweeping"
    /\ orphans' = {t \in TaskIds : list[t] = "running"}
    /\ UNCHANGED <<daemon, claiming, run, window>>

(* sweepOrphans reports one of them failed, or tries to.                   *)
Sweep(t) ==
    /\ t \in orphans
    /\ orphans' = orphans \ {t}
    /\ \/ /\ row[t] = "running"
          /\ row' = [row EXCEPT ![t] = "failed"]
          /\ Frame(t, "failed")
       \/ UNCHANGED <<row, bus>>
    /\ UNCHANGED <<list, swept, claiming, run, window>>

Swept ==
    /\ swept = "sweeping"
    /\ orphans = {}
    /\ swept' = "yes"
    /\ UNCHANGED <<daemon, orphans, claiming, run, window>>

(* Mutant: every list is swept for orphans. *)
ReconcileSweeps ==
    /\ list # None
    /\ swept = "yes"
    /\ list' = None
    /\ orphans' = {t \in TaskIds : list[t] = "running"} \ Active(run)
    /\ Abort(Ended(list))
    /\ Tick(run, FALSE)
    /\ UNCHANGED <<row, bus, swept, window>>

(* Mutant: a list only stops what has ended. *)
ReconcileOnly ==
    /\ list # None
    /\ swept = "yes"
    /\ list' = None
    /\ Abort(Ended(list))
    /\ UNCHANGED <<row, bus, ears, claiming, window>>

(* reconcile: stop what is no longer running, and claim what is queued.    *)
(* It hears every row as a frame, and then ticks itself.                   *)
Reconcile ==
    /\ list # None
    /\ swept = "yes"
    /\ list' = None
    /\ Abort(Ended(list))
    /\ Tick(run, \E t \in TaskIds :
                     list[t] = "queued" \/ (t \in Active(run) /\ list[t] # "running"))
    /\ UNCHANGED <<row, bus, ears, window>>

------------------------------------------------------------------------------
(* One task *)

Goes(t, at) == run' = [run EXCEPT ![t].at = at]
Alive(t, at) == run[t].at = at /\ ~run[t].aborted

(* What launch does with the way drive ended: the outcome is reported.     *)
Report(t, outcome) == run' = [run EXCEPT ![t].at = "finish", ![t].outcome = outcome]

Others == <<daemon, ears, claiming, window>>

(* tabs_open_background answers with the new tab. *)
OpenTab(t) ==
    /\ run[t].at = "open"
    /\ Goes(t, "tools")
    /\ UNCHANGED Others

(* The page has registered its tools, or may not: the tab is the task's.   *)
ToolsReady(t) ==
    /\ run[t].at = "tools"
    /\ Goes(t, "publish")
    /\ UNCHANGED Others

(* publish, and the request that takes what is outstanding                 *)
Request(t) ==
    /\ Alive(t, "publish")
    /\ run' = [run EXCEPT ![t].at = "stream", ![t].out = FALSE]
    /\ UNCHANGED Others

(* No address or tab to open, the tab is gone, a request is refused, or    *)
(* its turn fails.                                                         *)
Fails(t) ==
    /\ \/ Alive(t, "open") \/ Alive(t, "tools") \/ Alive(t, "publish") \/ Alive(t, "stream")
    /\ Report(t, "failed")
    /\ UNCHANGED Others

FileCard(t, c) ==
    /\ Alive(t, "stream")
    /\ c \notin filed
    /\ filed' = filed \cup {c}
    /\ run' = [run EXCEPT ![t].cards = @ \cup {c}]
    /\ UNCHANGED <<daemon, ears, claiming, reloads>>

(* The daemon ended the turn, or refuses it.  Its task was stopped, or the *)
(* turn alone was, by a stop that names the conversation and leaves the    *)
(* row running: either way nothing is reported.                            *)
TurnCancelled(t) ==
    /\ Alive(t, "stream")
    /\ Goes(t, "end")
    /\ UNCHANGED Others

(* turn.finished: the calls the daemon left to the page run on the tab.    *)
TurnFinished(t) ==
    /\ Alive(t, "stream")
    /\ \/ Goes(t, "page") \/ Goes(t, "settle")
    /\ UNCHANGED Others

(* onTab: whether it ran or was refused, its answer rides the next request. *)
PageAnswers(t) ==
    /\ run[t].at = "page"
    /\ run' = [run EXCEPT ![t].at = "settle", ![t].out = TRUE]
    /\ UNCHANGED Others

(* Mutant: a turn with no card waiting settles the task. *)
SettlesUnread(t) ==
    /\ Alive(t, "settle")
    /\ \/ /\ run[t].out
          /\ run[t].step < MaxContinuations
          /\ run' = [run EXCEPT ![t].at = "publish", ![t].step = @ + 1]
       \/ run[t].out /\ run[t].step = MaxContinuations /\ Report(t, "failed")
       \/ ~run[t].out /\ run[t].cards # {} /\ Goes(t, "rest")
       \/ ~run[t].out /\ run[t].cards = {} /\ Report(t, "done")
    /\ UNCHANGED Others

(* drive, after a turn: go on with what the page said, rest on a card, or  *)
(* be done.                                                                *)
Settles(t) ==
    /\ Alive(t, "settle")
    /\ LET waiting == run[t].cards \cup run[t].released IN
       \/ /\ run[t].out
          /\ run[t].step < MaxContinuations
          /\ run' = [run EXCEPT ![t].at = "publish", ![t].step = @ + 1]
       \/ run[t].out /\ run[t].step = MaxContinuations /\ Report(t, "failed")
       \/ ~run[t].out /\ waiting # {} /\ Goes(t, "rest")
       \/ ~run[t].out /\ waiting = {} /\ Report(t, "done")
    /\ UNCHANGED Others

(* The person answers a card of the task, and its owner is told.           *)
Answer(t, c) ==
    /\ c \in run[t].cards \ run[t].lost
    /\ run' = [run EXCEPT ![t].cards = @ \ {c}, ![t].released = @ \cup {c}]
    /\ UNCHANGED Others

(* The daemon knows no such card any more: it has expired, or its project  *)
(* is gone.  The card leaves the stack, and its owner is told nothing.     *)
AnswerLost(t, c) ==
    /\ c \in run[t].cards \ run[t].lost
    /\ run' = [run EXCEPT ![t].lost = @ \cup {c}]
    /\ UNCHANGED Others

(* settleCards: what was approved runs, and the task's next request goes.  *)
Woken(t) ==
    /\ Alive(t, "rest")
    /\ run[t].released # {}
    /\ \E ran \in BOOLEAN :
          run' = [run EXCEPT ![t].at = IF ran THEN "act" ELSE "publish",
                             ![t].released = {}, ![t].step = 0]
    /\ UNCHANGED Others

ActAnswers(t) ==
    /\ run[t].at = "act"
    /\ run' = [run EXCEPT ![t].at = "publish", ![t].out = TRUE]
    /\ UNCHANGED Others

(* The loop finds its task aborted: only a window that goes away reports.  *)
FindsAbort(t) ==
    /\ run[t].aborted
    /\ run[t].at \in {"open", "tools", "publish", "stream", "settle", "rest"}
    /\ IF run[t].abandoned THEN Report(t, "failed") ELSE Goes(t, "end")
    /\ UNCHANGED Others

(* POST /tasks/<id>/finish, taken by the daemon or lost.                   *)
Finish(t) ==
    /\ run[t].at = "finish"
    /\ \/ /\ row[t] = "running"
          /\ row' = [row EXCEPT ![t] = run[t].outcome]
          /\ Frame(t, run[t].outcome)
       \/ UNCHANGED <<row, bus>>
    /\ Goes(t, "end")
    /\ UNCHANGED <<list, ears, claiming, window>>

(* The end of launch: the cards are withdrawn, and the room is used.       *)
Ends(t) ==
    /\ run[t].at = "end"
    /\ run' = [run EXCEPT ![t] = Off]
    /\ Tick(run', FALSE)
    /\ UNCHANGED <<daemon, ears, window>>

------------------------------------------------------------------------------
(* The daemon, the person and the window *)

Delegate(t) ==
    /\ row[t] = "none"
    /\ row' = [row EXCEPT ![t] = "queued"]
    /\ Frame(t, "queued")
    /\ UNCHANGED <<list, ears, claiming, run, window>>

Stop(t) ==
    /\ row[t] \in {"queued", "running"}
    /\ row' = [row EXCEPT ![t] = "killed"]
    /\ Frame(t, "killed")
    /\ UNCHANGED <<list, ears, claiming, run, window>>

(* loadTasks: the list as the daemon holds it now.                         *)
ReadList ==
    /\ swept # "closed"
    /\ list = None
    /\ list' = row
    /\ UNCHANGED <<row, bus, ears, claiming, run, window>>

(* A frame between two streams is missed.                                  *)
MissFrames ==
    /\ bus # <<>>
    /\ bus' = <<>>
    /\ UNCHANGED <<row, list, ears, claiming, run, window>>

(* The runner is stopped: each task in flight is abandoned.                *)
Close ==
    /\ swept # "closed"
    /\ reloads < MaxReloads
    /\ swept' = "closed"
    /\ orphans' = {}
    /\ run' = [t \in TaskIds |-> [run[t] EXCEPT !.aborted = (@ \/ t \in Active(run)),
                                                !.abandoned = (@ \/ t \in Active(run))]]
    /\ UNCHANGED <<daemon, claiming, window>>

(* The window is gone, with all it held in memory, and a new one starts.   *)
Reload ==
    /\ reloads < MaxReloads
    /\ reloads' = reloads + 1
    /\ bus' = <<>> /\ list' = None
    /\ swept' = "no" /\ orphans' = {}
    /\ claim' = "no" /\ claimed' = None /\ again' = FALSE
    /\ run' = [t \in TaskIds |-> Off]
    /\ filed' = {}
    /\ UNCHANGED row

------------------------------------------------------------------------------
Hears == HearFrame \/ FirstList \/ Swept \/ Reconcile \/ \E t \in TaskIds : Sweep(t)

Claims == DaemonClaims \/ ClaimReply

Works(t) == \/ OpenTab(t) \/ ToolsReady(t) \/ Request(t) \/ Fails(t) \/ TurnFinished(t)
            \/ TurnCancelled(t)
            \/ PageAnswers(t) \/ Settles(t) \/ Woken(t) \/ ActAnswers(t)
            \/ FindsAbort(t) \/ Finish(t) \/ Ends(t)
            \/ \E c \in Cards : Answer(t, c) \/ AnswerLost(t, c)

Next == \/ Hears \/ Claims \/ ClaimFails
        \/ ReadList \/ MissFrames \/ Close \/ Reload
        \/ \E t \in TaskIds : \/ Works(t) \/ Delegate(t) \/ Stop(t)
                              \/ \E c \in Cards : FileCard(t, c)

Spec == Init /\ [][Next]_vars

(* The list is read on every reconnect (each 15 s of quiet), the daemon    *)
(* answers a claim if it is asked again and again, turns and pages end,    *)
(* and the person answers the cards, in time or not.                       *)
FairSpec == /\ Spec
            /\ WF_vars(Hears) /\ WF_vars(ReadList) /\ WF_vars(ClaimReply) /\ SF_vars(DaemonClaims)
            /\ \A t \in TaskIds : WF_vars(Works(t))

------------------------------------------------------------------------------
(* Every variable has its type, and no more tasks run here than the window *)
(* has room for, those winding down after a stop included.                 *)
TypeOK ==
    /\ row \in [TaskIds -> {"none", "queued", "running", "done", "failed", "killed"}]
    /\ list = None \/ DOMAIN list = TaskIds
    /\ swept \in {"no", "sweeping", "yes", "closed"} /\ orphans \subseteq TaskIds
    /\ claim \in {"no", "ask", "reply", "stuck"} /\ claimed \in TaskIds \cup {None} /\ again \in BOOLEAN
    /\ \A t \in TaskIds : /\ run[t].step \in 0 .. MaxContinuations
                          /\ run[t].cards \cup run[t].released \subseteq filed
                          /\ run[t].lost \subseteq run[t].cards
    /\ Cardinality(Active(run)) <= RunningCap

(* "it can never mistake a task this window has just claimed for one of    *)
(* them": the sweep reports no task failed that a run here is driving.     *)
SweepSparesOurs == \A t \in orphans : run[t].at = "off" /\ claimed # t

(* A task is reported done only when nothing of it is left over: no card   *)
(* on the person, no answer unused, no word of the page untold.            *)
DoneLeavesNothing ==
    \A t \in TaskIds : run[t].at = "finish" /\ run[t].outcome = "done" =>
        ~run[t].out /\ run[t].cards = {} /\ run[t].released = {}

(* A row that keeps its room for nothing: its runner is gone, or rests on  *)
(* a card that nobody can answer any more.                                 *)
Forsaken == \E t \in TaskIds :
    /\ row[t] = "running"
    /\ \/ run[t].at = "off" /\ t \notin orphans /\ claimed # t
       \/ run[t].lost # {}

(* A task in line is taken up or ended, frames missed and claims refused   *)
(* or not, unless the window is closing, a forsaken row keeps the room, or *)
(* the claim loop has locked itself out (NotLeftWaiting).                  *)
QueuedMovesOn == \A t \in TaskIds :
    row[t] = "queued" ~> row[t] # "queued" \/ Forsaken \/ swept = "closed" \/ claim = "stuck"

(* "so a task queued meanwhile is not left waiting": a task in line is     *)
(* taken up, whatever moment tickRunner is called at.                      *)
NotLeftWaiting == \A t \in TaskIds :
    row[t] = "queued" ~> row[t] # "queued" \/ Forsaken \/ swept = "closed"

(* "the daemon already wrote how it ended": a run that is aborted and will *)
(* report nothing belongs to a row that is no longer running.              *)
KilledIsEnded == \A t \in TaskIds :
    run[t].aborted /\ ~run[t].abandoned => row[t] # "running"
==============================================================================
