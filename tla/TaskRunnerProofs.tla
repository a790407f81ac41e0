-------------------------- MODULE TaskRunnerProofs --------------------------
(***************************************************************************)
(* The task runner of the window, for any tasks, cards and bounds.         *)
(*                                                                         *)
(* That no more runs are active than there is room for rests on the claim  *)
(* loop: while it asks or reads a reply there is room for one more (Room). *)
(* That the sweep spares the window's own tasks rests on an order: until   *)
(* the sweep is over no claim is made and nothing runs (SweepFirst).  The  *)
(* rest of the invariant is what the record of one run may hold (RunOK).   *)
(***************************************************************************)
EXTENDS TaskRunner, FiniteSetTheorems, TLAPS

Rows == {"none", "queued", "running", "done", "failed", "killed"}

Places == {"off", "open", "tools", "publish", "stream", "page", "settle", "rest", "act",
           "finish", "end"}

RunRecord == [at : Places, aborted : BOOLEAN, abandoned : BOOLEAN, out : BOOLEAN,
              step : 0 .. MaxContinuations, cards : SUBSET Cards, lost : SUBSET Cards,
              released : SUBSET Cards, outcome : {"none", "failed", "done"}]

(* A lost card is still held; what a run about to be reported has in its record. *)
RunOK(r) == /\ r.lost \subseteq r.cards
            /\ r.at = "finish" =>
                  /\ r.outcome \in {"failed", "done"}
                  /\ r.outcome = "done" => ~r.out /\ r.cards = {} /\ r.released = {}

RunsOK == /\ run \in [TaskIds -> RunRecord]
          /\ filed \subseteq Cards
          /\ \A t \in TaskIds : /\ run[t].cards \cup run[t].released \subseteq filed
                                /\ RunOK(run[t])

DaemonOK == row \in [TaskIds -> Rows] /\ (list = None \/ DOMAIN list = TaskIds)

ClaimOK == /\ claim \in {"no", "ask", "reply", "stuck"}
           /\ claimed \in TaskIds \cup {None}
           /\ again \in BOOLEAN

EarsOK == /\ swept \in {"no", "sweeping", "yes", "closed"}
          /\ orphans \subseteq TaskIds
          /\ swept # "sweeping" => orphans = {}

(* There is room for what is active, and for one more during a claim. *)
RoomFor(r) == /\ IsFiniteSet(Active(r))
              /\ Cardinality(Active(r)) <= RunningCap
              /\ claim \in {"ask", "reply"} => Cardinality(Active(r)) < RunningCap

Room == RoomFor(run)

SweepFirst == swept \in {"no", "sweeping"} =>
                 claim = "no" /\ claimed = None /\ Active(run) = {}

IInv == DaemonOK /\ ClaimOK /\ EarsOK /\ RunsOK /\ Room /\ SweepFirst

------------------------------------------------------------------------------
(* Runs that move, without one beginning or ending, keep the room there is. *)
LEMMA RoomStays ==
    ASSUME IInv, Active(run') = Active(run), UNCHANGED claim
    PROVE  Room'
BY DEF IInv, Room, RoomFor

LEMMA Moves ==
    ASSUME IInv, NEW t \in TaskIds, NEW r \in RunRecord,
           run' = [run EXCEPT ![t] = r],
           run[t].at # "off", r.at # "off", RunOK(r),
           filed \subseteq filed', filed' \subseteq Cards,
           r.cards \cup r.released \subseteq filed',
           DaemonOK', UNCHANGED <<ears, claiming>>
    PROVE  IInv'
<1>1. RunsOK'
    BY DEF IInv, RunsOK
<1>2. Active(run') = Active(run)
    BY DEF IInv, RunsOK, Active
<1>3. Room'
    BY <1>2, RoomStays DEF claiming
<1> QED
    BY <1>1, <1>2, <1>3 DEF IInv, ClaimOK, EarsOK, SweepFirst, ears, claiming

(* What a run has in its record, whatever it is doing. *)
LEMMA RunNow ==
    ASSUME IInv, NEW t \in TaskIds
    PROVE  run[t] \in RunRecord /\ RunOK(run[t])
           /\ run[t].cards \subseteq filed /\ run[t].released \subseteq filed
BY DEF IInv, RunsOK

(* As Moves, for a step of one run that is seen nowhere else. *)
LEMMA MovesAlone ==
    ASSUME IInv, NEW t \in TaskIds, NEW r \in RunRecord,
           run' = [run EXCEPT ![t] = r],
           run[t].at # "off", r.at # "off", RunOK(r),
           r.cards \cup r.released \subseteq filed,
           UNCHANGED Others
    PROVE  IInv'
<1>1. DaemonOK'
    BY DEF IInv, DaemonOK, Others, daemon
<1>2. filed' = filed /\ filed \subseteq Cards
    BY DEF Others, window, IInv, RunsOK
<1> QED
    BY <1>1, <1>2, Moves DEF Others

LEMMA GoesKeeps ==
    ASSUME IInv, NEW t \in TaskIds, run[t].at # "off", NEW to \in Places \ {"off", "finish"},
           Goes(t, to), UNCHANGED Others
    PROVE  IInv'
<1> DEFINE r == [run[t] EXCEPT !.at = to]
<1>1. r \in RunRecord /\ r.at # "off" /\ RunOK(r) /\ r.cards \cup r.released \subseteq filed
    <2>1. r \in RunRecord
        BY RunNow DEF RunRecord, Places
    <2>2. r.at # "off" /\ RunOK(r)
        BY RunNow DEF RunRecord, RunOK, Places
    <2>3. r.cards \subseteq filed /\ r.released \subseteq filed
        BY RunNow DEF RunRecord
    <2> QED
        BY <2>1, <2>2, <2>3
<1>2. run' = [run EXCEPT ![t] = r]
    BY DEF Goes, IInv, RunsOK
<1> QED
    BY <1>1, <1>2, MovesAlone

LEMMA FailureKeeps ==
    ASSUME IInv, NEW t \in TaskIds, run[t].at # "off", Report(t, "failed"), UNCHANGED Others
    PROVE  IInv'
<1> DEFINE r == [run[t] EXCEPT !.at = "finish", !.outcome = "failed"]
<1>1. r \in RunRecord /\ r.at # "off" /\ RunOK(r) /\ r.cards \cup r.released \subseteq filed
    <2>1. r \in RunRecord
        BY RunNow DEF RunRecord, Places
    <2>2. r.at # "off" /\ RunOK(r)
        BY RunNow DEF RunRecord, RunOK, Places
    <2>3. r.cards \subseteq filed /\ r.released \subseteq filed
        BY RunNow DEF RunRecord
    <2> QED
        BY <2>1, <2>2, <2>3
<1>2. run' = [run EXCEPT ![t] = r]
    BY DEF Report, IInv, RunsOK
<1> QED
    BY <1>1, <1>2, MovesAlone

(* A frame changes nothing but the bus. *)
LEMMA RowTo ==
    ASSUME IInv, NEW t \in TaskIds, NEW status \in Rows,
           row' = [row EXCEPT ![t] = status], UNCHANGED list
    PROVE  DaemonOK'
BY DEF IInv, DaemonOK

LEMMA DaemonOnly ==
    ASSUME IInv, DaemonOK', UNCHANGED <<ears, claiming, run, window>>
    PROVE  IInv'
BY DEF IInv, ClaimOK, EarsOK, RunsOK, Room, RoomFor, SweepFirst, ears, claiming, window

(* The loop of tickRunner claims only when there is room. *)
LEMMA TickClaims ==
    ASSUME IInv, NEW r, NEW oncemore \in BOOLEAN, Tick(r, oncemore), RoomFor(r)
    PROVE  /\ ClaimOK'
           /\ claim' \in {"ask", "reply"} => Cardinality(Active(r)) < RunningCap
<1>1. CASE swept = "closed" \/ claim # "no"
    BY <1>1 DEF Tick, IInv, ClaimOK, RoomFor, claiming
<1>2. CASE swept # "closed" /\ claim = "no"
    BY <1>2 DEF Tick, Round, HasRoom, IInv, ClaimOK
<1> QED
    BY <1>1, <1>2

(* A stop marks runs and ends none. *)
LEMMA AbortKeeps ==
    ASSUME IInv, NEW S, Abort(S), UNCHANGED filed
    PROVE  RunsOK' /\ Active(run') = Active(run)
<1>1. ASSUME NEW t \in TaskIds
      PROVE  /\ run'[t] \in RunRecord /\ RunOK(run'[t])
             /\ run'[t].cards \cup run'[t].released \subseteq filed
             /\ run'[t].at = run[t].at
    <2>1. run'[t] = [run[t] EXCEPT !.aborted = (@ \/ t \in S)]
        BY DEF Abort
    <2>2. run'[t] \in RunRecord
        BY <2>1, RunNow DEF RunRecord
    <2>3. /\ run'[t].at = run[t].at /\ run'[t].cards = run[t].cards
          /\ run'[t].released = run[t].released /\ run'[t].lost = run[t].lost
          /\ run'[t].out = run[t].out /\ run'[t].outcome = run[t].outcome
        BY <2>1, RunNow DEF RunRecord
    <2> QED
        BY <2>2, <2>3, RunNow DEF RunOK
<1>2. \A t \in TaskIds : /\ run'[t] \in RunRecord /\ RunOK(run'[t])
                         /\ run'[t].cards \cup run'[t].released \subseteq filed
                         /\ run'[t].at = run[t].at
    BY <1>1
<1>3. run' \in [TaskIds -> RunRecord]
    BY <1>2 DEF Abort
<1> QED
    BY <1>2, <1>3 DEF IInv, RunsOK, Active

------------------------------------------------------------------------------
(* Claiming *)

LEMMA Opening == ASSUME Init PROVE IInv
<1>1. Active(run) = {}
    BY DEF Init, Active, Off
<1>2. Room
    <2>1. IsFiniteSet(Active(run)) /\ Cardinality(Active(run)) = 0
        BY <1>1, FS_EmptySet
    <2>2. claim = "no" /\ 0 <= RunningCap
        BY TaskRunnerAssumption DEF Init
    <2> QED
        BY <2>1, <2>2 DEF Room, RoomFor
<1>3. RunsOK
    BY TaskRunnerAssumption DEF Init, Off, RunsOK, RunRecord, Places, RunOK
<1> QED
    BY <1>1, <1>2, <1>3 DEF Init, IInv, DaemonOK, Rows, ClaimOK, EarsOK, SweepFirst

LEMMA DaemonClaimsKeeps == ASSUME IInv, DaemonClaims PROVE IInv'
<1>1. claim = "ask" /\ claim' = "reply" /\ again' = again /\ run' = run
    BY DEF DaemonClaims
<1>2. DaemonOK' /\ claimed' \in TaskIds \cup {None}
    <2>1. CASE \E t \in TaskIds : row' = [row EXCEPT ![t] = "running"] /\ claimed' = t
        <3>1. PICK t \in TaskIds : row' = [row EXCEPT ![t] = "running"] /\ claimed' = t
            BY <2>1
        <3>2. DaemonOK'
            BY <3>1, RowTo DEF DaemonClaims, Rows
        <3> QED
            BY <3>1, <3>2
    <2>2. CASE claimed' = None /\ row' = row
        BY <2>2 DEF DaemonClaims, IInv, DaemonOK
    <2> QED
        BY <2>1, <2>2 DEF DaemonClaims
<1>3. Room'
    BY <1>1 DEF IInv, Room, RoomFor
<1>4. RunsOK' /\ EarsOK' /\ SweepFirst'
    BY <1>1 DEF DaemonClaims, IInv, RunsOK, EarsOK, SweepFirst, ears, window
<1> QED
    BY <1>1, <1>2, <1>3, <1>4 DEF IInv, ClaimOK

(* The reply binds one more run, for which there was room. *)
LEMMA ClaimReplyKeeps == ASSUME IInv, ClaimReply PROVE IInv'
<1>1. claim = "reply" /\ Cardinality(Active(run)) < RunningCap
    BY DEF ClaimReply, IInv, Room, RoomFor
<1>2. DaemonOK' /\ EarsOK' /\ SweepFirst' /\ filed' = filed
    BY <1>1 DEF ClaimReply, IInv, DaemonOK, EarsOK, SweepFirst, daemon, ears, window
<1>3. CASE claimed = None \/ claimed \in Active(run)
    <2>1. run' = run
        BY <1>3 DEF ClaimReply
    <2>2. ClaimOK'
        BY <1>3 DEF ClaimReply, Round, IInv, ClaimOK
    <2>3. Room' /\ RunsOK'
        BY <1>1, <1>2, <2>1 DEF IInv, Room, RoomFor, RunsOK
    <2> QED
        BY <1>2, <2>2, <2>3 DEF IInv
<1>4. CASE ~(claimed = None \/ claimed \in Active(run))
    <2>1. claimed \in TaskIds /\ Bound(claimed) /\ Round(run', "no")
        BY <1>4 DEF ClaimReply, IInv, ClaimOK
    <2>2. PICK at \in {"publish", "open"} : run' = [run EXCEPT ![claimed] = [Off EXCEPT !.at = at]]
        BY <2>1 DEF Bound
    <2> DEFINE r == [Off EXCEPT !.at = at]
    <2>3. RunsOK'
        <3>0. Off \in RunRecord
            BY TaskRunnerAssumption DEF Off, RunRecord, Places
        <3>1. r \in RunRecord
            BY <3>0 DEF RunRecord, Places
        <3>2. r.at # "finish" /\ r.cards = {} /\ r.released = {} /\ r.lost = {}
            BY DEF Off
        <3> QED
            BY <1>2, <2>1, <2>2, <3>1, <3>2 DEF IInv, RunsOK, RunOK
    <2>4. Active(run') = Active(run) \cup {claimed}
        BY <2>1, <2>2 DEF IInv, RunsOK, Active, Off
    <2>5. /\ IsFiniteSet(Active(run')) /\ Cardinality(Active(run')) = Cardinality(Active(run)) + 1
          /\ Cardinality(Active(run)) \in Nat
        BY <1>4, <2>4, FS_AddElement, FS_CardinalityType DEF IInv, Room, RoomFor
    <2>6. Room'
        <3>1. claim' \in {"ask", "reply"} => Cardinality(Active(run')) < RunningCap
            BY <2>1 DEF Round, HasRoom
        <3>2. Cardinality(Active(run')) <= RunningCap
            BY <1>1, <2>5, TaskRunnerAssumption
        <3>3. Active(run)' = Active(run')
            BY DEF Active
        <3> QED
            BY <2>5, <3>1, <3>2, <3>3 DEF Room, RoomFor
    <2>7. ClaimOK' /\ Room'
        <3>1. claim' \in {"no", "ask"} /\ claimed' = None
            BY <1>4, <2>1 DEF Round, ClaimReply
        <3>2. again' = (again /\ HasRoom(run'))
            BY <1>4 DEF ClaimReply
        <3> QED
            BY <2>6, <3>1, <3>2 DEF HasRoom, IInv, ClaimOK
    <2> QED
        BY <1>2, <2>3, <2>7 DEF IInv
<1> QED
    BY <1>3, <1>4

LEMMA ClaimFailsKeeps == ASSUME IInv, ClaimFails PROVE IInv'
BY DEF ClaimFails, IInv, DaemonOK, ClaimOK, EarsOK, RunsOK, Room, RoomFor, SweepFirst,
       daemon, ears, window

------------------------------------------------------------------------------
(* What the runner hears *)

(* Aborting some runs and going round the claim loop. *)
LEMMA HearsKeeps ==
    ASSUME IInv, swept = "yes", NEW S, Abort(S), NEW oncemore \in BOOLEAN,
           Tick(run, oncemore) \/ UNCHANGED claiming, DaemonOK', UNCHANGED <<ears, window>>
    PROVE  IInv'
<1>1. RunsOK' /\ Active(run') = Active(run)
    BY AbortKeeps DEF window
<1>2. ClaimOK' /\ (claim' \in {"ask", "reply"} => Cardinality(Active(run)) < RunningCap)
    BY TickClaims DEF IInv, Room, ClaimOK, RoomFor, claiming
<1>3. Room'
    BY <1>1, <1>2 DEF IInv, Room, RoomFor
<1> QED
    BY <1>1, <1>2, <1>3 DEF IInv, EarsOK, SweepFirst, ears

LEMMA HearFrameKeeps == ASSUME IInv, HearFrame PROVE IInv'
<1>1. DaemonOK'
    BY DEF HearFrame, IInv, DaemonOK
<1>2. CASE swept = "yes"
    <2>1. PICK S : Abort(S)
        BY <1>2 DEF HearFrame
    <2>2. Tick(run, FALSE) \/ UNCHANGED claiming
        BY <1>2 DEF HearFrame
    <2> QED
        BY <1>1, <1>2, <2>1, <2>2, HearsKeeps DEF HearFrame
<1>3. CASE swept # "yes"
    BY <1>1, <1>3, DaemonOnly DEF HearFrame
<1> QED
    BY <1>2, <1>3

LEMMA ReconcileKeeps == ASSUME IInv, Reconcile PROVE IInv'
<1>1. DaemonOK'
    BY DEF Reconcile, IInv, DaemonOK
<1> QED
    BY <1>1, HearsKeeps DEF Reconcile

LEMMA FirstListKeeps == ASSUME IInv, FirstList PROVE IInv'
BY DEF FirstList, IInv, DaemonOK, ClaimOK, EarsOK, RunsOK, Room, RoomFor, SweepFirst,
       daemon, claiming, window

LEMMA SweepKeeps == ASSUME IInv, NEW t \in TaskIds, Sweep(t) PROVE IInv'
<1>1. DaemonOK'
    <2>1. CASE row' = [row EXCEPT ![t] = "failed"]
        BY <2>1, RowTo DEF Sweep, Rows
    <2>2. CASE row' = row
        BY <2>2 DEF Sweep, IInv, DaemonOK
    <2> QED
        BY <2>1, <2>2 DEF Sweep
<1>2. EarsOK' /\ SweepFirst'
    BY DEF Sweep, IInv, EarsOK, SweepFirst, claiming
<1>3. ClaimOK' /\ RunsOK' /\ Room'
    BY DEF Sweep, IInv, ClaimOK, RunsOK, Room, RoomFor, claiming, window
<1> QED
    BY <1>1, <1>2, <1>3 DEF IInv

LEMMA SweptKeeps == ASSUME IInv, Swept PROVE IInv'
BY DEF Swept, IInv, DaemonOK, ClaimOK, EarsOK, RunsOK, Room, RoomFor, SweepFirst,
       daemon, claiming, window

------------------------------------------------------------------------------
(* One task *)

LEMMA RequestKeeps == ASSUME IInv, NEW t \in TaskIds, Request(t) PROVE IInv'
<1> DEFINE r == [run[t] EXCEPT !.at = "stream", !.out = FALSE]
<1>1. r \in RunRecord /\ r.at # "off" /\ RunOK(r) /\ r.cards \cup r.released \subseteq filed
    <2>1. r \in RunRecord
        BY RunNow DEF RunRecord, Places
    <2>2. r.at # "off" /\ RunOK(r)
        BY RunNow DEF RunRecord, RunOK, Places
    <2>3. r.cards \subseteq filed /\ r.released \subseteq filed
        BY RunNow DEF RunRecord
    <2> QED
        BY <2>1, <2>2, <2>3
<1>2. run' = [run EXCEPT ![t] = r] /\ run[t].at # "off"
    BY DEF Request, Alive, IInv, RunsOK
<1> QED
    BY <1>1, <1>2, MovesAlone DEF Request

LEMMA FileCardKeeps ==
    ASSUME IInv, NEW t \in TaskIds, NEW c \in Cards, FileCard(t, c) PROVE IInv'
<1> DEFINE r == [run[t] EXCEPT !.cards = @ \cup {c}]
<1>1. run' = [run EXCEPT ![t] = r] /\ run[t].at = "stream"
    BY DEF FileCard, Alive, IInv, RunsOK
<1>2. r \in RunRecord /\ r.at # "off" /\ RunOK(r)
    BY <1>1 DEF IInv, RunsOK, RunRecord, RunOK
<1>3. filed \subseteq filed' /\ filed' \subseteq Cards /\ r.cards \cup r.released \subseteq filed'
    BY DEF FileCard, IInv, RunsOK, RunRecord
<1>4. DaemonOK' /\ UNCHANGED <<ears, claiming>>
    BY DEF FileCard, IInv, DaemonOK, daemon
<1> QED
    BY <1>1, <1>2, <1>3, <1>4, Moves

(* drive, after a turn: the four ways to go on. *)
LEMMA SettlesKeeps == ASSUME IInv, NEW t \in TaskIds, Settles(t) PROVE IInv'
<1>1. run[t].at = "settle" /\ UNCHANGED Others
    BY DEF Settles, Alive
<1>2. CASE /\ run[t].step < MaxContinuations
           /\ run' = [run EXCEPT ![t].at = "publish", ![t].step = @ + 1]
    <2> DEFINE r == [run[t] EXCEPT !.at = "publish", !.step = @ + 1]
    <2>1. run' = [run EXCEPT ![t] = r]
        BY <1>2 DEF IInv, RunsOK
    <2>2. run[t].step + 1 \in 0 .. MaxContinuations
        BY <1>2, TaskRunnerAssumption DEF IInv, RunsOK, RunRecord
    <2>3. r \in RunRecord /\ r.at # "off" /\ RunOK(r) /\ r.cards \cup r.released \subseteq filed
        <3>1. r \in RunRecord
            BY <2>2, RunNow DEF RunRecord, Places
        <3>2. r.at # "off" /\ RunOK(r)
            BY <2>2, RunNow DEF RunRecord, RunOK, Places
        <3>3. r.cards \subseteq filed /\ r.released \subseteq filed
            BY RunNow DEF RunRecord
        <3> QED
            BY <3>1, <3>2, <3>3
    <2> QED
        BY <1>1, <2>1, <2>3, MovesAlone
<1>3. CASE Report(t, "failed")
    BY <1>1, <1>3, FailureKeeps
<1>4. CASE Goes(t, "rest")
    BY <1>1, <1>4, GoesKeeps DEF Places
<1>5. CASE /\ ~run[t].out /\ run[t].cards \cup run[t].released = {}
           /\ Report(t, "done")
    <2> DEFINE r == [run[t] EXCEPT !.at = "finish", !.outcome = "done"]
    <2>1. run' = [run EXCEPT ![t] = r]
        BY <1>5 DEF Report, IInv, RunsOK
    <2>2. r \in RunRecord /\ r.at # "off" /\ RunOK(r) /\ r.cards \cup r.released \subseteq filed
        <3>1. r \in RunRecord
            BY <1>5, RunNow DEF RunRecord, Places
        <3>2. r.at # "off" /\ RunOK(r)
            BY <1>5, RunNow DEF RunRecord, RunOK, Places
        <3>3. r.cards \subseteq filed /\ r.released \subseteq filed
            BY RunNow DEF RunRecord
        <3> QED
            BY <3>1, <3>2, <3>3
    <2> QED
        BY <1>1, <2>1, <2>2, MovesAlone
<1> QED
    BY <1>2, <1>3, <1>4, <1>5 DEF Settles

(* A card of a run, or of one that has ended, changes hands. *)
LEMMA CardsMove ==
    ASSUME IInv, NEW t \in TaskIds, NEW r \in RunRecord,
           run' = [run EXCEPT ![t] = r], r.at = run[t].at, RunOK(r),
           r.cards \cup r.released \subseteq filed, UNCHANGED Others
    PROVE  IInv'
<1>1. RunsOK'
    BY DEF IInv, RunsOK, Others, window
<1>2. Active(run') = Active(run)
    BY DEF IInv, RunsOK, Active
<1>3. Room'
    BY <1>2, RoomStays DEF Others, claiming
<1> QED
    BY <1>1, <1>2, <1>3 DEF IInv, DaemonOK, ClaimOK, EarsOK, SweepFirst, Others, daemon, ears, claiming

LEMMA AnswerKeeps ==
    ASSUME IInv, NEW t \in TaskIds, NEW c \in Cards, Answer(t, c) PROVE IInv'
<1> DEFINE r == [run[t] EXCEPT !.cards = @ \ {c}, !.released = @ \cup {c}]
<1>1. run' = [run EXCEPT ![t] = r] /\ UNCHANGED Others
    BY DEF Answer, IInv, RunsOK
<1>2. c \in run[t].cards /\ c \notin run[t].lost
    BY DEF Answer
<1>3. r \in RunRecord /\ r.at = run[t].at
    BY RunNow DEF RunRecord
<1>4. RunOK(r)
    <2>1. r.lost \subseteq r.cards
        BY <1>2, RunNow DEF RunRecord, RunOK
    <2>2. ~(run[t].at = "finish" /\ run[t].outcome = "done")
        BY <1>2, RunNow DEF RunOK
    <2>3. r.at = "finish" => r.outcome = "failed"
        BY <2>2, RunNow DEF RunRecord, RunOK
    <2> QED
        BY <2>1, <2>3 DEF RunOK
<1>5. r.cards \cup r.released \subseteq filed
    BY <1>2, RunNow DEF RunRecord
<1> HIDE DEF r
<1> QED
    BY <1>1, <1>3, <1>4, <1>5, CardsMove

LEMMA AnswerLostKeeps ==
    ASSUME IInv, NEW t \in TaskIds, NEW c \in Cards, AnswerLost(t, c) PROVE IInv'
<1> DEFINE r == [run[t] EXCEPT !.lost = @ \cup {c}]
<1>1. run' = [run EXCEPT ![t] = r] /\ c \in run[t].cards /\ UNCHANGED Others
    BY DEF AnswerLost, IInv, RunsOK
<1>2. r \in RunRecord /\ RunOK(r) /\ r.cards \cup r.released \subseteq filed
    <2>1. r \in RunRecord
        BY RunNow DEF RunRecord
    <2>2. RunOK(r)
        BY <1>1, RunNow DEF RunRecord, RunOK
    <2>3. r.cards \subseteq filed /\ r.released \subseteq filed
        BY RunNow DEF RunRecord
    <2> QED
        BY <2>1, <2>2, <2>3
<1>3. r.at = run[t].at
    BY RunNow DEF RunRecord
<1> HIDE DEF r
<1> QED
    BY <1>1, <1>2, <1>3, CardsMove

LEMMA WokenKeeps == ASSUME IInv, NEW t \in TaskIds, Woken(t) PROVE IInv'
<1>1. PICK ran \in BOOLEAN :
         run' = [run EXCEPT ![t].at = IF ran THEN "act" ELSE "publish",
                            ![t].released = {}, ![t].step = 0]
    BY DEF Woken
<1> DEFINE to == IF ran THEN "act" ELSE "publish"
           r == [run[t] EXCEPT !.at = to, !.released = {}, !.step = 0]
<1>2. run' = [run EXCEPT ![t] = r] /\ run[t].at # "off"
    BY <1>1 DEF Woken, Alive, IInv, RunsOK
<1>3. to \in {"act", "publish"} /\ 0 \in 0 .. MaxContinuations
    BY TaskRunnerAssumption
<1> HIDE DEF to
<1>4. r \in RunRecord /\ r.at # "off" /\ RunOK(r) /\ r.cards \cup r.released \subseteq filed
    <2>1. r \in RunRecord
        BY <1>3, RunNow DEF RunRecord, Places
    <2>2. r.at # "off" /\ RunOK(r)
        BY <1>3, RunNow DEF RunRecord, RunOK, Places
    <2>3. r.cards \subseteq filed /\ r.released \subseteq filed
        BY RunNow DEF RunRecord
    <2> QED
        BY <2>1, <2>2, <2>3
<1> QED
    BY <1>2, <1>4, MovesAlone DEF Woken

(* The page has answered: there is something to tell her. *)
LEMMA AnswersKeep ==
    ASSUME IInv, NEW t \in TaskIds, PageAnswers(t) \/ ActAnswers(t) PROVE IInv'
<1>1. PICK to \in {"settle", "publish"} : run' = [run EXCEPT ![t].at = to, ![t].out = TRUE]
    BY DEF PageAnswers, ActAnswers
<1> DEFINE r == [run[t] EXCEPT !.at = to, !.out = TRUE]
<1>2. run' = [run EXCEPT ![t] = r] /\ run[t].at # "off" /\ UNCHANGED Others
    BY <1>1 DEF PageAnswers, ActAnswers, IInv, RunsOK
<1>3. r \in RunRecord /\ r.at # "off" /\ RunOK(r) /\ r.cards \cup r.released \subseteq filed
    <2>1. r \in RunRecord
        BY RunNow DEF RunRecord, Places
    <2>2. r.at # "off" /\ RunOK(r)
        BY RunNow DEF RunRecord, RunOK, Places
    <2>3. r.cards \subseteq filed /\ r.released \subseteq filed
        BY RunNow DEF RunRecord
    <2> QED
        BY <2>1, <2>2, <2>3
<1> QED
    BY <1>2, <1>3, MovesAlone

LEMMA FinishKeeps == ASSUME IInv, NEW t \in TaskIds, Finish(t) PROVE IInv'
<1> DEFINE r == [run[t] EXCEPT !.at = "end"]
<1>1. run' = [run EXCEPT ![t] = r] /\ run[t].at = "finish"
    BY DEF Finish, Goes, IInv, RunsOK
<1>2. r \in RunRecord /\ r.at # "off" /\ RunOK(r) /\ r.cards \cup r.released \subseteq filed
    <2>1. r \in RunRecord
        BY RunNow DEF RunRecord, Places
    <2>2. r.at # "off" /\ RunOK(r)
        BY RunNow DEF RunRecord, RunOK, Places
    <2>3. r.cards \subseteq filed /\ r.released \subseteq filed
        BY RunNow DEF RunRecord
    <2> QED
        BY <2>1, <2>2, <2>3
<1>3. DaemonOK'
    <2>1. run[t].outcome \in Rows
        BY <1>1 DEF IInv, RunsOK, RunOK, Rows
    <2>2. CASE row' = [row EXCEPT ![t] = run[t].outcome]
        BY <2>1, <2>2, RowTo DEF Finish
    <2>3. CASE row' = row
        BY <2>3 DEF Finish, IInv, DaemonOK
    <2> QED
        BY <2>2, <2>3 DEF Finish
<1>4. filed' = filed /\ filed \subseteq Cards
    BY DEF Finish, window, IInv, RunsOK
<1> QED
    BY <1>1, <1>2, <1>3, <1>4, Moves DEF Finish

LEMMA EndsKeeps == ASSUME IInv, NEW t \in TaskIds, Ends(t) PROVE IInv'
<1>1. run' = [run EXCEPT ![t] = Off] /\ run[t].at = "end" /\ Tick(run', FALSE)
    BY DEF Ends
<1>2. Active(run') = Active(run) \ {t}
    BY <1>1 DEF IInv, RunsOK, Active, Off
<1>3. RoomFor(run')
    <2>1. t \in Active(run)
        BY <1>1 DEF Active
    <2>2. /\ IsFiniteSet(Active(run')) /\ Cardinality(Active(run')) = Cardinality(Active(run)) - 1
          /\ Cardinality(Active(run)) \in Nat
        BY <1>2, <2>1, FS_RemoveElement, FS_CardinalityType DEF IInv, Room, RoomFor
    <2> QED
        BY <2>2, TaskRunnerAssumption DEF IInv, Room, RoomFor
<1>4. ClaimOK' /\ Room'
    <2>1. ClaimOK' /\ (claim' \in {"ask", "reply"} => Cardinality(Active(run')) < RunningCap)
        BY <1>1, <1>3, TickClaims
    <2> QED
        BY <1>3, <2>1 DEF Room, RoomFor
<1>5. RunsOK'
    <2>1. Off \in RunRecord /\ RunOK(Off) /\ Off.cards \cup Off.released = {}
        BY TaskRunnerAssumption DEF Off, RunRecord, Places, RunOK
    <2> QED
        BY <1>1, <2>1 DEF Ends, window, IInv, RunsOK
<1>6. DaemonOK' /\ EarsOK'
    BY DEF Ends, IInv, DaemonOK, EarsOK, daemon, ears
<1>7. SweepFirst'
    BY <1>1 DEF Ends, IInv, SweepFirst, Active, ears
<1> QED
    BY <1>4, <1>5, <1>6, <1>7 DEF IInv

LEMMA WorksKeeps == ASSUME IInv, NEW t \in TaskIds, Works(t) PROVE IInv'
<1>1. CASE OpenTab(t) \/ ToolsReady(t) \/ TurnCancelled(t) \/ TurnFinished(t)
    <2>1. run[t].at # "off" /\ UNCHANGED Others
        BY <1>1 DEF OpenTab, ToolsReady, TurnCancelled, TurnFinished, Alive
    <2>2. PICK to \in {"tools", "publish", "end", "page", "settle"} : Goes(t, to)
        BY <1>1 DEF OpenTab, ToolsReady, TurnCancelled, TurnFinished
    <2> QED
        BY <2>1, <2>2, GoesKeeps DEF Places
<1>2. CASE Fails(t)
    BY <1>2, FailureKeeps DEF Fails, Alive
<1>3. CASE FindsAbort(t)
    <2>1. run[t].at # "off" /\ UNCHANGED Others
        BY <1>3 DEF FindsAbort
    <2>2. Report(t, "failed") \/ Goes(t, "end")
        BY <1>3 DEF FindsAbort
    <2> QED
        BY <2>1, <2>2, FailureKeeps, GoesKeeps DEF Places
<1> QED
    BY <1>1, <1>2, <1>3, RequestKeeps, SettlesKeeps, WokenKeeps, AnswersKeep, FinishKeeps,
       EndsKeeps, AnswerKeeps, AnswerLostKeeps DEF Works

------------------------------------------------------------------------------
(* The daemon, the person and the window *)

LEMMA DelegateKeeps == ASSUME IInv, NEW t \in TaskIds, Delegate(t) PROVE IInv'
BY RowTo, DaemonOnly DEF Delegate, Rows

LEMMA StopKeeps == ASSUME IInv, NEW t \in TaskIds, Stop(t) PROVE IInv'
BY RowTo, DaemonOnly DEF Stop, Rows

LEMMA ReadListKeeps == ASSUME IInv, ReadList PROVE IInv'
<1>1. DaemonOK'
    BY DEF ReadList, IInv, DaemonOK
<1> QED
    BY <1>1, DaemonOnly DEF ReadList

LEMMA MissFramesKeeps == ASSUME IInv, MissFrames PROVE IInv'
<1>1. DaemonOK'
    BY DEF MissFrames, IInv, DaemonOK
<1> QED
    BY <1>1, DaemonOnly DEF MissFrames

LEMMA CloseKeeps == ASSUME IInv, Close PROVE IInv'
<1>1. ASSUME NEW t \in TaskIds
      PROVE  /\ run'[t] \in RunRecord /\ RunOK(run'[t])
             /\ run'[t].cards \cup run'[t].released \subseteq filed
             /\ run'[t].at = run[t].at
    <2>1. run'[t] = [run[t] EXCEPT !.aborted = (@ \/ t \in Active(run)),
                                   !.abandoned = (@ \/ t \in Active(run))]
        BY DEF Close
    <2>2. run'[t] \in RunRecord
        BY <2>1, RunNow DEF RunRecord
    <2>3. /\ run'[t].at = run[t].at /\ run'[t].cards = run[t].cards
          /\ run'[t].released = run[t].released /\ run'[t].lost = run[t].lost
          /\ run'[t].out = run[t].out /\ run'[t].outcome = run[t].outcome
        BY <2>1, RunNow DEF RunRecord
    <2> QED
        BY <2>2, <2>3, RunNow DEF RunOK
<1>2. \A t \in TaskIds : /\ run'[t] \in RunRecord /\ RunOK(run'[t])
                         /\ run'[t].cards \cup run'[t].released \subseteq filed
                         /\ run'[t].at = run[t].at
    BY <1>1
<1>3. RunsOK' /\ Active(run') = Active(run)
    <2>1. run' \in [TaskIds -> RunRecord]
        BY <1>2 DEF Close
    <2> QED
        BY <1>2, <2>1 DEF Close, window, IInv, RunsOK, Active
<1>4. Room'
    BY <1>3, RoomStays DEF Close, claiming
<1> QED
    BY <1>3, <1>4 DEF Close, IInv, DaemonOK, ClaimOK, EarsOK, SweepFirst, daemon, claiming

LEMMA ReloadKeeps == ASSUME IInv, Reload PROVE IInv'
<1>1. Active(run)' = {}
    BY DEF Reload, Active, Off
<1>2. Room'
    <2>1. IsFiniteSet(Active(run)') /\ Cardinality(Active(run)') = 0
        BY <1>1, FS_EmptySet
    <2>2. claim' = "no" /\ 0 <= RunningCap
        BY TaskRunnerAssumption DEF Reload
    <2> QED
        BY <2>1, <2>2 DEF Room, RoomFor
<1>3. RunsOK'
    BY TaskRunnerAssumption DEF Reload, Off, RunsOK, RunRecord, Places, RunOK
<1> QED
    BY <1>1, <1>2, <1>3 DEF Reload, IInv, DaemonOK, ClaimOK, EarsOK, SweepFirst

LEMMA NextKeeps == ASSUME IInv, [Next]_vars PROVE IInv'
<1>1. CASE Hears
    BY <1>1, HearFrameKeeps, FirstListKeeps, SweptKeeps, ReconcileKeeps, SweepKeeps DEF Hears
<1>2. CASE Claims \/ ClaimFails
    BY <1>2, DaemonClaimsKeeps, ClaimReplyKeeps, ClaimFailsKeeps DEF Claims
<1>3. CASE ReadList \/ MissFrames \/ Close \/ Reload
    BY <1>3, ReadListKeeps, MissFramesKeeps, CloseKeeps, ReloadKeeps
<1>4. ASSUME NEW t \in TaskIds,
             Works(t) \/ Delegate(t) \/ Stop(t) \/ \E c \in Cards : FileCard(t, c)
      PROVE  IInv'
    BY <1>4, WorksKeeps, DelegateKeeps, StopKeeps, FileCardKeeps
<1>5. CASE UNCHANGED vars
    BY <1>5 DEF vars, daemon, ears, claiming, window, IInv, DaemonOK, ClaimOK, EarsOK,
       RunsOK, Room, RoomFor, SweepFirst
<1> QED
    BY <1>1, <1>2, <1>3, <1>4, <1>5 DEF Next

LEMMA Invariant == Spec => []IInv
BY Opening, NextKeeps, PTL DEF Spec

------------------------------------------------------------------------------
(* Every variable has its type, and there are never more runs in the       *)
(* window than TASKS_RUNNING_CAP, however claims, stops and frames fall.   *)
THEOREM TypeCorrect == Spec => []TypeOK
<1>1. ASSUME IInv PROVE TypeOK
    <2>1. /\ row \in [TaskIds -> {"none", "queued", "running", "done", "failed", "killed"}]
          /\ list = None \/ DOMAIN list = TaskIds
        BY <1>1 DEF IInv, DaemonOK, Rows
    <2>2. \A t \in TaskIds : /\ run[t].step \in 0 .. MaxContinuations
                             /\ run[t].cards \cup run[t].released \subseteq filed
                             /\ run[t].lost \subseteq run[t].cards
        BY <1>1 DEF IInv, RunsOK, RunRecord, RunOK
    <2>3. Cardinality(Active(run)) <= RunningCap
        BY <1>1 DEF IInv, Room, RoomFor
    <2> QED
        BY <1>1, <2>1, <2>2, <2>3 DEF IInv, ClaimOK, EarsOK, TypeOK
<1> QED
    BY <1>1, Invariant, PTL

(* The sweep of orphans reports no task failed that this window drives, or *)
(* has just claimed: nothing is claimed or driven until it is over.        *)
THEOREM SweepSpares == Spec => []SweepSparesOurs
<1>1. IInv => SweepSparesOurs
    BY TaskRunnerAssumption
    DEF IInv, ClaimOK, EarsOK, SweepFirst, Active, SweepSparesOurs
<1> QED
    BY <1>1, Invariant, PTL

(* A run that is to be reported done has no card with the person, no       *)
(* answer unused and nothing of the page untold.                           *)
THEOREM DoneIsDone == Spec => []DoneLeavesNothing
<1>1. IInv => DoneLeavesNothing
    BY DEF IInv, RunsOK, RunOK, DoneLeavesNothing
<1> QED
    BY <1>1, Invariant, PTL

=============================================================================
