---------------------------- MODULE DecisionGate ----------------------------
(***************************************************************************)
(* Answering a card, from POST /decisions/<id> to the executor and back:   *)
(*                                                                         *)
(*   daemon/decisions.py   decide            takes the card's lock         *)
(*   lane/browser_lane.py  answer_decision   resolves, replays, records    *)
(*   harness/policy.py     PolicyHook        asks policy again             *)
(*   harness/hooks.py      GateHook          checks the grant, spends it,  *)
(*                                           lets the action through       *)
(*   core/approvals.py     Approvals         the table (module Approvals)  *)
(*                                                                         *)
(* A caller of Approvals is here a thread answering a card.  Its resolve   *)
(* is the one of Approvals, step by step; what follows a resolve that won  *)
(* or was refused is added here.  Some callers come through the route and  *)
(* hold the card's lock for the whole answer (module KeyedLocks); others   *)
(* hold an approval id and call the lane without it, which the gate must   *)
(* survive too (ADR 0038).                                                 *)
(***************************************************************************)
EXTENDS Approvals

VARIABLES routed,   \* the callers that hold the card's lock while they answer
          allowed,  \* the cards whose tool the catalog holds and policy lets through
          holder,   \* per card, the callers holding its lock
          reason,   \* why the answer under way is being refused
          opened,   \* whether the card's action was allowed at some time of the answer
          ran,      \* how often the action of a card was carried out: its executor
                    \* called, or the page handed the execute instruction
          noted,    \* the verdict episodes written for a card
          paged     \* the cards whose action was left to a page

gateVars == <<vars, routed, allowed, holder, reason, opened, ran, noted, paged>>

GateInit == /\ Init
            /\ pc = [c \in Callers |-> "closed"]
            /\ routed \in {{}, Callers}
            /\ allowed = Cards
            /\ holder = [a \in Cards |-> {}]
            /\ reason = [c \in Callers |-> ""]
            /\ opened = [c \in Callers |-> FALSE]
            /\ ran = [a \in Cards |-> 0]
            /\ noted = [a \in Cards |-> [v \in {"approved", "declined"} |-> 0]]
            /\ paged = {}

records == <<ran, noted, paged>>

------------------------------------------------------------------------------
(* The environment *)

(* GateHook.before_tool_call: a turn's gated call files a card, when       *)
(* policy lets the call be proposed at all.                                *)
FileCard(c, a) == /\ a \in allowed
                  /\ Create(c, a)
                  /\ UNCHANGED <<routed, allowed, holder, reason, opened, records>>

(* The user switches an app or a connector off or on, a page that          *)
(* published the tool goes or comes back.                                  *)
Toggle(a) == /\ allowed' = IF a \in allowed THEN allowed \ {a} ELSE allowed \cup {a}
             /\ opened' = [c \in Callers |->
                             opened[c] \/ (a \notin allowed /\ call[c].card = a
                                             /\ pc[c] \notin {"closed", "idle"})]
             /\ UNCHANGED <<vars, routed, holder, reason, records>>

TimePasses == Tick /\ UNCHANGED <<routed, allowed, holder, reason, opened, records>>

OpenTable(c) == Open(c) /\ UNCHANGED <<routed, allowed, holder, reason, opened, records>>

------------------------------------------------------------------------------
(* The answer *)

Quiet == UNCHANGED <<routed, allowed, holder, opened, records>>

(* decide: the card exists, and the answer queues for its lock. *)
Answer(c, a, choice) ==
    /\ row[a].status # "absent"
    /\ Goto(c, "idle", "queue")
    /\ call' = [call EXCEPT ![c] = [Idle EXCEPT !.card = a, !.choice = choice]]
    /\ opened' = [opened EXCEPT ![c] = a \in allowed]
    /\ UNCHANGED <<table, now, told, routed, allowed, holder, reason, records>>

(* Mutant: the answer does not wait for the card's lock. *)
TakeBusyCard(c) == /\ Goto(c, "queue", "check")
                   /\ call' = [call EXCEPT ![c].seen = row[call[c].card].status]
                   /\ UNCHANGED <<table, now, told, routed, allowed, holder, reason, opened, records>>

(* daemon.card(id) is granted, and resolve reads the row. *)
TakeCard(c) ==
    LET a == call[c].card
    IN  /\ c \in routed => holder[a] = {}
        /\ holder' = IF c \in routed THEN [holder EXCEPT ![a] = {c}] ELSE holder
        /\ Goto(c, "queue", "check")
        /\ call' = [call EXCEPT ![c].seen = row[a].status]
        /\ UNCHANGED <<table, now, told, routed, allowed, reason, opened, records>>

Resolve(c) == /\ ResolveCheck(c) \/ Sweep(c) \/ ResolveWrite(c)
              /\ Quiet
              /\ UNCHANGED reason

(* _reopened: resolve refused, but a yes that was never spent can still be *)
(* answered: declined, or approved again while the card is alive.          *)
NeverLapsed(a) == FALSE      \* mutant: a yes stays good for ever

Lapsed(a) == row[a].expires <= now

Reopen(c) ==
    LET a == call[c].card
        unspent == row[a].status = "approved" /\ row[a].consumed = Null
        yes == call[c].choice = Approve
    IN  /\ pc[c] = "refused"
        /\ \/ ~unspent /\ Goto(c, "refused", "why") /\ UNCHANGED reason
           \/ unspent /\ ~yes /\ Goto(c, "refused", "withdraw") /\ UNCHANGED reason
           \/ unspent /\ yes /\ Lapsed(a) /\ Goto(c, "refused", "refuse")
                /\ reason' = [reason EXCEPT ![c] = "expired"]
           \/ unspent /\ yes /\ ~Lapsed(a) /\ Goto(c, "refused", "describe")
                /\ UNCHANGED reason
        /\ call' = [call EXCEPT ![c].moment = now]
        /\ Quiet
        /\ UNCHANGED <<table, now, told>>

(* decline_approved, as the answer calls it. *)
Withdraw(c) ==
    LET a == call[c].card
        choice == call[c].choice
        offered == choice \in Options \ {Approve}
    IN  /\ Goto(c, "withdraw", IF offered /\ DeclineLands(a, choice) THEN "describe" ELSE "why")
        /\ IF offered THEN DeclineTxn(a, choice) ELSE UNCHANGED <<table, told>>
        /\ Quiet
        /\ UNCHANGED <<now, call, reason>>

(* _why: the reason of a refused resolve, read back from the row. *)
Why(c) == /\ Goto(c, "why", "refuse")
          /\ reason' = [reason EXCEPT ![c] =
                          IF row[call[c].card].status = "expired"
                          THEN "expired" ELSE "pending_approval"]
          /\ Quiet
          /\ UNCHANGED <<table, now, call, told>>

(* answer_decision reads the row again: a no is recorded, a yes replayed.  *)
Describe(c) ==
    LET next == IF row[call[c].card].status = "approved" THEN "authorize" ELSE "note_no"
    IN  /\ Goto(c, "won", next) \/ Goto(c, "describe", next)
        /\ Quiet
        /\ UNCHANGED <<table, now, call, told, reason>>

(* Mutant: policy was asked when the card was filed, and that is enough. *)
AuthorizeOnce(c) == /\ Goto(c, "authorize", "grant")
                    /\ Quiet
                    /\ UNCHANGED <<table, now, call, told, reason>>

(* The replay: the catalog must hold the tool still and PolicyHook.run_tool *)
(* asks policy again before the grant is looked at.                        *)
Authorize(c) ==
    /\ \/ call[c].card \in allowed /\ Goto(c, "authorize", "grant") /\ UNCHANGED reason
       \/ call[c].card \notin allowed /\ Goto(c, "authorize", "refuse")
            /\ reason' = [reason EXCEPT ![c] = "refused"]
    /\ Quiet
    /\ UNCHANGED <<table, now, call, told>>

StatusReason(status) == CASE status = "pending" -> "pending_approval"
                          [] status = "declined" -> "user_denied"
                          [] status = "expired" -> "expired"

(* Mutant: an approved row is let through, and spent by nobody. *)
CheckGrantOnly(c) ==
    /\ Goto(c, "grant", IF row[call[c].card].status = "approved" THEN "execute" ELSE "why")
    /\ Quiet
    /\ UNCHANGED <<table, now, call, told, reason>>

(* _check_grant, the read: only an approved row goes on to be spent. *)
CheckGrant(c) ==
    LET status == row[call[c].card].status
    IN  /\ \/ status = "approved" /\ Goto(c, "grant", "consume") /\ UNCHANGED reason
           \/ status # "approved" /\ Goto(c, "grant", "refuse")
                /\ reason' = [reason EXCEPT ![c] = StatusReason(status)]
        /\ Quiet
        /\ UNCHANGED <<table, now, call, told>>

(* Mutant: the rowcount of the spend is not looked at. *)
SpendBlind(c) == /\ Goto(c, "consume", "execute")
                 /\ ConsumeTxn(call[c].card)
                 /\ Quiet
                 /\ UNCHANGED <<now, call, reason>>

(* _check_grant, the spend, which comes before anything executes. *)
Spend(c) ==
    LET a == call[c].card
        landed == CanMove(a, "approved", "consumed", now)
    IN  /\ Goto(c, "consume", IF landed THEN "execute" ELSE "lost")
        /\ ConsumeTxn(a)
        /\ Quiet
        /\ UNCHANGED <<now, call, reason>>

(* _check_grant after a spend that did not land: what happened instead.    *)
LostSpend(c) ==
    LET status == row[call[c].card].status
    IN  /\ Goto(c, "lost", "refuse")
        /\ reason' = [reason EXCEPT ![c] = IF status \in {"declined", "expired"}
                                           THEN StatusReason(status) ELSE "approval_spent"]
        /\ Quiet
        /\ UNCHANGED <<table, now, call, told>>

(* A tool with an executor in the daemon runs before anything is recorded. *)
Execute(c) == /\ Goto(c, "execute", "note_yes")
              /\ ran' = [ran EXCEPT ![call[c].card] = @ + 1]
              /\ UNCHANGED <<table, now, call, told, routed, allowed, holder, reason, opened,
                             noted, paged>>

(* _execute finds none: the tool is a page's, and nothing has run yet.     *)
LeaveToPage(c) == /\ Goto(c, "execute", "note_page")
                  /\ paged' = paged \cup {call[c].card}
                  /\ UNCHANGED <<table, now, call, told, routed, allowed, holder, reason, opened,
                                 ran, noted>>

(* The answer is over, however it ended: the lock is given back. *)
Finish(c) == /\ pc' = [pc EXCEPT ![c] = "idle"]
             /\ holder' = [a \in Cards |-> holder[a] \ {c}]
             /\ call' = [call EXCEPT ![c] = Idle]
             /\ reason' = [reason EXCEPT ![c] = ""]
             /\ opened' = [opened EXCEPT ![c] = FALSE]
             /\ UNCHANGED <<table, now, told, routed, allowed>>

Write(a, verdict) == noted' = [noted EXCEPT ![a][verdict] = @ + 1]

Note(c, from, verdict) ==
    /\ pc[c] = from
    /\ Write(call[c].card, verdict)
    /\ Finish(c)
    /\ UNCHANGED <<ran, paged>>

NoteNo(c)  == Note(c, "note_no", "declined")    \* episode and ledger row
NoteYes(c) == Note(c, "note_yes", "approved")

(* Of a page's tool the yes is recorded first ...                          *)
NotePage(c) == /\ Goto(c, "note_page", "instruct")
               /\ Write(call[c].card, "approved")
               /\ UNCHANGED <<table, now, call, told, routed, allowed, holder, reason, opened,
                              ran, paged>>

(* ... and then the answer hands the page its execute instruction.         *)
Instruct(c) == /\ pc[c] = "instruct"
               /\ ran' = [ran EXCEPT ![call[c].card] = @ + 1]
               /\ Finish(c)
               /\ UNCHANGED <<noted, paged>>

(* Mutant: a refused answer returns without its lock. *)
RefuseLocked(c) == /\ Goto(c, "refuse", "idle")
                   /\ reason' = [reason EXCEPT ![c] = ""]
                   /\ UNCHANGED <<table, now, call, told, routed, allowed, holder, opened, records>>

Refuse(c) == /\ pc[c] = "refuse"
             /\ Finish(c)
             /\ UNCHANGED records

(* An exception out of any step, or the end of the process: the locks are  *)
(* memory and go with it, the table is what was committed.                 *)
Fail(c) == /\ pc[c] \notin {"closed", "idle"}
           /\ Finish(c)
           /\ UNCHANGED records

Step(c) == \/ TakeCard(c) \/ Resolve(c) \/ Reopen(c) \/ Withdraw(c) \/ Why(c)
           \/ Describe(c) \/ Authorize(c) \/ CheckGrant(c) \/ Spend(c) \/ LostSpend(c)
           \/ Execute(c) \/ LeaveToPage(c) \/ NoteNo(c) \/ NoteYes(c) \/ NotePage(c)
           \/ Instruct(c) \/ Refuse(c)

GateNext ==
    \/ TimePasses
    \/ \E a \in Cards : Toggle(a)
    \/ \E c \in Callers : Step(c) \/ Fail(c) \/ OpenTable(c)
    \/ \E c \in Callers, a \in Cards : FileCard(c, a)
    \/ \E c \in Callers, a \in Cards, choice \in Tokens : Answer(c, a, choice)

GateSpec == GateInit /\ [][GateNext]_gateVars

(* An answer under way goes on: its thread is scheduled, its transactions  *)
(* and its executor (an outbound call of at most twenty seconds) return.   *)
FairGateSpec == GateSpec /\ \A c \in Callers : WF_gateVars(Step(c))

------------------------------------------------------------------------------
(* Properties *)

(* README invariant 3: a yes is spent on one execution at most, though     *)
(* callers race without the lock, answers fail half way and are repeated.  *)
RunsAtMostOnce == \A a \in Cards : ran[a] <= 1

(* The places from the spend to the moment the action is carried out. *)
Through == {"execute", "note_page", "instruct"}

(* The action runs only for a caller that itself said approve and saw the  *)
(* card alive when it said so: a card open all night cannot be clicked     *)
(* into an execution, nor can an old yes be revived after its expiry.      *)
FreshYes ==
    \A c \in Callers : pc[c] \in Through =>
        LET a == call[c].card
        IN  /\ call[c].choice = Approve
            /\ call[c].moment < row[a].expires

(* An app switched off before the answer began, and off ever since, has    *)
(* nothing executed for it by that answer.                                 *)
PolicyStillAllows == \A c \in Callers : pc[c] \in Through => opened[c]

(* When every answer comes through the route, a card has one verdict       *)
(* episode at most, and what it says is final: a recorded yes was spent,   *)
(* and ran unless it was left to a page (the episode is written before the *)
(* page is handed the instruction, and a failure between the two leaves a  *)
(* recorded yes that never ran); a recorded no is the verdict in force.    *)
OneTrueRecord ==
    routed = Callers => \A a \in Cards :
        /\ noted[a]["approved"] + noted[a]["declined"] <= 1
        /\ noted[a]["approved"] > 0 =>
              row[a].consumed # Null /\ (ran[a] > 0 \/ a \in paged)
        /\ noted[a]["declined"] > 0 => row[a].status = "declined"

(* Answering keeps the promise about consent, with the execution in it.    *)
GateConsent == INSTANCE OneShotConsent WITH
                  consent <- [a \in Cards |-> ConsentStage(row[a])],
                  ran <- [a \in Cards |-> ran[a] > 0]

GateKeepsConsent == GateConsent!Spec

(* The lock of a card is given back, by whichever way its answer ends.     *)
LockGivenBack == \A a \in Cards : holder[a] # {} ~> holder[a] = {}

=============================================================================
