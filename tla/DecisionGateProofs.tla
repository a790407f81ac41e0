-------------------------- MODULE DecisionGateProofs --------------------------
(***************************************************************************)
(* Answering a card, for any cards, callers, options and times.            *)
(*                                                                         *)
(* Rows only go onward (Onward): whatever caller writes, a filed card      *)
(* keeps its expiry, an answered one stays answered, and a spent, declined *)
(* or expired one stays as it is.  So what a caller read of its card       *)
(* remains true of it in the ways that matter between its reads and its    *)
(* writes, with the lock or without it.  On that the inductive invariant   *)
(* says, by the place a caller has reached, how fresh its yes is (Fresh),  *)
(* that the spend it executes for is its own (SpentOnce), that its card    *)
(* was allowed since it began (Opened), what the verdict it is about to    *)
(* record is worth (Recorded), and, when every answer comes through the    *)
(* route, that the lock makes it the only one to record (Serial).          *)
(***************************************************************************)
EXTENDS DecisionGate, TLAPS

Answering == {"queue", "check", "write", "sweep", "won", "refused", "why", "withdraw",
              "describe", "authorize", "grant", "consume", "lost", "execute", "note_no",
              "note_yes", "note_page", "instruct", "refuse"}

Locals == [card : Cards, choice : Tokens \cup {NoChoice},
           seen : Statuses \cup {"absent"}, moment : Nat]

Typed == /\ row \in [Cards -> Row]
         /\ now \in Nat
         /\ pc \in [Callers -> Answering \cup {"closed", "idle"}]
         /\ call \in [Callers -> Locals]
         /\ holder \in [Cards -> SUBSET Callers]
         /\ opened \in [Callers -> BOOLEAN]
         /\ ran \in [Cards -> Nat]
         /\ noted \in [Cards -> [{"approved", "declined"} -> Nat]]

(* A spend keeps the status approved. *)
RowsOK == \A a \in Cards : row[a].consumed # Null => row[a].status = "approved"

Answered(r) == r.status \in {"approved", "declined"}

(* The places between a resolve that won, or an old yes answered again,    *)
(* and the action; and those where the verdict has still to be recorded.   *)
Replaying == {"authorize", "grant", "consume"} \cup Through
Settling  == {"won", "describe", "note_no", "note_yes"} \cup (Replaying \ {"instruct"})

Fresh(c) ==
    LET r == row[call[c].card]
        inTime == call[c].moment < r.expires
    IN  /\ pc[c] \in Answering => r.status # "absent"
        /\ pc[c] = "write" => call[c].choice \in Options /\ inTime
        /\ pc[c] \in {"won", "describe"} =>
              /\ Answered(r)
              /\ r.status = "declined" \/ (call[c].choice = Approve /\ inTime)
        /\ pc[c] \in Replaying => call[c].choice = Approve /\ inTime

SpentOnce ==
    /\ \A a \in Cards : ran[a] <= 1 /\ (ran[a] > 0 => row[a].consumed # Null)
    /\ \A c \in Callers : pc[c] \in Through =>
          /\ row[call[c].card].consumed # Null
          /\ ran[call[c].card] = 0
          /\ \A d \in Callers : pc[d] \in Through /\ call[d].card = call[c].card => d = c

(* The places after policy was asked again. *)
Allowed == {"grant", "consume"} \cup Through

Opened(c) == /\ pc[c] \in Answering /\ call[c].card \in allowed => opened[c]
             /\ pc[c] \in Allowed => opened[c]

(* What is recorded as approved, or is about to be, was carried out or left *)
(* to a page.                                                              *)
Settled(a) == ran[a] > 0 \/ a \in paged

Recorded ==
    /\ \A a \in Cards : /\ noted[a]["approved"] > 0 => row[a].consumed # Null /\ Settled(a)
                        /\ noted[a]["declined"] > 0 => row[a].status = "declined"
    /\ \A c \in Callers : /\ pc[c] = "note_no" => row[call[c].card].status = "declined"
                          /\ pc[c] = "note_yes" => ran[call[c].card] > 0
                          /\ pc[c] = "note_page" => call[c].card \in paged

Unrecorded(a) == noted[a]["approved"] = 0 /\ noted[a]["declined"] = 0

Serial ==
    routed = Callers =>
        /\ \A a \in Cards : noted[a]["approved"] + noted[a]["declined"] <= 1
        /\ \A c \in Callers :
              /\ pc[c] \in Answering \ {"queue"} => holder[call[c].card] = {c}
              /\ pc[c] \in Settling => Unrecorded(call[c].card)

GInv == /\ Typed
        /\ Start <= now
        /\ RowsOK
        /\ \A c \in Callers : Fresh(c) /\ Opened(c)
        /\ SpentOnce
        /\ Recorded
        /\ Serial

------------------------------------------------------------------------------
(* Rows go onward. *)

Onward(r, s) == /\ r.status # "absent" => s.status # "absent" /\ s.expires = r.expires
                /\ Closed(r) => s = r
                /\ Answered(r) => Answered(s)

RowsGo == /\ row' \in [Cards -> Row]
          /\ \A a \in Cards : row'[a].consumed # Null => row'[a].status = "approved"
          /\ \A a \in Cards : Onward(row[a], row'[a])

LEMMA RowsStay ==
    ASSUME row \in [Cards -> Row], RowsOK, row' = row
    PROVE  RowsGo
BY DEF RowsGo, RowsOK, Onward

LEMMA MovedOn ==
    ASSUME NEW r \in Row, r.consumed = Null, NEW source, NEW kind, Edge(source, kind),
           r.status = source, NEW at \in Nat, NEW choice \in Tokens \cup {NoChoice}
    PROVE  /\ Moved(r, kind, at, choice) \in Row
           /\ Moved(r, kind, at, choice).consumed # Null
                => Moved(r, kind, at, choice).status = "approved"
           /\ Onward(r, Moved(r, kind, at, choice))
<1>1. CASE kind = "consumed"
    <2>1. source = "approved"
        BY <1>1 DEF Edge, Verdicts
    <2>2. Moved(r, kind, at, choice) = [r EXCEPT !.consumed = at]
        BY <1>1 DEF Moved
    <2> QED
        BY <2>1, <2>2 DEF Row, Onward, Answered, Closed
<1>2. CASE kind # "consumed"
    <2>1. kind \in Verdicts /\ (source = "approved" => kind = "declined") /\ source # "declined"
          /\ source # "expired" /\ source # "absent"
        BY <1>2 DEF Edge, Verdicts
    <2> DEFINE said == IF kind = "expired" THEN r.choice ELSE choice
    <2>2. Moved(r, kind, at, choice)
            = [r EXCEPT !.status = kind, !.resolved = at, !.choice = said]
        BY <1>2 DEF Moved, Row
    <2>3. said \in Tokens \cup {NoChoice}
        BY DEF Row
    <2> HIDE DEF said
    <2> QED
        BY <2>1, <2>2, <2>3 DEF Row, Onward, Answered, Closed, Verdicts, Statuses
<1> QED
    BY <1>1, <1>2

LEMMA TransitionGoes ==
    ASSUME row \in [Cards -> Row], RowsOK, NEW S, NEW source, NEW kind, NEW at \in Nat,
           NEW choice \in Tokens \cup {NoChoice}, Transition(S, source, kind, at, choice)
    PROVE  RowsGo
<1> DEFINE M == {a \in S : CanMove(a, source, kind, at)}
<1>1. row' = [a \in Cards |-> IF a \in M THEN Moved(row[a], kind, at, choice) ELSE row[a]]
    BY DEF Transition
<1>2. \A a \in M : Edge(source, kind) /\ row[a].status = source /\ row[a].consumed = Null
    BY DEF CanMove
<1> HIDE DEF M
<1>3. ASSUME NEW a \in Cards
      PROVE  /\ row'[a] \in Row /\ Onward(row[a], row'[a])
             /\ row'[a].consumed # Null => row'[a].status = "approved"
    <2>1. CASE a \in M
        <3>1. row'[a] = Moved(row[a], kind, at, choice)
            BY <1>1, <2>1
        <3> QED
            BY <1>2, <2>1, <3>1, MovedOn
    <2>2. CASE a \notin M
        <3>1. row'[a] = row[a]
            BY <1>1, <2>2
        <3> QED
            BY <3>1 DEF Onward, RowsOK
    <2> QED
        BY <2>1, <2>2
<1>4. row' \in [Cards -> Row]
    BY <1>1, <1>3
<1> QED
    BY <1>3, <1>4 DEF RowsGo

(* The row of a write that landed. *)
LEMMA Landed ==
    ASSUME NEW a \in Cards, NEW source, NEW kind, NEW at, NEW choice,
           Transition({a}, source, kind, at, choice), CanMove(a, source, kind, at)
    PROVE  row'[a] = Moved(row[a], kind, at, choice)
BY DEF Transition

LEMMA LocalsOf ==
    ASSUME Typed, NEW c \in Callers
    PROVE  /\ call[c] \in Locals
           /\ call[c].card \in Cards /\ call[c].moment \in Nat
           /\ call[c].choice \in Tokens \cup {NoChoice}
           /\ row[call[c].card] \in Row
BY DEF Typed, Locals

(* One transaction writes, or none does: every step takes rows onward.     *)
LEMMA StepGoes ==
    ASSUME GInv, [GateNext]_gateVars
    PROVE  RowsGo
<1> USE DEF GInv
<1>0. row \in [Cards -> Row] /\ RowsOK /\ now \in Nat
    BY DEF Typed
<1>1. ASSUME NEW c \in Callers, Sweep(c) PROVE RowsGo
    <2>1. Transition(Cards, "pending", "expired", call[c].moment, NoChoice)
        BY <1>1 DEF Sweep
    <2> QED
        BY <1>0, <2>1, LocalsOf, TransitionGoes
<1>2. ASSUME NEW c \in Callers, ResolveWrite(c) PROVE RowsGo
    <2>1. Transition({call[c].card}, "pending", Verdict(call[c].choice), call[c].moment,
                     call[c].choice)
        BY <1>2 DEF ResolveWrite
    <2> QED
        BY <1>0, <2>1, LocalsOf, TransitionGoes
<1>3. ASSUME NEW c \in Callers, Withdraw(c) PROVE RowsGo
    <2>1. \/ Transition({call[c].card}, "approved", "declined", now, call[c].choice)
          \/ row' = row
        BY <1>3 DEF Withdraw, DeclineTxn, table
    <2> QED
        BY <1>0, <2>1, LocalsOf, TransitionGoes, RowsStay
<1>4. ASSUME NEW c \in Callers, Spend(c) PROVE RowsGo
    <2>1. Transition({call[c].card}, "approved", "consumed", now, NoChoice)
        BY <1>4 DEF Spend, ConsumeTxn
    <2> QED
        BY <1>0, <2>1, LocalsOf, TransitionGoes
<1>5. ASSUME NEW c \in Callers, NEW a \in Cards, FileCard(c, a) PROVE RowsGo
    <2>1. PICK at \in Start..now :
             row' = [row EXCEPT ![a] = [Absent EXCEPT !.status = "pending",
                                          !.created = at, !.expires = at + Ttl]]
        BY <1>5 DEF FileCard, Create
    <2>2. at \in Nat /\ at + Ttl \in Nat
        BY <1>0, ApprovalsAssumption
    <2>3. row[a].status = "absent" /\ row[a] \in Row
        BY <1>0, <1>5 DEF FileCard, Create
    <2> DEFINE filed == [Absent EXCEPT !.status = "pending", !.created = at,
                                       !.expires = at + Ttl]
    <2>4. filed \in Row /\ filed.consumed = Null
        BY <2>2 DEF Absent, Row, Statuses, Null
    <2>5. Onward(row[a], filed)
        BY <1>0, <2>3 DEF Onward, Closed, Answered, RowsOK
    <2> HIDE DEF filed
    <2>6. row'[a] = filed /\ \A b \in Cards : b # a => row'[b] = row[b]
        BY <1>0, <2>1 DEF filed
    <2>7. row' \in [Cards -> Row]
        BY <1>0, <2>1, <2>4 DEF filed
    <2>8. \A b \in Cards : Onward(row[b], row[b])
        BY DEF Onward
    <2> QED
        BY <1>0, <2>4, <2>5, <2>6, <2>7, <2>8 DEF RowsGo, RowsOK
<1>6. ASSUME NEW c \in Callers,
             \/ TakeCard(c) \/ ResolveCheck(c) \/ Reopen(c) \/ Why(c) \/ Describe(c)
             \/ Authorize(c) \/ CheckGrant(c) \/ LostSpend(c) \/ Execute(c) \/ LeaveToPage(c)
             \/ NoteNo(c) \/ NoteYes(c) \/ NotePage(c) \/ Instruct(c) \/ Refuse(c) \/ Fail(c)
             \/ OpenTable(c)
      PROVE  RowsGo
    <2>1. row' = row
        BY <1>6 DEF TakeCard, ResolveCheck, Reopen, Why, Describe, Authorize, CheckGrant,
                    LostSpend, Execute, LeaveToPage, NoteNo, NoteYes, Note, NotePage, Instruct,
                    Refuse, Fail, Finish, OpenTable, Open, table
    <2> QED
        BY <1>0, <2>1, RowsStay
<1>7. ASSUME \/ TimePasses
             \/ \E a \in Cards : Toggle(a)
             \/ \E c \in Callers, a \in Cards, choice \in Tokens : Answer(c, a, choice)
             \/ UNCHANGED gateVars
      PROVE  RowsGo
    <2>1. row' = row
        BY <1>7 DEF TimePasses, Tick, Toggle, Answer, table, vars, gateVars
    <2> QED
        BY <1>0, <2>1, RowsStay
<1> QED
    BY <1>1, <1>2, <1>3, <1>4, <1>5, <1>6, <1>7 DEF GateNext, Step, Resolve

------------------------------------------------------------------------------
(* Types. *)

LEMMA IdleTyped == Idle \in Locals
<1>1. (CHOOSE a \in Cards : TRUE) \in Cards
    BY ApprovalsAssumption
<1> QED
    BY <1>1 DEF Idle, Locals, Statuses, Null

Places == Answering \cup {"closed", "idle"}

(* An answer that is over, however it ended. *)
LEMMA FinishTyped ==
    ASSUME Typed, NEW c \in Callers, Finish(c)
    PROVE  /\ pc' \in [Callers -> Places]
           /\ call' \in [Callers -> Locals]
           /\ holder' \in [Cards -> SUBSET Callers]
           /\ opened' \in [Callers -> BOOLEAN]
           /\ row' = row /\ now' = now
BY IdleTyped DEF Typed, Places, Finish, table

LEMMA WriteTyped ==
    ASSUME Typed, NEW c \in Callers, NEW verdict \in {"approved", "declined"},
           Write(call[c].card, verdict)
    PROVE  /\ noted' \in [Cards -> [{"approved", "declined"} -> Nat]]
           /\ noted'[call[c].card][verdict] = noted[call[c].card][verdict] + 1
           /\ \A v \in {"approved", "declined"} \ {verdict} :
                 noted'[call[c].card][v] = noted[call[c].card][v]
           /\ \A a \in Cards \ {call[c].card} : noted'[a] = noted[a]
<1> DEFINE a == call[c].card
           said == [noted[a] EXCEPT ![verdict] = @ + 1]
<1>1. a \in Cards /\ noted[a] \in [{"approved", "declined"} -> Nat]
    BY LocalsOf DEF Typed
<1>2. said \in [{"approved", "declined"} -> Nat] /\ said[verdict] = noted[a][verdict] + 1
      /\ \A v \in {"approved", "declined"} \ {verdict} : said[v] = noted[a][v]
    BY <1>1
<1>3. noted' = [noted EXCEPT ![a] = said]
    BY DEF Write
<1> HIDE DEF said
<1>4. noted \in [Cards -> [{"approved", "declined"} -> Nat]]
    BY DEF Typed
<1>5. noted'[a] = said /\ \A b \in Cards \ {a} : noted'[b] = noted[b]
    BY <1>1, <1>3, <1>4
<1>6. noted' \in [Cards -> [{"approved", "declined"} -> Nat]]
    BY <1>1, <1>2, <1>3, <1>4
<1> QED
    BY <1>2, <1>5, <1>6

(* Which verdict a step records, if it records one. *)
LEMMA WritesIs ==
    ASSUME NEW c \in Callers, NoteNo(c) \/ NoteYes(c) \/ NotePage(c)
    PROVE  /\ ran' = ran /\ paged' = paged
           /\ NoteNo(c) => pc[c] = "note_no" /\ Write(call[c].card, "declined") /\ Finish(c)
           /\ NoteYes(c) => pc[c] = "note_yes" /\ Write(call[c].card, "approved") /\ Finish(c)
           /\ NotePage(c) => pc[c] = "note_page" /\ Write(call[c].card, "approved")
BY DEF NoteNo, NoteYes, Note, NotePage, Goto

LEMMA TypedKept ==
    ASSUME GInv, [GateNext]_gateVars
    PROVE  Typed' /\ Start <= now'
<1>1. row' \in [Cards -> Row]
    BY StepGoes DEF RowsGo
<1>2. Typed /\ now \in Nat /\ Start <= now /\ Start \in Nat
    BY ApprovalsAssumption DEF GInv, Typed
<1> SUFFICES
        /\ now' \in Nat /\ Start <= now'
        /\ pc' \in [Callers -> Places]
        /\ call' \in [Callers -> Locals]
        /\ holder' \in [Cards -> SUBSET Callers]
        /\ opened' \in [Callers -> BOOLEAN]
        /\ ran' \in [Cards -> Nat]
        /\ noted' \in [Cards -> [{"approved", "declined"} -> Nat]]
    BY <1>1 DEF Typed, Places
<1>3. CASE TimePasses
    BY <1>2, <1>3 DEF TimePasses, Tick, records, Typed, Places
<1>4. ASSUME NEW a \in Cards, Toggle(a)
      PROVE  /\ now' \in Nat /\ Start <= now'
             /\ pc' \in [Callers -> Places]
             /\ call' \in [Callers -> Locals]
             /\ holder' \in [Cards -> SUBSET Callers]
             /\ opened' \in [Callers -> BOOLEAN]
             /\ ran' \in [Cards -> Nat]
             /\ noted' \in [Cards -> [{"approved", "declined"} -> Nat]]
    <2>1. opened' \in [Callers -> BOOLEAN]
        BY <1>2, <1>4, ZenonT(20) DEF Toggle, Typed
    <2> QED
        BY <1>2, <1>4, <2>1 DEF Toggle, records, vars, Typed, Places
<1>5. ASSUME NEW c \in Callers, OpenTable(c) \/ \E a \in Cards : FileCard(c, a)
      PROVE  /\ now' = now /\ call' = call /\ holder' = holder /\ opened' = opened
             /\ ran' = ran /\ noted' = noted /\ pc' \in [Callers -> Places]
    BY <1>2, <1>5 DEF OpenTable, Open, FileCard, Create, Goto, records, Typed, Places
<1>6. ASSUME NEW c \in Callers, NEW a \in Cards, NEW choice \in Tokens, Answer(c, a, choice)
      PROVE  /\ now' = now /\ holder' = holder /\ ran' = ran /\ noted' = noted
             /\ pc' \in [Callers -> Places]
             /\ call' \in [Callers -> Locals]
             /\ opened' \in [Callers -> BOOLEAN]
    <2>1. [Idle EXCEPT !.card = a, !.choice = choice] \in Locals
        BY IdleTyped DEF Locals
    <2>2. call' \in [Callers -> Locals]
        BY <1>2, <1>6, <2>1 DEF Answer, Typed
    <2>3. pc' \in [Callers -> Places] /\ opened' \in [Callers -> BOOLEAN]
        BY <1>2, <1>6 DEF Answer, Goto, Typed, Places, Answering
    <2> QED
        BY <1>6, <2>2, <2>3 DEF Answer, records
<1>7. ASSUME NEW c \in Callers, TakeCard(c)
      PROVE  /\ now' = now /\ ran' = ran /\ noted' = noted /\ opened' = opened
             /\ pc' \in [Callers -> Places]
             /\ call' \in [Callers -> Locals]
             /\ holder' \in [Cards -> SUBSET Callers]
    <2>1. row[call[c].card].status \in Statuses \cup {"absent"} /\ call[c].card \in Cards
        BY <1>2, LocalsOf DEF Row
    <2>2. [call[c] EXCEPT !.seen = row[call[c].card].status] \in Locals
        BY <1>2, <2>1, LocalsOf DEF Locals
    <2>3. call' \in [Callers -> Locals]
        BY <1>2, <1>7, <2>2 DEF TakeCard, Typed
    <2>4. pc' \in [Callers -> Places] /\ holder' \in [Cards -> SUBSET Callers]
        BY <1>2, <1>7 DEF TakeCard, Goto, Typed, Places, Answering
    <2> QED
        BY <1>7, <2>3, <2>4 DEF TakeCard, records
<1>8. ASSUME NEW c \in Callers, ResolveCheck(c) \/ Reopen(c), Quiet
      PROVE  /\ now' = now /\ holder' = holder /\ opened' = opened /\ ran' = ran
             /\ noted' = noted
             /\ pc' \in [Callers -> Places]
             /\ call' \in [Callers -> Locals]
    <2>1. [call[c] EXCEPT !.moment = now] \in Locals
        BY <1>2, LocalsOf DEF Locals
    <2>2. call' = [call EXCEPT ![c] = [call[c] EXCEPT !.moment = now]]
        BY <1>8 DEF ResolveCheck, Reopen
    <2>3. call' \in [Callers -> Locals]
        BY <1>2, <2>1, <2>2 DEF Typed
    <2>4. pc' \in [Callers -> Places]
        BY <1>2, <1>8 DEF ResolveCheck, Reopen, Goto, Typed, Places, Answering
    <2> QED
        BY <1>8, <2>3, <2>4 DEF ResolveCheck, Reopen, Quiet, records
<1>9. ASSUME NEW c \in Callers,
             \/ Sweep(c) \/ ResolveWrite(c) \/ Withdraw(c) \/ Why(c) \/ Describe(c)
             \/ Authorize(c) \/ CheckGrant(c) \/ Spend(c) \/ LostSpend(c),
             Quiet
      PROVE  /\ now' = now /\ call' = call /\ holder' = holder /\ opened' = opened
             /\ ran' = ran /\ noted' = noted /\ pc' \in [Callers -> Places]
    <2>1. pc' \in [Callers -> Places]
        BY <1>2, <1>9 DEF Sweep, ResolveWrite, Withdraw, Why, Describe, Authorize,
                          CheckGrant, Spend, LostSpend, Goto, Typed, Places, Answering
    <2> QED
        BY <1>9, <2>1 DEF Sweep, ResolveWrite, Withdraw, Why, Describe, Authorize,
                          CheckGrant, Spend, LostSpend, Quiet, records
<1>10. ASSUME NEW c \in Callers, Execute(c)
       PROVE  /\ now' = now /\ call' = call /\ holder' = holder /\ opened' = opened
              /\ noted' = noted /\ pc' \in [Callers -> Places] /\ ran' \in [Cards -> Nat]
    <2>1. pc' \in [Callers -> Places] /\ ran' \in [Cards -> Nat]
        BY <1>2, <1>10, LocalsOf DEF Execute, Goto, Typed, Places, Answering
    <2> QED
        BY <1>10, <2>1 DEF Execute
<1>11. ASSUME NEW c \in Callers, NoteNo(c) \/ NoteYes(c)
       PROVE  Finish(c) /\ ran' = ran
              /\ noted' \in [Cards -> [{"approved", "declined"} -> Nat]]
    BY <1>2, <1>11, WritesIs, WriteTyped
<1>12. ASSUME NEW c \in Callers, Refuse(c) \/ Fail(c) \/ Instruct(c)
       PROVE  Finish(c) /\ ran' \in [Cards -> Nat] /\ noted' = noted
    <2>1. CASE Refuse(c) \/ Fail(c)
        BY <1>2, <2>1 DEF Refuse, Fail, records, Typed
    <2>2. CASE Instruct(c)
        BY <1>2, <2>2, LocalsOf DEF Instruct, Typed
    <2> QED
        BY <1>12, <2>1, <2>2
<1>17. ASSUME NEW c \in Callers, LeaveToPage(c)
       PROVE  /\ now' = now /\ call' = call /\ holder' = holder /\ opened' = opened
              /\ ran' = ran /\ noted' = noted /\ pc' \in [Callers -> Places]
    BY <1>2, <1>17 DEF LeaveToPage, Goto, Typed, Places, Answering
<1>18. ASSUME NEW c \in Callers, NotePage(c)
       PROVE  /\ now' = now /\ call' = call /\ holder' = holder /\ opened' = opened
              /\ ran' = ran /\ pc' \in [Callers -> Places]
              /\ noted' \in [Cards -> [{"approved", "declined"} -> Nat]]
    <2>1. noted' \in [Cards -> [{"approved", "declined"} -> Nat]]
        BY <1>2, <1>18, WritesIs, WriteTyped
    <2> QED
        BY <1>2, <1>18, <2>1 DEF NotePage, Goto, Typed, Places, Answering
<1>13. CASE UNCHANGED gateVars
    BY <1>2, <1>13 DEF gateVars, vars, Typed, Places
<1>14. ASSUME NEW c \in Callers, Step(c)
       PROVE  \/ TakeCard(c)
              \/ (ResolveCheck(c) \/ Reopen(c)) /\ Quiet
              \/ (\/ Sweep(c) \/ ResolveWrite(c) \/ Withdraw(c) \/ Why(c) \/ Describe(c)
                  \/ Authorize(c) \/ CheckGrant(c) \/ Spend(c) \/ LostSpend(c)) /\ Quiet
              \/ Execute(c) \/ LeaveToPage(c) \/ NoteNo(c) \/ NoteYes(c) \/ NotePage(c)
              \/ Instruct(c) \/ Refuse(c)
    BY <1>14 DEF Step, Resolve, Reopen, Withdraw, Why, Describe, Authorize, CheckGrant,
                 Spend, LostSpend
<1>15. ASSUME NEW c \in Callers, Step(c) \/ Fail(c) \/ OpenTable(c)
       PROVE  /\ now' \in Nat /\ Start <= now'
              /\ pc' \in [Callers -> Places]
              /\ call' \in [Callers -> Locals]
              /\ holder' \in [Cards -> SUBSET Callers]
              /\ opened' \in [Callers -> BOOLEAN]
              /\ ran' \in [Cards -> Nat]
              /\ noted' \in [Cards -> [{"approved", "declined"} -> Nat]]
    <2>1. CASE NoteNo(c) \/ NoteYes(c)
        BY <1>2, <1>11, <2>1, FinishTyped DEF Typed
    <2>2. CASE Refuse(c) \/ Fail(c) \/ Instruct(c)
        BY <1>2, <1>12, <2>2, FinishTyped DEF Typed
    <2>3. CASE OpenTable(c) \/ Execute(c) \/ TakeCard(c) \/ LeaveToPage(c) \/ NotePage(c)
        BY <1>2, <1>5, <1>7, <1>10, <1>17, <1>18, <2>3 DEF Typed
    <2> QED
        BY <1>2, <1>8, <1>9, <1>14, <1>15, <2>1, <2>2, <2>3 DEF Typed
<1>16. ASSUME NEW c \in Callers, NEW a \in Cards,
              \/ FileCard(c, a)
              \/ \E choice \in Tokens : Answer(c, a, choice)
       PROVE  /\ now' \in Nat /\ Start <= now'
              /\ pc' \in [Callers -> Places]
              /\ call' \in [Callers -> Locals]
              /\ holder' \in [Cards -> SUBSET Callers]
              /\ opened' \in [Callers -> BOOLEAN]
              /\ ran' \in [Cards -> Nat]
              /\ noted' \in [Cards -> [{"approved", "declined"} -> Nat]]
    BY <1>2, <1>5, <1>6, <1>16 DEF Typed
<1> QED
    BY <1>3, <1>4, <1>13, <1>15, <1>16 DEF GateNext

------------------------------------------------------------------------------
(* What a caller knows of its card. *)

(* A caller's step leaves the place and the locals of the others alone. *)
LEMMA OneActs ==
    ASSUME Typed, NEW c \in Callers,
           \/ Step(c) \/ Fail(c) \/ OpenTable(c)
           \/ \E a \in Cards : FileCard(c, a)
           \/ \E a \in Cards, choice \in Tokens : Answer(c, a, choice),
           NEW d \in Callers, d # c
    PROVE  pc'[d] = pc[d] /\ call'[d] = call[d] /\ opened'[d] = opened[d]
<1> USE DEF Typed, Goto
<1>1. CASE TakeCard(c) \/ OpenTable(c) \/ Execute(c) \/ LeaveToPage(c) \/ NotePage(c)
    BY <1>1 DEF TakeCard, OpenTable, Open, Execute, LeaveToPage, NotePage
<1>2. CASE Resolve(c)
    BY <1>2 DEF Resolve, ResolveCheck, Sweep, ResolveWrite, Quiet
<1>3. CASE Reopen(c) \/ Withdraw(c) \/ Why(c) \/ Describe(c) \/ Authorize(c)
    BY <1>3 DEF Reopen, Withdraw, Why, Describe, Authorize, Quiet
<1>4. CASE CheckGrant(c) \/ Spend(c) \/ LostSpend(c)
    BY <1>4 DEF CheckGrant, Spend, LostSpend, Quiet
<1>5. CASE NoteNo(c) \/ NoteYes(c) \/ Instruct(c) \/ Refuse(c) \/ Fail(c)
    BY <1>5 DEF NoteNo, NoteYes, Note, Instruct, Refuse, Fail, Finish
<1>6. CASE \E a \in Cards : FileCard(c, a)
    BY <1>6 DEF FileCard, Create
<1>7. CASE \E a \in Cards, choice \in Tokens : Answer(c, a, choice)
    BY <1>7 DEF Answer
<1> QED
    BY <1>1, <1>2, <1>3, <1>4, <1>5, <1>6, <1>7 DEF Step

LEMMA FreshStays ==
    ASSUME Typed, RowsGo, NEW d \in Callers, Fresh(d), pc'[d] = pc[d], call'[d] = call[d]
    PROVE  Fresh(d)'
<1> DEFINE r == row[call[d].card]
           s == row'[call[d].card]
<1>1. Onward(r, s)
    BY LocalsOf DEF RowsGo
<1>2. CASE pc[d] \in Answering
    <2>1. r.status # "absent"
        BY <1>2 DEF Fresh
    <2>2. s.status # "absent" /\ s.expires = r.expires
        BY <1>1, <2>1 DEF Onward
    <2>3. r.status = "declined" => s.status = "declined"
        BY <1>1 DEF Onward, Closed
    <2>4. Answered(r) => Answered(s)
        BY <1>1 DEF Onward
    <2> QED
        BY <2>2, <2>3, <2>4 DEF Fresh
<1>3. CASE pc[d] \notin Answering
    BY <1>3 DEF Fresh, Answering, Replaying, Through
<1> QED
    BY <1>2, <1>3

LEMMA IdleIsFresh ==
    ASSUME NEW c \in Callers, pc'[c] \in {"closed", "idle"}
    PROVE  Fresh(c)'
BY DEF Fresh, Answering, Replaying, Through

LEMMA FreshKept ==
    ASSUME GInv, [GateNext]_gateVars
    PROVE  \A d \in Callers : Fresh(d)'
<1>1. Typed /\ RowsGo /\ \A c \in Callers : Fresh(c)
    BY StepGoes DEF GInv
<1>2. CASE \/ TimePasses \/ UNCHANGED gateVars
           \/ \E a \in Cards : Toggle(a)
           \/ \E c \in Callers, a \in Cards : FileCard(c, a)
    <2>1. pc' = pc /\ call' = call
        BY <1>2 DEF TimePasses, Tick, Toggle, FileCard, Create, gateVars, vars
    <2> QED
        BY <1>1, <2>1, FreshStays
<1>3. ASSUME NEW c \in Callers,
             \/ Step(c) \/ Fail(c) \/ OpenTable(c)
             \/ \E a \in Cards, choice \in Tokens : Answer(c, a, choice)
      PROVE  \A d \in Callers : Fresh(d)'
    <2>1. \A d \in Callers : d # c => Fresh(d)'
        BY <1>1, <1>3, OneActs, FreshStays
    <2> DEFINE a == call[c].card
    <2>2. /\ a \in Cards /\ call[c].moment \in Nat /\ row[a] \in Row /\ Fresh(c)
          /\ call \in [Callers -> Locals] /\ pc \in [Callers -> Places] /\ call[c] \in Locals
        BY <1>1, LocalsOf DEF Typed, Places
    <2> SUFFICES Fresh(c)'
        BY <2>1
    <2>3. CASE OpenTable(c) \/ NoteNo(c) \/ NoteYes(c) \/ Instruct(c) \/ Refuse(c) \/ Fail(c)
        <3>1. pc'[c] = "idle"
            BY <2>2, <2>3 DEF OpenTable, Open, Goto, NoteNo, NoteYes, Note, Instruct, Refuse, Fail,
                              Finish
        <3> QED
            BY <3>1, IdleIsFresh
    <2>4. ASSUME NEW b \in Cards, NEW choice \in Tokens, Answer(c, b, choice)
          PROVE  Fresh(c)'
        <3>1. /\ pc'[c] = "queue" /\ row' = row /\ row[b].status # "absent"
              /\ call'[c] = [Idle EXCEPT !.card = b, !.choice = choice]
            BY <2>2, <2>4 DEF Answer, Goto, table
        <3>2. call'[c].card = b
            BY <3>1 DEF Idle
        <3> QED
            BY <3>1, <3>2 DEF Fresh, Replaying, Through
    <2>5. CASE TakeCard(c)
        <3>1. pc'[c] = "check" /\ row' = row /\ call'[c].card = a /\ pc[c] = "queue"
            BY <2>2, <2>5 DEF TakeCard, Goto, table, Locals
        <3> QED
            BY <2>2, <3>1 DEF Fresh, Answering, Replaying, Through
    <2>6. CASE ResolveCheck(c)
        <3>1. /\ row' = row /\ call'[c].card = a /\ call'[c].choice = call[c].choice
              /\ call'[c].moment = now /\ pc[c] = "check"
              /\ \/ pc'[c] \in {"sweep", "refused"}
                 \/ pc'[c] = "write" /\ ~Due(c) /\ call[c].choice \in Options
            BY <2>2, <2>6 DEF ResolveCheck, Goto, table, Locals
        <3>2. ~Due(c) => now < row[a].expires
            BY <1>1, <2>2 DEF Due, Typed, Row
        <3> QED
            BY <2>2, <3>1, <3>2 DEF Fresh, Answering, Replaying, Through
    <2>7. CASE Sweep(c)
        <3>1. pc'[c] = "refused" /\ call' = call /\ pc[c] = "sweep"
            BY <2>2, <2>7 DEF Sweep, Goto
        <3>2. row[a].status # "absent"
            BY <2>2, <3>1 DEF Fresh, Answering
        <3>3. row'[a].status # "absent"
            BY <1>1, <2>2, <3>2 DEF RowsGo, Onward
        <3> QED
            BY <3>1, <3>3 DEF Fresh, Replaying, Through
    <2>8. CASE ResolveWrite(c)
        <3> DEFINE kind == Verdict(call[c].choice)
                   landed == CanMove(a, "pending", kind, call[c].moment)
        <3>1. /\ pc[c] = "write" /\ call' = call
              /\ pc'[c] = IF landed THEN "won" ELSE "refused"
              /\ Transition({a}, "pending", kind, call[c].moment, call[c].choice)
            BY <2>2, <2>8 DEF ResolveWrite, Goto
        <3>2. row[a].status # "absent" /\ call[c].moment < row[a].expires
            BY <2>2, <3>1 DEF Fresh, Answering
        <3>3. row'[a].status # "absent" /\ row'[a].expires = row[a].expires
            BY <1>1, <2>2, <3>2 DEF RowsGo, Onward
        <3>4. ASSUME landed
              PROVE  row'[a].status = kind
            <4>1. row'[a] = Moved(row[a], kind, call[c].moment, call[c].choice)
                BY <2>2, <3>1, <3>4, Landed
            <4> QED
                BY <2>2, <4>1 DEF Moved, Row, Verdict
        <3>5. (kind = "approved" /\ call[c].choice = Approve) \/ kind = "declined"
            BY DEF Verdict
        <3> HIDE DEF kind, landed
        <3>6. CASE landed
            BY <3>1, <3>2, <3>3, <3>4, <3>5, <3>6 DEF Fresh, Replaying, Answered, Through
        <3>7. CASE ~landed
            BY <3>1, <3>3, <3>7 DEF Fresh, Replaying, Through
        <3> QED
            BY <3>6, <3>7
    <2>9. CASE Reopen(c)
        <3>1. /\ row' = row /\ call'[c].card = a /\ call'[c].choice = call[c].choice
              /\ call'[c].moment = now /\ pc[c] = "refused"
              /\ \/ pc'[c] \in {"why", "withdraw", "refuse"}
                 \/ /\ pc'[c] = "describe" /\ ~Lapsed(a) /\ call[c].choice = Approve
                    /\ row[a].status = "approved"
            BY <2>2, <2>9 DEF Reopen, Goto, table, Locals
        <3>2. ~Lapsed(a) => now < row[a].expires
            BY <1>1, <2>2 DEF Lapsed, Typed, Row
        <3> QED
            BY <2>2, <3>1, <3>2 DEF Fresh, Answering, Replaying, Answered, Through
    <2>10. CASE Withdraw(c)
        <3> DEFINE choice == call[c].choice
                   lands == choice \in Options \ {Approve} /\ DeclineLands(a, choice)
        <3>1. /\ pc[c] = "withdraw" /\ call' = call
              /\ pc'[c] = IF lands THEN "describe" ELSE "why"
            BY <2>2, <2>10 DEF Withdraw, Goto
        <3>2. row[a].status # "absent"
            BY <2>2, <3>1 DEF Fresh, Answering
        <3>3. row'[a].status # "absent"
            BY <1>1, <2>2, <3>2 DEF RowsGo, Onward
        <3>4. ASSUME lands
              PROVE  row'[a].status = "declined"
            <4>1. /\ Transition({a}, "approved", "declined", now, choice)
                  /\ CanMove(a, "approved", "declined", now)
                BY <2>10, <3>4 DEF Withdraw, DeclineTxn, DeclineLands
            <4>2. row'[a] = Moved(row[a], "declined", now, choice)
                BY <2>2, <4>1, Landed
            <4> QED
                BY <2>2, <4>2 DEF Moved, Row
        <3> HIDE DEF choice, lands
        <3>5. CASE lands
            BY <3>1, <3>3, <3>4, <3>5 DEF Fresh, Replaying, Answered, Through
        <3>6. CASE ~lands
            BY <3>1, <3>3, <3>6 DEF Fresh, Replaying, Through
        <3> QED
            BY <3>5, <3>6
    <2>11. CASE Describe(c)
        <3>1. /\ row' = row /\ call' = call /\ pc[c] \in {"won", "describe"}
              /\ pc'[c] = IF row[a].status = "approved" THEN "authorize" ELSE "note_no"
            BY <2>2, <2>11 DEF Describe, Goto, table
        <3> QED
            BY <2>2, <3>1 DEF Fresh, Answering, Replaying, Through
    <2>12. CASE \/ Why(c) \/ Authorize(c) \/ CheckGrant(c) \/ LostSpend(c) \/ Execute(c)
                \/ LeaveToPage(c) \/ NotePage(c)
        <3>1. /\ row' = row /\ call' = call
              /\ \/ pc[c] \in Answering /\ pc'[c] \in {"refuse", "note_yes"}
                 \/ /\ pc[c] \in Replaying
                    /\ pc'[c] \in {"grant", "consume", "note_page", "instruct"}
            BY <2>2, <2>12 DEF Why, Authorize, CheckGrant, LostSpend, Execute, LeaveToPage,
                               NotePage, Goto, table, Answering, Replaying, Through
        <3> QED
            BY <2>2, <3>1 DEF Fresh, Answering, Replaying, Through
    <2>13. CASE Spend(c)
        <3>1. call' = call /\ pc[c] = "consume" /\ pc'[c] \in {"execute", "lost"}
            BY <2>2, <2>13 DEF Spend, Goto
        <3>2. /\ row[a].status # "absent"
              /\ call[c].choice = Approve /\ call[c].moment < row[a].expires
            BY <2>2, <3>1 DEF Fresh, Answering, Replaying, Through
        <3>3. row'[a].status # "absent" /\ row'[a].expires = row[a].expires
            BY <1>1, <2>2, <3>2 DEF RowsGo, Onward
        <3> QED
            BY <3>1, <3>2, <3>3 DEF Fresh, Answering, Replaying, Through
    <2> QED
        BY <1>3, <2>3, <2>4, <2>5, <2>6, <2>7, <2>8, <2>9, <2>10, <2>11, <2>12, <2>13
        DEF Step, Resolve
<1> QED
    BY <1>2, <1>3 DEF GateNext

------------------------------------------------------------------------------
(* The steps of an answer that has its card, and the ends of one. *)

Within(c) == \/ Resolve(c) \/ Reopen(c) \/ Withdraw(c) \/ Why(c) \/ Describe(c)
             \/ Authorize(c) \/ CheckGrant(c) \/ Spend(c) \/ LostSpend(c) \/ Execute(c)
             \/ LeaveToPage(c)

LEMMA WithinIs ==
    ASSUME Typed, NEW c \in Callers, Within(c)
    PROVE  /\ call'[c].card = call[c].card
           /\ pc[c] \in Answering \ {"queue"} /\ pc'[c] \in Answering \ {"queue"}
           /\ routed' = routed /\ allowed' = allowed /\ holder' = holder
           /\ opened' = opened /\ noted' = noted
           /\ ran' = ran \/ Execute(c)
           /\ paged' = paged \/ LeaveToPage(c)
           /\ pc'[c] \in Through => Spend(c) \/ (LeaveToPage(c) /\ pc[c] = "execute")
           /\ pc'[c] = "note_no" => Describe(c)
           /\ pc'[c] = "note_yes" => Execute(c)
           /\ pc'[c] = "note_page" => LeaveToPage(c)
           /\ pc'[c] \in Allowed => Authorize(c) \/ pc[c] \in Allowed
           /\ pc'[c] \in Settling =>
                 \/ pc[c] \in Settling
                 \/ ResolveWrite(c) \/ Reopen(c) \/ Withdraw(c)
<1> USE DEF Goto, Answering, Settling, Replaying, Through, Allowed
<1>1. call \in [Callers -> Locals] /\ call[c] \in Locals /\ pc \in [Callers -> Places]
    BY LocalsOf DEF Typed, Places
<1>2. CASE ResolveCheck(c) /\ Quiet
    BY <1>1, <1>2 DEF ResolveCheck, Quiet, records, Locals
<1>3. CASE (Sweep(c) \/ ResolveWrite(c)) /\ Quiet
    BY <1>1, <1>3 DEF Sweep, ResolveWrite, Quiet, records
<1>4. CASE Reopen(c)
    BY <1>1, <1>4 DEF Reopen, Quiet, records, Locals
<1>5. CASE Withdraw(c) \/ Why(c) \/ Describe(c) \/ Authorize(c)
    BY <1>1, <1>5 DEF Withdraw, Why, Describe, Authorize, Quiet, records
<1>6. CASE CheckGrant(c) \/ Spend(c) \/ LostSpend(c)
    BY <1>1, <1>6 DEF CheckGrant, Spend, LostSpend, Quiet, records
<1>7. CASE Execute(c) \/ LeaveToPage(c)
    BY <1>1, <1>7 DEF Execute, LeaveToPage
<1> QED
    BY <1>2, <1>3, <1>4, <1>5, <1>6, <1>7 DEF Within, Resolve

LEMMA FinishIs ==
    ASSUME Typed, NEW c \in Callers, Finish(c)
    PROVE  /\ pc'[c] = "idle" /\ row' = row /\ routed' = routed /\ allowed' = allowed
           /\ \A a \in Cards : holder'[a] = holder[a] \ {c}
BY DEF Typed, Finish, table

LEMMA EndIs ==
    ASSUME NEW c \in Callers,
           NoteNo(c) \/ NoteYes(c) \/ Instruct(c) \/ Refuse(c) \/ Fail(c)
    PROVE  /\ Finish(c) /\ paged' = paged
           /\ Instruct(c) \/ ran' = ran
           /\ NoteNo(c) \/ NoteYes(c) \/ noted' = noted
BY DEF NoteNo, NoteYes, Note, Instruct, Refuse, Fail, records

(* The yes of a page's tool is recorded while its answer goes on. *)
LEMMA NotePageIs ==
    ASSUME Typed, NEW c \in Callers, NotePage(c)
    PROVE  /\ pc[c] = "note_page" /\ pc'[c] = "instruct" /\ call' = call
           /\ row' = row /\ routed' = routed /\ allowed' = allowed /\ holder' = holder
           /\ opened' = opened /\ ran' = ran /\ paged' = paged
BY DEF NotePage, Goto, Typed, table

(* Every step: of the environment, or of one caller. *)
LEMMA StepsAre ==
    ASSUME [GateNext]_gateVars
    PROVE  \/ TimePasses \/ UNCHANGED gateVars
           \/ \E a \in Cards : Toggle(a)
           \/ \E c \in Callers : OpenTable(c) \/ \E a \in Cards : FileCard(c, a)
           \/ \E c \in Callers, a \in Cards, choice \in Tokens : Answer(c, a, choice)
           \/ \E c \in Callers : TakeCard(c)
           \/ \E c \in Callers : Within(c)
           \/ \E c \in Callers : NotePage(c)
           \/ \E c \in Callers : NoteNo(c) \/ NoteYes(c) \/ Instruct(c) \/ Refuse(c) \/ Fail(c)
BY DEF GateNext, Step, Within

------------------------------------------------------------------------------
(* One spend, one execution. *)

LEMMA SpentStays ==
    ASSUME Typed, RowsGo, SpentOnce, ran' = ran,
           \A d \in Callers : pc'[d] \in Through =>
               pc[d] \in Through /\ call'[d].card = call[d].card
    PROVE  SpentOnce'
<1>1. \A a \in Cards : row[a].consumed # Null => row'[a].consumed # Null
    BY DEF RowsGo, Onward, Closed
<1>2. \A d \in Callers : call[d].card \in Cards
    BY LocalsOf
<1> QED
    BY <1>1, <1>2 DEF SpentOnce

(* The action of a card is carried out by the one caller that spent its yes. *)
LEMMA RunsOnce ==
    ASSUME Typed, SpentOnce, NEW c \in Callers, pc[c] \in Through, row' = row,
           ran' = [ran EXCEPT ![call[c].card] = @ + 1],
           \A d \in Callers : pc'[d] \in Through => d # c /\ pc[d] \in Through,
           \A d \in Callers : d # c => call'[d] = call[d]
    PROVE  SpentOnce'
<1> DEFINE a == call[c].card
<1>1. a \in Cards /\ \A d \in Callers : call[d].card \in Cards
    BY LocalsOf
<1>2. ran[a] = 0 /\ row[a].consumed # Null
    BY DEF SpentOnce
<1>3. ran \in [Cards -> Nat]
    BY DEF Typed
<1>4. ran'[a] = 1 /\ \A b \in Cards : b # a => ran'[b] = ran[b]
    BY <1>1, <1>2, <1>3
<1>5. \A b \in Cards : ran'[b] <= 1 /\ (ran'[b] > 0 => row'[b].consumed # Null)
    BY <1>2, <1>4 DEF SpentOnce
<1>6. ASSUME NEW d \in Callers, pc'[d] \in Through
      PROVE  d # c /\ pc[d] \in Through /\ call'[d] = call[d] /\ call[d].card # a
    BY <1>6 DEF SpentOnce
<1>7. ASSUME NEW d \in Callers, pc'[d] \in Through
      PROVE  /\ row'[call'[d].card].consumed # Null
             /\ ran'[call'[d].card] = 0
             /\ \A e \in Callers : pc'[e] \in Through /\ call'[e].card = call'[d].card => e = d
    BY <1>1, <1>4, <1>6, <1>7 DEF SpentOnce
<1> QED
    BY <1>5, <1>7 DEF SpentOnce

LEMMA SpentOnceKept ==
    ASSUME GInv, [GateNext]_gateVars
    PROVE  SpentOnce'
<1>1. Typed /\ RowsGo /\ SpentOnce
    BY StepGoes DEF GInv
<1>2. CASE \/ TimePasses \/ UNCHANGED gateVars
           \/ \E a \in Cards : Toggle(a)
           \/ \E c \in Callers, a \in Cards : FileCard(c, a)
    <2>1. pc' = pc /\ call' = call /\ ran' = ran
        BY <1>2 DEF TimePasses, Tick, Toggle, FileCard, Create, gateVars, vars, records
    <2> QED
        BY <1>1, <2>1, SpentStays
<1>3. ASSUME NEW c \in Callers,
             \/ OpenTable(c) \/ TakeCard(c)
             \/ \E a \in Cards, choice \in Tokens : Answer(c, a, choice)
             \/ NoteNo(c) \/ NoteYes(c) \/ Refuse(c) \/ Fail(c)
      PROVE  SpentOnce'
    <2>1. \A d \in Callers : d # c => pc'[d] = pc[d] /\ call'[d] = call[d]
        BY <1>1, <1>3, OneActs DEF Step
    <2>2. ran' = ran /\ pc'[c] \notin Through
        <3>1. CASE NoteNo(c) \/ NoteYes(c)
            BY <1>1, <3>1, WritesIs, FinishIs DEF Through
        <3>2. CASE Refuse(c) \/ Fail(c)
            BY <1>1, <3>2, FinishIs DEF Refuse, Fail, records, Through
        <3>3. pc \in [Callers -> Places]
            BY <1>1 DEF Typed, Places
        <3> QED
            BY <1>3, <3>1, <3>2, <3>3
            DEF OpenTable, Open, TakeCard, Answer, Goto, records, Through
    <2> QED
        BY <1>1, <2>1, <2>2, SpentStays
<1>4. ASSUME NEW c \in Callers, NotePage(c)
      PROVE  SpentOnce'
    <2>1. \A d \in Callers : d # c => pc'[d] = pc[d] /\ call'[d] = call[d]
        BY <1>1, <1>4, OneActs DEF Step
    <2>2. call' = call /\ ran' = ran /\ pc[c] \in Through
        BY <1>1, <1>4, NotePageIs DEF Through
    <2> QED
        BY <1>1, <2>1, <2>2, SpentStays
<1>5. ASSUME NEW c \in Callers, Execute(c) \/ Instruct(c)
      PROVE  SpentOnce'
    <2>1. \A d \in Callers : d # c => pc'[d] = pc[d] /\ call'[d] = call[d]
        BY <1>1, <1>5, OneActs DEF Step
    <2>2. /\ pc[c] \in Through /\ pc'[c] \notin Through /\ row' = row
          /\ ran' = [ran EXCEPT ![call[c].card] = @ + 1]
        <3>1. CASE Execute(c)
            BY <1>1, <3>1 DEF Execute, Goto, Typed, table, Through
        <3>2. CASE Instruct(c)
            BY <1>1, <3>2, FinishIs DEF Instruct, Through
        <3> QED
            BY <1>5, <3>1, <3>2
    <2> QED
        BY <1>1, <2>1, <2>2, RunsOnce
<1>6. ASSUME NEW c \in Callers, Within(c), ~Execute(c)
      PROVE  SpentOnce'
    <2> DEFINE a == call[c].card
    <2>1. \A d \in Callers : d # c => pc'[d] = pc[d] /\ call'[d] = call[d]
        BY <1>1, <1>6, OneActs DEF Step, Within
    <2>2. a \in Cards /\ row[a] \in Row /\ \A d \in Callers : call[d].card \in Cards
        BY <1>1, LocalsOf
    <2>3. ran' = ran /\ call'[c].card = a
        BY <1>1, <1>6, WithinIs
    <2>4. CASE Spend(c) /\ pc'[c] \in Through
        <3>1. call' = call
            BY <2>4 DEF Spend
        <3> DEFINE landed == CanMove(a, "approved", "consumed", now)
        <3>2. /\ pc'[c] = IF landed THEN "execute" ELSE "lost"
              /\ Transition({a}, "approved", "consumed", now, NoChoice)
            BY <1>1, <2>4 DEF Spend, Goto, ConsumeTxn, Typed
        <3>3. landed
            BY <2>4, <3>2 DEF Through
        <3>4. row[a].consumed = Null /\ row'[a] = [row[a] EXCEPT !.consumed = now]
            <4>1. row'[a] = Moved(row[a], "consumed", now, NoChoice)
                BY <2>2, <3>2, <3>3, Landed
            <4> QED
                BY <3>3, <4>1 DEF CanMove, Moved
        <3>5. row'[a].consumed # Null
            BY <2>2, <3>4, ApprovalsAssumption DEF GInv, Typed, Row, Null
        <3>6. ran[a] = 0
            BY <1>1, <2>2, <3>4 DEF SpentOnce, Typed
        <3>7. \A b \in Cards : row[b].consumed # Null => row'[b].consumed # Null
            BY <1>1 DEF RowsGo, Onward, Closed
        <3>8. \A d \in Callers : pc[d] \in Through => call[d].card # a
            BY <1>1, <3>4 DEF SpentOnce
        <3> QED
            BY <1>1, <2>1, <2>2, <2>3, <3>1, <3>5, <3>6, <3>7, <3>8 DEF SpentOnce
    <2>5. CASE ~(Spend(c) /\ pc'[c] \in Through)
        <3>1. pc'[c] \in Through => pc[c] = "execute"
            BY <1>1, <1>6, <2>5, WithinIs
        <3>2. pc'[c] \in Through => pc[c] \in Through
            BY <3>1 DEF Through
        <3> QED
            BY <1>1, <2>1, <2>3, <3>2, SpentStays
    <2> QED
        BY <2>4, <2>5
<1> QED
    BY <1>2, <1>3, <1>4, <1>5, <1>6, StepsAre

------------------------------------------------------------------------------
(* Policy, asked again. *)

LEMMA OpenedKept ==
    ASSUME GInv, [GateNext]_gateVars
    PROVE  \A d \in Callers : Opened(d)'
<1>1. Typed /\ \A c \in Callers : Opened(c)
    BY DEF GInv
<1>2. CASE TimePasses \/ UNCHANGED gateVars \/ \E c \in Callers, a \in Cards : FileCard(c, a)
    <2>1. pc' = pc /\ call' = call /\ opened' = opened /\ allowed' = allowed
        BY <1>2 DEF TimePasses, Tick, FileCard, Create, gateVars, vars
    <2> QED
        BY <1>1, <2>1 DEF Opened
<1>3. ASSUME NEW b \in Cards, Toggle(b), NEW d \in Callers PROVE Opened(d)'
    <2>1. /\ pc' = pc /\ call' = call
          /\ allowed' = IF b \in allowed THEN allowed \ {b} ELSE allowed \cup {b}
          /\ opened'[d] = (opened[d] \/ (b \notin allowed /\ call[d].card = b
                                           /\ pc[d] \notin {"closed", "idle"}))
        BY <1>3 DEF Toggle, vars
    <2>2. opened[d] => opened'[d]
        BY <2>1
    <2>3. ASSUME pc[d] \in Answering, call[d].card \in allowed' PROVE opened'[d]
        <3>1. CASE call[d].card \in allowed
            BY <1>1, <2>2, <2>3, <3>1 DEF Opened
        <3>2. CASE call[d].card \notin allowed
            <4>1. call[d].card = b /\ b \notin allowed
                BY <2>1, <2>3, <3>2
            <4>2. pc[d] \notin {"closed", "idle"}
                BY <2>3 DEF Answering
            <4> QED
                BY <2>1, <4>1, <4>2
        <3> QED
            BY <3>1, <3>2
    <2>4. pc[d] \in Allowed => opened'[d]
        BY <1>1, <2>2 DEF Opened
    <2> QED
        BY <2>1, <2>3, <2>4 DEF Opened
<1>4. ASSUME NEW c \in Callers,
             \/ OpenTable(c) \/ TakeCard(c) \/ Within(c) \/ NotePage(c)
             \/ \E a \in Cards, choice \in Tokens : Answer(c, a, choice)
             \/ NoteNo(c) \/ NoteYes(c) \/ Instruct(c) \/ Refuse(c) \/ Fail(c)
      PROVE  \A d \in Callers : Opened(d)'
    <2>1. allowed' = allowed
        <3>1. CASE Within(c)
            BY <1>1, <3>1, WithinIs
        <3>2. CASE NoteNo(c) \/ NoteYes(c) \/ Instruct(c) \/ Refuse(c) \/ Fail(c)
            BY <1>1, <3>2, EndIs, FinishIs
        <3>3. CASE NotePage(c)
            BY <1>1, <3>3, NotePageIs
        <3> QED
            BY <1>4, <3>1, <3>2, <3>3 DEF OpenTable, TakeCard, Answer
    <2>2. \A d \in Callers : d # c =>
              pc'[d] = pc[d] /\ call'[d] = call[d] /\ opened'[d] = opened[d]
        BY <1>1, <1>4, OneActs DEF Step, Within
    <2>3. \A d \in Callers : d # c => Opened(d)'
        BY <1>1, <2>1, <2>2 DEF Opened
    <2> SUFFICES Opened(c)'
        BY <2>3
    <2>4. pc \in [Callers -> Places] /\ call \in [Callers -> Locals] /\ call[c] \in Locals
        BY <1>1, LocalsOf DEF Typed, Places
    <2>5. CASE OpenTable(c) \/ NoteNo(c) \/ NoteYes(c) \/ Instruct(c) \/ Refuse(c) \/ Fail(c)
        <3>1. pc'[c] = "idle"
            BY <2>4, <2>5 DEF OpenTable, Open, Goto, NoteNo, NoteYes, Note, Instruct, Refuse, Fail,
                              Finish
        <3> QED
            BY <3>1 DEF Opened, Answering, Allowed, Through
    <2>6. ASSUME NEW b \in Cards, NEW choice \in Tokens, Answer(c, b, choice)
          PROVE  Opened(c)'
        <3>1. pc'[c] = "queue" /\ call'[c].card = b /\ opened'[c] = (b \in allowed)
            BY <1>1, <2>4, <2>6 DEF Answer, Goto, Idle, Typed
        <3> QED
            BY <2>1, <3>1 DEF Opened, Allowed, Through
    <2>7. CASE TakeCard(c)
        <3>1. /\ pc[c] = "queue" /\ pc'[c] = "check" /\ call'[c].card = call[c].card
              /\ opened' = opened
            BY <2>4, <2>7 DEF TakeCard, Goto, Locals
        <3> QED
            BY <1>1, <2>1, <3>1 DEF Opened, Answering, Allowed, Through
    <2>9. CASE NotePage(c)
        <3>1. call' = call /\ opened' = opened /\ pc[c] \in Allowed /\ pc[c] \in Answering
            BY <1>1, <2>9, NotePageIs DEF Allowed, Through, Answering
        <3> QED
            BY <1>1, <2>1, <3>1 DEF Opened
    <2>8. CASE Within(c)
        <3>1. /\ pc[c] \in Answering /\ call'[c].card = call[c].card /\ opened' = opened
              /\ pc'[c] \in Allowed => Authorize(c) \/ pc[c] \in Allowed
            BY <1>1, <2>8, WithinIs
        <3>2. call[c].card \in allowed => opened[c]
            BY <1>1, <3>1 DEF Opened
        <3>3. CASE Authorize(c)
            <4>1. pc'[c] \in Allowed => call[c].card \in allowed
                BY <2>4, <3>3 DEF Authorize, Goto, Allowed, Through
            <4> QED
                BY <2>1, <3>1, <3>2, <4>1 DEF Opened
        <3>4. CASE ~Authorize(c)
            BY <1>1, <2>1, <3>1, <3>2, <3>4 DEF Opened
        <3> QED
            BY <3>3, <3>4
    <2> QED
        BY <1>4, <2>5, <2>6, <2>7, <2>8, <2>9
<1> QED
    BY <1>2, <1>3, <1>4, StepsAre

------------------------------------------------------------------------------
(* The verdicts recorded. *)

LEMMA RecordedStays ==
    ASSUME Typed, RowsGo, Recorded, noted' = noted,
           \A a \in Cards : ran[a] > 0 => ran'[a] > 0, paged \subseteq paged',
           \A d \in Callers : pc'[d] \in {"note_no", "note_yes", "note_page"} =>
               pc'[d] = pc[d] /\ call'[d].card = call[d].card
    PROVE  Recorded'
<1>1. \A a \in Cards :
          /\ row[a].status = "declined" => row'[a].status = "declined"
          /\ row[a].consumed # Null => row'[a].consumed # Null
    BY DEF RowsGo, Onward, Closed
<1>2. \A d \in Callers : call[d].card \in Cards
    BY LocalsOf
<1> QED
    BY <1>1, <1>2 DEF Recorded, Settled

(* A step that carries an action out or leaves it to a page, and records    *)
(* nothing.                                                                *)
LEMMA CarriesOut ==
    ASSUME Typed, RowsGo, Recorded, NEW c \in Callers,
           Execute(c) \/ LeaveToPage(c) \/ Instruct(c)
    PROVE  Recorded'
<1>1. \A d \in Callers : d # c => pc'[d] = pc[d] /\ call'[d] = call[d]
    BY OneActs DEF Step
<1>2. /\ row' = row /\ noted' = noted /\ pc'[c] \notin {"note_no"}
      /\ pc'[c] \in {"note_yes", "note_page"} => call'[c] = call[c]
      /\ ran' = ran \/ ran' = [ran EXCEPT ![call[c].card] = @ + 1]
      /\ paged \subseteq paged'
      /\ pc'[c] = "note_yes" => ran' = [ran EXCEPT ![call[c].card] = @ + 1]
      /\ pc'[c] = "note_page" => call[c].card \in paged'
    <2>1. CASE Execute(c)
        BY <2>1 DEF Execute, Goto, Typed, table
    <2>2. CASE LeaveToPage(c)
        BY <2>2 DEF LeaveToPage, Goto, Typed, table
    <2>3. CASE Instruct(c)
        BY <2>3, FinishIs DEF Instruct
    <2> QED
        BY <2>1, <2>2, <2>3
<1>3. ran \in [Cards -> Nat] /\ \A d \in Callers : call[d].card \in Cards
    BY LocalsOf DEF Typed
<1>4. /\ \A b \in Cards : ran[b] > 0 => ran'[b] > 0
      /\ pc'[c] = "note_yes" => ran'[call[c].card] > 0
    BY <1>2, <1>3
<1> QED
    BY <1>1, <1>2, <1>3, <1>4 DEF Recorded, Settled

LEMMA RecordedKept ==
    ASSUME GInv, [GateNext]_gateVars
    PROVE  Recorded'
<1>1. Typed /\ RowsGo /\ Recorded /\ SpentOnce
    BY StepGoes DEF GInv
<1>2. CASE \/ TimePasses \/ UNCHANGED gateVars
           \/ \E a \in Cards : Toggle(a)
           \/ \E c \in Callers, a \in Cards : FileCard(c, a)
    <2>1. pc' = pc /\ call' = call /\ ran' = ran /\ noted' = noted /\ paged' = paged
        BY <1>2 DEF TimePasses, Tick, Toggle, FileCard, Create, gateVars, vars, records
    <2> QED
        BY <1>1, <2>1, RecordedStays
<1>3. ASSUME NEW c \in Callers,
             \/ OpenTable(c) \/ TakeCard(c) \/ Refuse(c) \/ Fail(c)
             \/ \E a \in Cards, choice \in Tokens : Answer(c, a, choice)
      PROVE  Recorded'
    <2>1. \A d \in Callers : d # c => pc'[d] = pc[d] /\ call'[d] = call[d]
        BY <1>1, <1>3, OneActs DEF Step
    <2>2. /\ ran' = ran /\ noted' = noted /\ paged' = paged
          /\ pc'[c] \notin {"note_no", "note_yes", "note_page"}
        <3>1. pc \in [Callers -> Places]
            BY <1>1 DEF Typed, Places
        <3> QED
            BY <1>3, <3>1 DEF OpenTable, Open, TakeCard, Refuse, Fail, Finish, Answer, Goto,
                              records
    <2> QED
        BY <1>1, <2>1, <2>2, RecordedStays
<1>4. ASSUME NEW c \in Callers, Within(c), ~Execute(c), ~LeaveToPage(c)
      PROVE  Recorded'
    <2> DEFINE a == call[c].card
    <2>1. \A d \in Callers : d # c => pc'[d] = pc[d] /\ call'[d] = call[d]
        BY <1>1, <1>4, OneActs DEF Step, Within
    <2>2. a \in Cards /\ row[a] \in Row /\ \A d \in Callers : call[d].card \in Cards
        BY <1>1, LocalsOf
    <2>3. /\ noted' = noted /\ call'[c].card = a /\ ran' = ran /\ paged' = paged
          /\ pc'[c] \notin {"note_yes", "note_page"} /\ (pc'[c] = "note_no" => Describe(c))
        BY <1>1, <1>4, WithinIs
    <2>4. CASE Describe(c)
        <3>1. /\ call' = call /\ row' = row /\ pc[c] \in {"won", "describe"}
              /\ pc'[c] = IF row[a].status = "approved" THEN "authorize" ELSE "note_no"
            BY <1>1, <2>4 DEF Describe, Goto, Typed, Quiet, table
        <3>2. row[a].status \in {"approved", "declined"}
            BY <3>1 DEF GInv, Fresh, Answered
        <3> QED
            BY <1>1, <2>1, <2>2, <2>3, <3>1, <3>2 DEF Recorded, Settled
    <2>5. CASE ~Describe(c)
        BY <1>1, <2>1, <2>3, <2>5, RecordedStays
    <2> QED
        BY <2>4, <2>5
<1>5. ASSUME NEW c \in Callers, NoteNo(c) \/ NoteYes(c) \/ NotePage(c)
      PROVE  Recorded'
    <2> DEFINE a == call[c].card
    <2>1. \A d \in Callers : d # c => pc'[d] = pc[d] /\ call'[d] = call[d]
        BY <1>1, <1>5, OneActs DEF Step
    <2>2. a \in Cards /\ \A d \in Callers : call[d].card \in Cards
        BY <1>1, LocalsOf
    <2>3. ran' = ran /\ paged' = paged
        BY <1>5, WritesIs
    <2>4. row' = row /\ pc'[c] \in {"idle", "instruct"}
        BY <1>1, <1>5, WritesIs, FinishIs, NotePageIs
    <2>5. \A b \in Cards \ {a} : noted'[b] = noted[b]
        BY <1>1, <1>5, WritesIs, WriteTyped
    <2>6. /\ noted'[a]["approved"] > 0 => row[a].consumed # Null /\ Settled(a)
          /\ noted'[a]["declined"] > 0 => row[a].status = "declined"
        <3>1. CASE NoteNo(c)
            <4>1. pc[c] = "note_no" /\ noted'[a]["approved"] = noted[a]["approved"]
                BY <1>1, <3>1, WritesIs, WriteTyped
            <4> QED
                BY <1>1, <2>2, <4>1 DEF Recorded
        <3>2. CASE NoteYes(c) \/ NotePage(c)
            <4>1. pc[c] \in {"note_yes", "note_page"}
                  /\ noted'[a]["declined"] = noted[a]["declined"]
                BY <1>1, <3>2, WritesIs, WriteTyped
            <4>2. pc[c] = "note_page" => pc[c] \in Through
                BY DEF Through
            <4>3. row[a].consumed # Null /\ Settled(a)
                BY <1>1, <2>2, <4>1, <4>2 DEF Recorded, Settled, SpentOnce
            <4> QED
                BY <1>1, <2>2, <4>1, <4>3 DEF Recorded
        <3> QED
            BY <1>5, <3>1, <3>2
    <2> QED
        BY <1>1, <2>1, <2>2, <2>3, <2>4, <2>5, <2>6 DEF Recorded, Settled
<1>6. ASSUME NEW c \in Callers, Execute(c) \/ LeaveToPage(c) \/ Instruct(c)
      PROVE  Recorded'
    BY <1>1, <1>6, CarriesOut
<1> QED
    BY <1>2, <1>3, <1>4, <1>5, <1>6, StepsAre

------------------------------------------------------------------------------
(* Behind the lock of its card an answer is the only one to record. *)

(* Nothing has been recorded of a card that waits, or whose yes is unspent. *)
LEMMA OpenIsUnrecorded ==
    ASSUME GInv, NEW a \in Cards, row[a].status # "declined", row[a].consumed = Null
    PROVE  Unrecorded(a)
<1>1. ran[a] \in Nat /\ noted[a] \in [{"approved", "declined"} -> Nat]
    BY DEF GInv, Typed
<1>3. ~(noted[a]["approved"] > 0) /\ ~(noted[a]["declined"] > 0)
    BY DEF GInv, Recorded
<1>4. noted[a]["approved"] \in Nat /\ noted[a]["declined"] \in Nat
    BY <1>1
<1> QED
    BY <1>3, <1>4 DEF Unrecorded

LEMMA SerialStays ==
    ASSUME Serial, routed' = routed, noted' = noted, holder' = holder,
           \A d \in Callers : pc'[d] \in Answering \ {"queue"} =>
               pc[d] \in Answering \ {"queue"} /\ call'[d].card = call[d].card,
           \A d \in Callers : pc'[d] \in Settling =>
               pc[d] \in Settling \/ Unrecorded(call[d].card)
    PROVE  Serial'
<1>1. Settling \subseteq Answering \ {"queue"}
    BY DEF Settling, Replaying, Answering, Through
<1>2. \A a \in Cards : Unrecorded(a) => Unrecorded(a)'
    BY DEF Unrecorded
<1>3. CASE routed # Callers
    BY <1>3 DEF Serial
<1>4. CASE routed = Callers
    <2>1. \A a \in Cards : noted'[a]["approved"] + noted'[a]["declined"] <= 1
        BY <1>4 DEF Serial
    <2>2. ASSUME NEW d \in Callers, pc'[d] \in Answering \ {"queue"}
          PROVE  holder'[call'[d].card] = {d}
        BY <1>4, <2>2 DEF Serial
    <2>3. ASSUME NEW d \in Callers, pc'[d] \in Settling
          PROVE  Unrecorded(call[d].card) /\ call'[d].card = call[d].card
        BY <1>1, <1>4, <2>3 DEF Serial
    <2> QED
        BY <2>1, <2>2, <2>3 DEF Serial, Unrecorded
<1> QED
    BY <1>3, <1>4

LEMMA SerialKept ==
    ASSUME GInv, [GateNext]_gateVars
    PROVE  Serial'
<1>1. Typed /\ RowsGo /\ Serial
    BY StepGoes DEF GInv
<1>2. \A d \in Callers : call[d].card \in Cards
    BY <1>1, LocalsOf
<1>3. Settling \subseteq Answering \ {"queue"}
    BY DEF Settling, Replaying, Answering, Through
<1>4. CASE \/ TimePasses \/ UNCHANGED gateVars
           \/ \E a \in Cards : Toggle(a)
           \/ \E c \in Callers, a \in Cards : FileCard(c, a)
    <2>1. pc' = pc /\ call' = call /\ holder' = holder /\ noted' = noted /\ routed' = routed
        BY <1>4 DEF TimePasses, Tick, Toggle, FileCard, Create, gateVars, vars, records
    <2> QED
        BY <1>1, <2>1, SerialStays
<1>5. ASSUME NEW c \in Callers,
             OpenTable(c) \/ \E a \in Cards, choice \in Tokens : Answer(c, a, choice)
      PROVE  Serial'
    <2>1. \A d \in Callers : d # c => pc'[d] = pc[d] /\ call'[d] = call[d]
        BY <1>1, <1>5, OneActs
    <2>2. /\ pc'[c] \notin Answering \ {"queue"}
          /\ holder' = holder /\ noted' = noted /\ routed' = routed
        <3>1. pc \in [Callers -> Places]
            BY <1>1 DEF Typed, Places
        <3> QED
            BY <1>5, <3>1 DEF OpenTable, Open, Answer, Goto, records, Answering
    <2> QED
        BY <1>1, <1>3, <2>1, <2>2, SerialStays
<1>6. ASSUME NEW c \in Callers, TakeCard(c)
      PROVE  Serial'
    <2> DEFINE a == call[c].card
    <2>1. \A d \in Callers : d # c => pc'[d] = pc[d] /\ call'[d] = call[d]
        BY <1>1, <1>6, OneActs DEF Step
    <2>2. pc \in [Callers -> Places] /\ call \in [Callers -> Locals] /\ call[c] \in Locals
          /\ holder \in [Cards -> SUBSET Callers] /\ a \in Cards
        BY <1>1, LocalsOf DEF Typed, Places
    <2>3. pc'[c] = "check" /\ call'[c].card = a /\ noted' = noted /\ routed' = routed
        BY <2>2, <1>6 DEF TakeCard, Goto, Locals, records
    <2>4. CASE routed # Callers
        BY <2>3, <2>4 DEF Serial
    <2>5. CASE routed = Callers
        <3>1. holder[a] = {} /\ holder' = [holder EXCEPT ![a] = {c}]
            BY <1>6, <2>5 DEF TakeCard
        <3>2. holder'[a] = {c} /\ \A b \in Cards : b # a => holder'[b] = holder[b]
            BY <2>2, <3>1
        <3>3. ASSUME NEW d \in Callers, d # c, pc'[d] \in Answering \ {"queue"}
              PROVE  holder'[call'[d].card] = {d}
            <4>1. holder[call[d].card] = {d}
                BY <1>1, <2>1, <2>5, <3>3 DEF Serial
            <4>2. call[d].card # a
                BY <3>1, <4>1
            <4> QED
                BY <1>2, <2>1, <3>2, <3>3, <4>1, <4>2
        <3>4. ASSUME NEW d \in Callers, pc'[d] \in Settling
              PROVE  Unrecorded(call[d].card) /\ call'[d] = call[d]
            <4>1. d # c
                BY <2>3, <3>4 DEF Settling, Replaying, Through
            <4>2. pc[d] \in Settling /\ call'[d] = call[d]
                BY <2>1, <3>4, <4>1
            <4> QED
                BY <1>1, <2>5, <4>2 DEF Serial
        <3>5. \A b \in Cards : noted'[b]["approved"] + noted'[b]["declined"] <= 1
            BY <1>1, <2>3, <2>5 DEF Serial
        <3> QED
            BY <2>3, <3>2, <3>3, <3>4, <3>5 DEF Serial, Unrecorded
    <2> QED
        BY <2>4, <2>5
<1>7. ASSUME NEW c \in Callers, Within(c)
      PROVE  Serial'
    <2> DEFINE a == call[c].card
    <2>1. \A d \in Callers : d # c => pc'[d] = pc[d] /\ call'[d] = call[d]
        BY <1>1, <1>7, OneActs DEF Step, Within
    <2>2. /\ call'[c].card = a /\ pc[c] \in Answering \ {"queue"}
          /\ routed' = routed /\ holder' = holder /\ noted' = noted
          /\ pc'[c] \in Settling =>
                pc[c] \in Settling \/ ResolveWrite(c) \/ Reopen(c) \/ Withdraw(c)
        BY <1>1, <1>7, WithinIs
    <2>3. a \in Cards /\ pc \in [Callers -> Places] /\ row[a] \in Row
        BY <1>1, LocalsOf DEF Typed, Places
    <2>4. ASSUME pc'[c] \in Settling, ResolveWrite(c) \/ Reopen(c) \/ Withdraw(c)
          PROVE  Unrecorded(a)
        <3>1. row[a].status \in {"pending", "approved"} /\ row[a].consumed = Null
            <4>1. CASE ResolveWrite(c)
                <5>1. CanMove(a, "pending", Verdict(call[c].choice), call[c].moment)
                    BY <2>3, <2>4, <4>1 DEF ResolveWrite, Goto, Settling, Replaying, Through
                <5> QED
                    BY <5>1 DEF CanMove
            <4>2. CASE Reopen(c)
                BY <2>3, <2>4, <4>2 DEF Reopen, Goto, Settling, Replaying, Through
            <4>3. CASE Withdraw(c)
                <5>1. DeclineLands(a, call[c].choice)
                    BY <2>3, <2>4, <4>3 DEF Withdraw, Goto, Settling, Replaying, Through
                <5> QED
                    BY <5>1 DEF DeclineLands, CanMove
            <4> QED
                BY <2>4, <4>1, <4>2, <4>3
        <3> QED
            BY <2>3, <3>1, OpenIsUnrecorded
    <2>5. \A d \in Callers : pc'[d] \in Settling =>
              pc[d] \in Settling \/ Unrecorded(call[d].card)
        BY <2>1, <2>2, <2>4
    <2>6. \A d \in Callers : pc'[d] \in Answering \ {"queue"} =>
              pc[d] \in Answering \ {"queue"} /\ call'[d].card = call[d].card
        BY <2>1, <2>2
    <2> QED
        BY <1>1, <2>2, <2>5, <2>6, SerialStays
<1>8. ASSUME NEW c \in Callers,
             NoteNo(c) \/ NoteYes(c) \/ Instruct(c) \/ Refuse(c) \/ Fail(c)
      PROVE  Serial'
    <2> DEFINE a == call[c].card
    <2>1. \A d \in Callers : d # c => pc'[d] = pc[d] /\ call'[d] = call[d]
        BY <1>1, <1>8, OneActs DEF Step
    <2>2. /\ pc'[c] = "idle" /\ routed' = routed
          /\ \A b \in Cards : holder'[b] = holder[b] \ {c}
        BY <1>1, <1>8, EndIs, FinishIs
    <2>3. pc'[c] \notin Answering
        BY <2>2 DEF Answering
    <2>4. CASE routed # Callers
        BY <2>2, <2>4 DEF Serial
    <2>5. CASE routed = Callers
        <3>1. ASSUME NEW d \in Callers, pc'[d] \in Answering \ {"queue"}
              PROVE  d # c /\ holder[call[d].card] = {d} /\ holder'[call'[d].card] = {d}
            <4>1. d # c /\ pc[d] \in Answering \ {"queue"} /\ call'[d] = call[d]
                BY <2>1, <2>3, <3>1
            <4>2. holder[call[d].card] = {d}
                BY <1>1, <2>5, <4>1 DEF Serial
            <4> QED
                BY <1>2, <2>2, <4>1, <4>2
        <3>2. CASE noted' = noted
            <4>1. ASSUME NEW d \in Callers, pc'[d] \in Settling
                  PROVE  Unrecorded(call[d].card) /\ call'[d] = call[d]
                BY <1>1, <1>3, <2>1, <2>5, <3>1, <4>1 DEF Serial
            <4>2. \A b \in Cards : noted'[b]["approved"] + noted'[b]["declined"] <= 1
                BY <1>1, <2>5, <3>2 DEF Serial
            <4> QED
                BY <3>1, <3>2, <4>1, <4>2 DEF Serial, Unrecorded
        <3>3. CASE NoteNo(c) \/ NoteYes(c)
            <4>1. pc[c] \in Settling /\ pc[c] \in Answering \ {"queue"}
                BY <3>3, WritesIs DEF Settling, Answering
            <4>2. Unrecorded(a) /\ holder[a] = {c} /\ a \in Cards
                BY <1>1, <1>2, <2>5, <4>1 DEF Serial
            <4>3. \A b \in Cards \ {a} : noted'[b] = noted[b]
                BY <1>1, <3>3, WritesIs, WriteTyped
            <4>4. noted'[a]["approved"] + noted'[a]["declined"] <= 1
                <5>1. CASE NoteNo(c)
                    <6>1. /\ noted'[a]["declined"] = noted[a]["declined"] + 1
                          /\ noted'[a]["approved"] = noted[a]["approved"]
                        BY <1>1, <5>1, WritesIs, WriteTyped
                    <6> QED
                        BY <4>2, <6>1 DEF Unrecorded
                <5>2. CASE NoteYes(c)
                    <6>1. /\ noted'[a]["approved"] = noted[a]["approved"] + 1
                          /\ noted'[a]["declined"] = noted[a]["declined"]
                        BY <1>1, <5>2, WritesIs, WriteTyped
                    <6> QED
                        BY <4>2, <6>1 DEF Unrecorded
                <5> QED
                    BY <3>3, <5>1, <5>2
            <4>5. \A b \in Cards : noted'[b]["approved"] + noted'[b]["declined"] <= 1
                BY <1>1, <2>5, <4>3, <4>4 DEF Serial
            <4>6. ASSUME NEW d \in Callers, pc'[d] \in Settling
                  PROVE  Unrecorded(call[d].card) /\ call'[d] = call[d] /\ call[d].card # a
                <5>1. d # c /\ holder[call[d].card] = {d}
                    BY <1>3, <3>1, <4>6
                <5>2. call[d].card # a
                    BY <4>2, <5>1
                <5> QED
                    BY <1>1, <2>1, <2>5, <4>6, <5>1, <5>2 DEF Serial
            <4> QED
                BY <1>2, <3>1, <4>3, <4>5, <4>6 DEF Serial, Unrecorded
        <3> QED
            BY <1>8, <3>2, <3>3, EndIs
    <2> QED
        BY <2>4, <2>5
<1>9. ASSUME NEW c \in Callers, NotePage(c)
      PROVE  Serial'
    <2> DEFINE a == call[c].card
    <2>1. \A d \in Callers : d # c => pc'[d] = pc[d]
        BY <1>1, <1>9, OneActs DEF Step
    <2>2. /\ pc[c] = "note_page" /\ pc'[c] = "instruct" /\ call' = call
          /\ routed' = routed /\ holder' = holder
        BY <1>1, <1>9, NotePageIs
    <2>3. CASE routed # Callers
        BY <2>2, <2>3 DEF Serial
    <2>4. CASE routed = Callers
        <3>1. pc[c] \in Settling /\ pc[c] \in Answering \ {"queue"} /\ pc'[c] \notin Settling
            BY <2>2 DEF Settling, Replaying, Through, Answering
        <3>2. Unrecorded(a) /\ holder[a] = {c} /\ a \in Cards
            BY <1>1, <1>2, <2>4, <3>1 DEF Serial
        <3>3. \A b \in Cards \ {a} : noted'[b] = noted[b]
            BY <1>1, <1>9, WritesIs, WriteTyped
        <3>4. /\ noted'[a]["approved"] = noted[a]["approved"] + 1
              /\ noted'[a]["declined"] = noted[a]["declined"]
            BY <1>1, <1>9, WritesIs, WriteTyped
        <3>5. \A b \in Cards : noted'[b]["approved"] + noted'[b]["declined"] <= 1
            BY <1>1, <2>4, <3>2, <3>3, <3>4 DEF Serial, Unrecorded
        <3>6. ASSUME NEW d \in Callers, pc'[d] \in Answering \ {"queue"}
              PROVE  holder'[call'[d].card] = {d}
            BY <1>1, <2>1, <2>2, <2>4, <3>1, <3>6 DEF Serial
        <3>7. ASSUME NEW d \in Callers, pc'[d] \in Settling
              PROVE  Unrecorded(call[d].card) /\ call[d].card # a
            <4>1. d # c /\ pc[d] \in Settling
                BY <2>1, <3>1, <3>7
            <4>2. holder[call[d].card] = {d}
                BY <1>1, <1>3, <2>4, <4>1 DEF Serial
            <4> QED
                BY <1>1, <2>4, <3>2, <4>1, <4>2 DEF Serial
        <3> QED
            BY <1>2, <2>2, <3>3, <3>5, <3>6, <3>7 DEF Serial, Unrecorded
    <2> QED
        BY <2>3, <2>4
<1> QED
    BY <1>4, <1>5, <1>6, <1>7, <1>8, <1>9, StepsAre

------------------------------------------------------------------------------
(* The invariant, and what it says. *)

LEMMA Initially ==
    ASSUME GateInit
    PROVE  GInv
<1>1. LegacyRow \cup {Absent} \subseteq Row
    BY ApprovalsAssumption
    DEF LegacyRow, Absent, Row, Statuses, Null, NoChoice
<1>2. \A r \in LegacyRow \cup {Absent} : r.consumed # Null => r.status = "approved"
    BY DEF LegacyRow, Absent, Null
<1>3. row \in [Cards -> LegacyRow \cup {Absent}]
    BY DEF GateInit, Init
<1>4. row \in [Cards -> Row] /\ RowsOK
    BY <1>1, <1>2, <1>3 DEF RowsOK
<1>5. now = Start /\ call = [c \in Callers |-> Idle]
    BY DEF GateInit, Init
<1>6. Typed /\ Start <= now
    <2>1. now \in Nat /\ Start <= now /\ call \in [Callers -> Locals]
        BY <1>5, IdleTyped, ApprovalsAssumption
    <2>2. ran \in [Cards -> Nat] /\ noted \in [Cards -> [{"approved", "declined"} -> Nat]]
        BY DEF GateInit
    <2>3. /\ pc \in [Callers -> Answering \cup {"closed", "idle"}]
          /\ holder \in [Cards -> SUBSET Callers] /\ opened \in [Callers -> BOOLEAN]
        BY DEF GateInit
    <2> QED
        BY <1>4, <2>1, <2>2, <2>3 DEF Typed
<1>7. \A c \in Callers : pc[c] = "closed"
    BY DEF GateInit
<1>8. \A c \in Callers : Fresh(c) /\ Opened(c)
    BY <1>7 DEF Fresh, Opened, Answering, Replaying, Through, Allowed
<1>9. SpentOnce /\ Recorded /\ Serial
    <2>1. \A a \in Cards : /\ ran[a] = 0
                           /\ noted[a]["approved"] = 0 /\ noted[a]["declined"] = 0
        BY DEF GateInit
    <2>2. SpentOnce
        BY <1>7, <2>1 DEF SpentOnce, Through
    <2>3. Recorded
        BY <1>7, <2>1 DEF Recorded
    <2>4. Serial
        BY <1>7, <2>1 DEF Serial, Answering, Settling, Replaying, Through
    <2> QED
        BY <2>2, <2>3, <2>4
<1> QED
    BY <1>4, <1>6, <1>8, <1>9 DEF GInv

LEMMA GInvKept == GInv /\ [GateNext]_gateVars => GInv'
<1> SUFFICES ASSUME GInv, [GateNext]_gateVars
             PROVE  GInv'
    OBVIOUS
<1>1. RowsOK'
    BY StepGoes DEF RowsGo, RowsOK
<1> QED
    BY <1>1, TypedKept, FreshKept, OpenedKept, SpentOnceKept, RecordedKept, SerialKept
    DEF GInv

LEMMA Invariant == GateSpec => []GInv
BY Initially, GInvKept, PTL DEF GateSpec

(* A yes is spent on one execution at most: whatever callers answer a card *)
(* with its lock or without it, however answers fail half way and are      *)
(* repeated, GateHook lets its action through to an executor once.         *)
THEOREM SpentOnOne == GateSpec => []RunsAtMostOnce
<1>1. GInv => RunsAtMostOnce
    BY DEF GInv, SpentOnce, RunsAtMostOnce
<1> QED
    BY <1>1, Invariant, PTL

(* An action runs only for a caller that said approve itself, and said it  *)
(* before the card expired, though the spend is committed any time later.  *)
THEOREM YesIsFresh == GateSpec => []FreshYes
<1>1. GInv => FreshYes
    BY DEF GInv, Fresh, FreshYes, Replaying, Through
<1> QED
    BY <1>1, Invariant, PTL

(* No answer executes what policy has refused ever since the answer began: *)
(* the replay asks PolicyHook again, and the last word of it is this one's.*)
THEOREM PolicyIsAsked == GateSpec => []PolicyStillAllows
<1>1. GInv => PolicyStillAllows
    BY DEF GInv, Opened, PolicyStillAllows, Allowed
<1> QED
    BY <1>1, Invariant, PTL

(* When every answer takes its card's lock, a card has one verdict episode *)
(* at most and what it says is final: approved only of a yes that was      *)
(* spent, whose action a daemon's executor ran or the gate left to a page  *)
(* (browser_lane.py writes the episode before it hands the page the        *)
(* instruction, so a failure then leaves a recorded yes that never ran);   *)
(* declined only of what stays declined.                                   *)
THEOREM RecordIsTrue == GateSpec => []OneTrueRecord
<1>1. GInv => OneTrueRecord
    BY DEF GInv, Recorded, Settled, Serial, OneTrueRecord
<1> QED
    BY <1>1, Invariant, PTL

------------------------------------------------------------------------------
(* The gate implements the promise made about consent. *)

stage == [a \in Cards |-> ConsentStage(row[a])]
acted == [a \in Cards |-> ran[a] > 0]

Promised == [GateConsent!Next]_<<stage, acted>>

LEMMA StageOf ==
    ASSUME NEW r, r.status \in Statuses \cup {"absent"}
    PROVE  /\ ConsentStage(r) \in {"unfiled", "asked", "yes", "no", "spent"}
           /\ r.status = "absent" => ConsentStage(r) = "unfiled"
           /\ r.status = "pending" => ConsentStage(r) = "asked"
           /\ r.status = "approved" /\ r.consumed = Null => ConsentStage(r) = "yes"
           /\ r.status = "approved" /\ r.consumed # Null => ConsentStage(r) = "spent"
           /\ r.status \in {"declined", "expired"} => ConsentStage(r) = "no"
BY DEF ConsentStage, Statuses

LEMMA InitPromises == GateInit => GateConsent!Init
<1> SUFFICES ASSUME GateInit
             PROVE  /\ stage \in [Cards -> {"unfiled", "asked", "yes", "no", "spent"}]
                    /\ acted = [a \in Cards |-> FALSE]
    BY DEF GateConsent!Init, GateConsent!Stages, stage, acted
<1>1. \A a \in Cards : row[a].status \in Statuses \cup {"absent"}
    <2>1. GInv
        BY Initially
    <2>2. row \in [Cards -> Row]
        BY <2>1 DEF GInv, Typed
    <2> QED
        BY <2>2 DEF Row
<1>2. \A a \in Cards : ran[a] = 0
    BY DEF GateInit
<1>3. (0 > 0) = FALSE
    OBVIOUS
<1>4. \A a \in Cards : (ran[a] > 0) = FALSE
    BY <1>2, <1>3, Zenon
<1>5. acted = [a \in Cards |-> FALSE]
    BY <1>4, Zenon DEF acted
<1>6. stage \in [Cards -> {"unfiled", "asked", "yes", "no", "spent"}]
    BY <1>1, StageOf DEF stage
<1> QED
    BY <1>5, <1>6

LEMMA SameStage ==
    ASSUME row' = row, ran' = ran
    PROVE  Promised
BY DEF Promised, stage, acted

(* One card is answered, withdrawn or spent, the others stay. *)
LEMMA CardMoves ==
    ASSUME GInv, NEW a \in Cards, NEW source, NEW kind, NEW at \in Nat, NEW choice,
           kind \in {"approved", "declined", "consumed"}, ran' = ran,
           kind = "consumed" => at > 0,
           Transition({a}, source, kind, at, choice)
    PROVE  Promised
<1>1. \A b \in Cards \ {a} : row'[b] = row[b]
    BY DEF Transition
<1>2. row[a] \in Row /\ row[a].status \in Statuses \cup {"absent"}
    BY DEF GInv, Typed, Row
<1>3. acted' = acted
    BY DEF acted
<1>4. CASE ~CanMove(a, source, kind, at)
    <2>1. row'[a] = row[a]
        BY <1>4 DEF Transition
    <2>2. \A b \in Cards : row'[b] = row[b]
        BY <1>1, <2>1
    <2>3. stage' = stage
        BY <2>2 DEF stage
    <2> QED
        BY <1>3, <2>3 DEF Promised
<1>5. CASE CanMove(a, source, kind, at)
    <2>1. row'[a] = Moved(row[a], kind, at, choice)
        BY <1>5, Landed
    <2>2. row[a].status = source /\ row[a].consumed = Null /\ Edge(source, kind)
        BY <1>5 DEF CanMove
    <2>3. stage'[a] = ConsentStage(row'[a]) /\ stage[a] = ConsentStage(row[a])
        BY DEF stage
    <2>4. stage' = [stage EXCEPT ![a] = stage'[a]]
        BY <1>1 DEF stage
    <2>5. CASE kind = "consumed"
        <3>1. source = "approved"
            BY <2>2, <2>5 DEF Edge, Verdicts
        <3>2. row'[a].status = "approved" /\ row'[a].consumed # Null
            BY <1>2, <2>1, <2>2, <2>5, <3>1 DEF Moved, Row, Null
        <3>3. stage[a] = "yes" /\ stage'[a] = "spent"
            BY <1>2, <2>2, <2>3, <3>1, <3>2, StageOf DEF Statuses
        <3>4. GateConsent!Spend(a)
            BY <1>3, <2>4, <3>3 DEF GateConsent!Spend, GateConsent!Move, stage, acted
        <3> QED
            BY <3>4 DEF Promised, GateConsent!Next
    <2>6. CASE kind \in {"approved", "declined"}
        <3>1. row'[a].status = kind /\ row'[a].consumed = Null
            BY <1>2, <2>1, <2>2, <2>6 DEF Moved, Row
        <3>2. source = "pending" \/ (source = "approved" /\ kind = "declined")
            BY <2>2, <2>6 DEF Edge
        <3>3. stage[a] = IF source = "pending" THEN "asked" ELSE "yes"
            BY <1>2, <2>2, <2>3, <3>2, StageOf
        <3>4. stage'[a] = IF kind = "approved" THEN "yes" ELSE "no"
            BY <2>3, <2>6, <3>1, StageOf DEF Statuses
        <3>5. GateConsent!Yes(a) \/ GateConsent!No(a)
            BY <1>3, <2>4, <2>6, <3>2, <3>3, <3>4
            DEF GateConsent!Yes, GateConsent!No, GateConsent!Move, stage, acted
        <3> QED
            BY <3>5 DEF Promised, GateConsent!Next
    <2> QED
        BY <2>5, <2>6
<1> QED
    BY <1>4, <1>5

LEMMA StepPromises ==
    ASSUME GInv, [GateNext]_gateVars
    PROVE  Promised
<1>1. Typed /\ now \in Nat /\ now > 0
    BY ApprovalsAssumption DEF GInv, Typed
<1>2. ASSUME NEW c \in Callers, NEW a \in Cards, FileCard(c, a)
      PROVE  Promised
    <2>1. row[a].status = "absent" /\ row[a] \in Row /\ ran' = ran
        BY <1>1, <1>2 DEF FileCard, Create, Typed, records
    <2>2. row'[a].status = "pending" /\ \A b \in Cards \ {a} : row'[b] = row[b]
        BY <1>1, <1>2 DEF FileCard, Create, Typed, Absent
    <2>3. stage[a] = "unfiled" /\ stage'[a] = "asked"
        BY <2>1, <2>2, StageOf DEF stage, Statuses
    <2>4. stage' = [stage EXCEPT ![a] = "asked"] /\ acted' = acted
        BY <2>1, <2>2, <2>3 DEF stage, acted
    <2>5. GateConsent!Ask(a)
        BY <2>3, <2>4 DEF GateConsent!Ask, GateConsent!Move, stage, acted
    <2> QED
        BY <2>5 DEF Promised, GateConsent!Next
<1>3. ASSUME NEW c \in Callers, Sweep(c), ran' = ran PROVE Promised
    <2> DEFINE at == call[c].moment
               S == {a \in Cards : CanMove(a, "pending", "expired", at)}
    <2>1. Transition(Cards, "pending", "expired", at, NoChoice)
        BY <1>3 DEF Sweep
    <2>2. ASSUME NEW a \in S PROVE stage[a] = "asked" /\ stage'[a] = "no"
        <3>1. row[a].status = "pending" /\ row'[a] = Moved(row[a], "expired", at, NoChoice)
            BY <2>1, <2>2 DEF Transition, CanMove
        <3>2. row[a] \in Row
            BY <1>1, <2>2 DEF Typed
        <3>3. row'[a].status = "expired"
            BY <3>1, <3>2 DEF Moved, Row
        <3> QED
            BY <2>2, <3>1, <3>3, StageOf DEF stage, Statuses
    <2>3. \A a \in Cards \ S : row'[a] = row[a]
        BY <2>1 DEF Transition
    <2>4. \A a \in Cards : stage'[a] = IF a \in S THEN "no" ELSE stage[a]
        BY <2>2, <2>3 DEF stage
    <2>5. stage' = [a \in Cards |-> IF a \in S THEN "no" ELSE stage[a]] /\ acted' = acted
        BY <1>3, <2>4 DEF stage, acted
    <2>6. S \in SUBSET Cards /\ \A a \in S : stage[a] = "asked"
        BY <2>2
    <2> HIDE DEF S
    <2>7. GateConsent!Lapse
        BY <2>5, <2>6 DEF GateConsent!Lapse, stage, acted
    <2> QED
        BY <2>7 DEF Promised, GateConsent!Next
<1>4. ASSUME NEW c \in Callers, ResolveWrite(c), ran' = ran PROVE Promised
    <2> DEFINE a == call[c].card
    <2>1. a \in Cards /\ call[c].moment \in Nat
        BY <1>1, LocalsOf
    <2>2. Verdict(call[c].choice) \in {"approved", "declined"}
        BY DEF Verdict
    <2>3. Transition({a}, "pending", Verdict(call[c].choice), call[c].moment, call[c].choice)
        BY <1>4 DEF ResolveWrite
    <2> QED
        BY <1>4, <2>1, <2>2, <2>3, CardMoves
<1>5. ASSUME NEW c \in Callers, Withdraw(c), ran' = ran PROVE Promised
    <2>1. call[c].card \in Cards
        BY <1>1, LocalsOf
    <2>2. \/ Transition({call[c].card}, "approved", "declined", now, call[c].choice)
          \/ row' = row
        BY <1>5 DEF Withdraw, DeclineTxn, table
    <2> QED
        BY <1>1, <1>5, <2>1, <2>2, CardMoves, SameStage
<1>6. ASSUME NEW c \in Callers, Spend(c), ran' = ran PROVE Promised
    <2>1. call[c].card \in Cards
        BY <1>1, LocalsOf
    <2>2. Transition({call[c].card}, "approved", "consumed", now, NoChoice)
        BY <1>6 DEF Spend, ConsumeTxn
    <2> QED
        BY <1>1, <1>6, <2>1, <2>2, CardMoves
<1>7. ASSUME NEW c \in Callers, Execute(c) \/ Instruct(c) PROVE Promised
    <2>0. PICK a \in Cards : a = call[c].card
        BY <1>1, LocalsOf
    <2>1. /\ pc[c] \in Through /\ row' = row /\ ran' = [ran EXCEPT ![a] = @ + 1]
          /\ ran \in [Cards -> Nat] /\ row[a] \in Row
        <3>1. CASE Execute(c)
            BY <1>1, <2>0, <3>1 DEF Execute, Goto, table, Typed, Through
        <3>2. CASE Instruct(c)
            BY <1>1, <2>0, <3>2, FinishIs DEF Instruct, Typed, Through
        <3> QED
            BY <1>7, <3>1, <3>2
    <2>2. row[a].consumed # Null /\ ran[a] = 0 /\ row[a].status = "approved"
        BY <2>0, <2>1 DEF GInv, SpentOnce, RowsOK
    <2>3. stage[a] = "spent" /\ stage' = stage
        BY <2>1, <2>2, StageOf DEF stage, Statuses
    <2>4. ran'[a] = 1 /\ \A b \in Cards : b # a => ran'[b] = ran[b]
        BY <2>1, <2>2
    <2>5. (0 > 0) = FALSE /\ (1 > 0) = TRUE
        OBVIOUS
    <2>6. acted[a] = FALSE
        BY <2>1, <2>2, <2>5, Zenon DEF acted
    <2>7. \A b \in Cards : (ran'[b] > 0) = IF b = a THEN TRUE ELSE (ran[b] > 0)
        BY <2>4, <2>5, Zenon
    <2>8. acted' = [acted EXCEPT ![a] = TRUE]
        BY <2>1, <2>7, Zenon DEF acted
    <2>9. GateConsent!Run(a)
        BY <2>3, <2>6, <2>8, Zenon DEF GateConsent!Run, stage, acted
    <2> QED
        BY <2>9 DEF Promised, GateConsent!Next
<1>8. ASSUME NEW c \in Callers, Within(c) PROVE Promised
    <2>1. ran' = ran \/ Execute(c)
        BY <1>1, <1>8, WithinIs
    <2>2. CASE \/ ResolveCheck(c) \/ Reopen(c) \/ Why(c) \/ Describe(c)
               \/ Authorize(c) \/ CheckGrant(c) \/ LostSpend(c) \/ LeaveToPage(c)
        <3>1. row' = row
            BY <2>2 DEF ResolveCheck, Reopen, Why, Describe, Authorize, CheckGrant,
                        LostSpend, LeaveToPage, table
        <3> QED
            BY <1>7, <2>1, <3>1, SameStage
    <2> QED
        BY <1>3, <1>4, <1>5, <1>6, <1>7, <1>8, <2>1, <2>2 DEF Within, Resolve
<1>9. ASSUME \/ TimePasses \/ UNCHANGED gateVars
             \/ \E a \in Cards : Toggle(a)
             \/ \E c \in Callers : OpenTable(c) \/ TakeCard(c)
             \/ \E c \in Callers, a \in Cards, choice \in Tokens : Answer(c, a, choice)
             \/ \E c \in Callers : \/ NoteNo(c) \/ NoteYes(c) \/ NotePage(c)
                                  \/ Refuse(c) \/ Fail(c)
      PROVE  Promised
    <2>1. row' = row /\ ran' = ran
        BY <1>9 DEF TimePasses, Tick, Toggle, OpenTable, Open, TakeCard, Answer, NoteNo,
                    NoteYes, Note, NotePage, Refuse, Fail, Finish, gateVars, vars, table, records
    <2> QED
        BY <2>1, SameStage
<1> QED
    BY <1>2, <1>7, <1>8, <1>9, StepsAre

(* Answering a card keeps the promise about consent with the execution in  *)
(* it: what runs was spent, what was spent was a yes, and it runs once.    *)
THEOREM ConsentKept == GateSpec => GateKeepsConsent
<1>1. GInv /\ [GateNext]_gateVars =>
        [GateConsent!Next]_<<[a \in Cards |-> ConsentStage(row[a])],
                             [a \in Cards |-> ran[a] > 0]>>
    BY StepPromises DEF Promised, stage, acted
<1> QED
    BY <1>1, InitPromises, Invariant, PTL
    DEF GateSpec, GateKeepsConsent, GateConsent!Spec, GateConsent!vars

==============================================================================
