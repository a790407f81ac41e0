------------------------------ MODULE Approvals ------------------------------
(***************************************************************************)
(* The approval table (src/athena/core/approvals.py): the rows of          *)
(* companion_approval, the append-only trail of companion_approval_event,  *)
(* and the callers that act on them, each a thread of a process that has   *)
(* opened the table.                                                       *)
(*                                                                         *)
(* One write transaction (BEGIN IMMEDIATE) is one action.  A read and the  *)
(* write that follows it are different actions, since other callers get in *)
(* between.  Times are ticks of one clock; the trail is kept per card, and *)
(* the seq an event has in the table is its position there, which is all   *)
(* that supersedes is compared with.  The parameters of a card, the typed  *)
(* answer and the reason are left out: none decides whether a write lands. *)
(***************************************************************************)
EXTENDS Integers, Sequences, FiniteSetsExt

CONSTANTS Cards,     \* the approval ids
          Legacy,    \* the cards filed before the event table existed
          Callers,   \* the threads that hold an Approvals object
          Options,   \* the tokens a card offers
          Tokens,    \* the tokens somebody may answer with
          Ttl,       \* the life of a card, DEFAULT_TTL
          Start,     \* the time at which this installation first opens the table
          MaxTime    \* bound: the clock stops here

ASSUME ApprovalsAssumption ==
    /\ Cards # {}
    /\ Legacy \subseteq Cards
    /\ Options \subseteq Tokens
    /\ "none" \notin Tokens
    /\ Ttl \in Nat \ {0}
    /\ Start \in Nat \ {0}
    /\ MaxTime \in Nat

VARIABLES row,     \* companion_approval, one row per id
          trail,   \* companion_approval_event, the events of each card by seq
          now,     \* the wall clock
          pc,      \* what each caller is about to do
          call,    \* the locals of the caller's running resolve
          told     \* how many callers were told that their write of a kind landed

table == <<row, trail>>
vars == <<row, trail, now, pc, call, told>>

------------------------------------------------------------------------------
(* Rows and events *)

Null == 0                       \* SQL NULL in a time or supersedes column
NoChoice == "none"              \* SQL NULL in the choice column
Approve == "approve"            \* APPROVE_TOKEN
Statuses == {"pending", "approved", "declined", "expired"}
Verdicts == {"approved", "declined", "expired"}
Kinds == Verdicts \cup {"filed", "consumed"}

Row == [status : Statuses \cup {"absent"}, choice : Tokens \cup {NoChoice},
        created : Nat, expires : Nat, resolved : Nat, consumed : Nat]

Event == [kind : Kinds, at : Nat, choice : Tokens \cup {NoChoice},
          supersedes : Nat, backfilled : BOOLEAN]

Absent == [status |-> "absent", choice |-> NoChoice, created |-> Null,
           expires |-> Null, resolved |-> Null, consumed |-> Null]

(* What an installation without the event table can have left behind: the  *)
(* columns of one row, as the same code wrote them.                        *)
LegacyRow ==
    {r \in [status : Statuses, choice : Options \cup {NoChoice},
            created : 1..Start, expires : (1 + Ttl)..(Start + Ttl),
            resolved : 0..Start, consumed : 0..Start] :
        /\ r.expires = r.created + Ttl
        /\ r.status = "pending" => r.choice = NoChoice /\ r.resolved = Null
        /\ r.status = "approved" => /\ r.choice = Approve
                                    /\ r.created <= r.resolved
                                    /\ r.resolved < r.expires
        /\ r.status = "declined" => /\ r.choice \in Options \ {Approve}
                                    /\ r.created <= r.resolved
        /\ r.status = "expired" => r.choice = NoChoice /\ r.expires <= r.resolved
        /\ r.consumed # Null => r.status = "approved" /\ r.resolved <= r.consumed}

(* The verdict in force: the last one of the trail, or 0 when there is none. *)
LastVerdict(t) ==
    LET V == {i \in DOMAIN t : t[i].kind \in Verdicts}
    IN  IF V = {} THEN Null ELSE Max(V)

NewEvent(kind, at, choice, supersedes) ==
    [kind |-> kind, at |-> at, choice |-> choice,
     supersedes |-> supersedes, backfilled |-> FALSE]

(* APPROVAL_TRANSITIONS: the edges, and the status each leads to. *)
Edge(source, kind) ==
    \/ source = "pending" /\ kind \in Verdicts
    \/ source = "approved" /\ kind \in {"consumed", "declined"}

(* Mutants: a WHERE that forgets the spend, and one that forgets the status. *)
CanMoveSpent(a, source, kind, at) ==
    Edge(source, kind) /\ row[a].status = source /\ (kind = "expired" => row[a].expires <= at)

CanMoveAny(a, source, kind, at) ==
    Edge(source, kind) /\ row[a].consumed = Null /\ (kind = "expired" => row[a].expires <= at)

(* The WHERE of the conditional UPDATE in _transition. *)
CanMove(a, source, kind, at) ==
    /\ Edge(source, kind)
    /\ row[a].status = source
    /\ row[a].consumed = Null
    /\ kind = "expired" => row[a].expires <= at

(* Mutant: the spend as one more status. *)
MovedAsStatus(r, kind, at, choice) ==
    [r EXCEPT !.status = kind, !.resolved = at, !.choice = choice]

(* The SET of that UPDATE: a spend keeps the status, a verdict replaces it. *)
Moved(r, kind, at, choice) ==
    IF kind = "consumed"
    THEN [r EXCEPT !.consumed = at]
    ELSE [r EXCEPT !.status = kind, !.resolved = at,
                   !.choice = IF kind = "expired" THEN @ ELSE choice]

(* The event that goes with it; a second verdict names the one it replaces. *)
MoveEvent(a, source, kind, at, choice) ==
    NewEvent(kind, at, choice,
             IF kind \in Verdicts /\ source # "pending"
             THEN LastVerdict(trail[a]) ELSE Null)

(* Mutant: the rows move and the trail does not. *)
SilentTransition(S, source, kind, at, choice) ==
    /\ row' = [a \in Cards |->
                 IF a \in S /\ CanMove(a, source, kind, at)
                 THEN Moved(row[a], kind, at, choice) ELSE row[a]]
    /\ UNCHANGED trail

(* _transition for every card of S in one transaction: those the WHERE     *)
(* matches move and gain an event, the others are left exactly as they are.*)
Transition(S, source, kind, at, choice) ==
    LET M == {a \in S : CanMove(a, source, kind, at)}
    IN  /\ row' = [a \in Cards |->
                     IF a \in M THEN Moved(row[a], kind, at, choice) ELSE row[a]]
        /\ trail' = [a \in Cards |->
                     IF a \in M
                     THEN Append(trail[a], MoveEvent(a, source, kind, at, choice))
                     ELSE trail[a]]

(* The trail _backfill rebuilds from the columns of a row that has none. *)
Old(kind, at, choice) == [NewEvent(kind, at, choice, Null) EXCEPT !.backfilled = TRUE]

OldVerdict(r) ==
    IF r.status = "pending" THEN <<>>
    ELSE <<Old(r.status, IF r.resolved = Null THEN r.created ELSE r.resolved, r.choice)>>

OldSpend(r) ==
    IF r.status = "pending" \/ r.consumed = Null THEN <<>>
    ELSE <<Old("consumed", r.consumed, NoChoice)>>

(* Mutant: a backfill that forgets the spend. *)
RebuiltUnspent(r) == <<Old("filed", r.created, NoChoice)>> \o OldVerdict(r)

Rebuilt(r) == <<Old("filed", r.created, NoChoice)>> \o OldVerdict(r) \o OldSpend(r)

------------------------------------------------------------------------------
(* The callers *)

Idle == [card |-> CHOOSE a \in Cards : TRUE, choice |-> NoChoice,
         seen |-> "absent", moment |-> Null]

Init == /\ row \in {r \in [Cards -> LegacyRow \cup {Absent}] :
                      \A a \in Cards : a \in Legacy \/ r[a] = Absent}
        /\ trail = [a \in Cards |-> <<>>]
        /\ now = Start
        /\ pc = [c \in Callers |-> "closed"]
        /\ call = [c \in Callers |-> Idle]
        /\ told = [a \in Cards |-> [k \in Verdicts \cup {"consumed"} |-> 0]]

Goto(c, from, to) == /\ pc[c] = from
                     /\ pc' = [pc EXCEPT ![c] = to]

(* Mutant: the rowcount is not looked at. *)
TellAnyway(a, kind, landed) == told' = [told EXCEPT ![a][kind] = @ + 1]

Tell(a, kind, landed) ==
    told' = IF landed THEN [told EXCEPT ![a][kind] = @ + 1] ELSE told

Tick == /\ now < MaxTime
        /\ now' = now + 1
        /\ UNCHANGED <<table, pc, call, told>>

(* A thread dies with its process; a write that did not commit is undone. *)
Crash(c) == /\ pc[c] # "closed"
            /\ pc' = [pc EXCEPT ![c] = "closed"]
            /\ call' = [call EXCEPT ![c] = Idle]
            /\ UNCHANGED <<table, now, told>>

(* Approvals.__init__: create the tables and give every row a trail. *)
Open(c) == /\ Goto(c, "closed", "idle")
           /\ trail' = [a \in Cards |->
                          IF row[a].status # "absent" /\ trail[a] = <<>>
                          THEN Rebuilt(row[a]) ELSE trail[a]]
           /\ UNCHANGED <<row, now, call, told>>

(* create: the moment is taken before the writer lock is waited for, so    *)
(* the row may appear later than the time it carries.                      *)
Create(c, a) ==
    /\ pc[c] = "idle"
    /\ row[a].status = "absent"
    /\ \E at \in Start..now :
          /\ row' = [row EXCEPT ![a] = [Absent EXCEPT !.status = "pending",
                                          !.created = at, !.expires = at + Ttl]]
          /\ trail' = [trail EXCEPT ![a] =
                         Append(@, NewEvent("filed", at, NoChoice, Null))]
    /\ UNCHANGED <<now, pc, call, told>>

(* resolve, first read: an unknown id is refused without a trace. *)
ResolveRead(c, a, choice) ==
    /\ row[a].status # "absent"
    /\ Goto(c, "idle", "check")
    /\ call' = [call EXCEPT ![c] = [card |-> a, choice |-> choice,
                                    seen |-> row[a].status, moment |-> Null]]
    /\ UNCHANGED <<table, now, told>>

(* Mutant: the last moment of a card counts as alive. *)
DueAfter(c) == now > row[call[c].card].expires

(* _expired, on the row that resolve read. *)
Due(c) == now >= row[call[c].card].expires

(* resolve, the checks on the row that was read: too late, already         *)
(* answered, not an offered token, or on to the write.                     *)
ResolveCheck(c) ==
    LET waiting == call[c].seen = "pending"
    IN  /\ call' = [call EXCEPT ![c].moment = now]
        /\ \/ waiting /\ Due(c) /\ Goto(c, "check", "sweep")
           \/ waiting /\ ~Due(c) /\ call[c].choice \in Options /\ Goto(c, "check", "write")
           \/ waiting /\ ~Due(c) /\ call[c].choice \notin Options
                 /\ Goto(c, "check", "refused")
           \/ ~waiting /\ Goto(c, "check", "refused")
        /\ UNCHANGED <<table, now, told>>

(* expire_due, which resolve calls on its way to refusing a late answer:   *)
(* every card that is due at that moment goes, not only the one answered.  *)
Sweep(c) == /\ Goto(c, "sweep", "refused")
            /\ Transition(Cards, "pending", "expired", call[c].moment, NoChoice)
            /\ UNCHANGED <<now, call, told>>

(* resolve, the conditional write: exactly one of the callers that read a  *)
(* pending row changes it, and the others are refused.                     *)
Verdict(choice) == IF choice = Approve THEN "approved" ELSE "declined"

ResolveWrite(c) ==
    LET a == call[c].card
        kind == Verdict(call[c].choice)
        landed == CanMove(a, "pending", kind, call[c].moment)
    IN  /\ Goto(c, "write", IF landed THEN "won" ELSE "refused")
        /\ Transition({a}, "pending", kind, call[c].moment, call[c].choice)
        /\ Tell(a, kind, landed)
        /\ UNCHANGED <<now, call>>

(* The caller of resolve has its answer: the row, or an ApprovalError. *)
Return(c) == /\ \/ Goto(c, "won", "idle")
                \/ Goto(c, "refused", "idle")
             /\ call' = [call EXCEPT ![c] = Idle]
             /\ UNCHANGED <<table, now, told>>

(* consume: one conditional write, and its rowcount is the answer. *)
ConsumeTxn(a) == /\ Transition({a}, "approved", "consumed", now, NoChoice)
                 /\ Tell(a, "consumed", CanMove(a, "approved", "consumed", now))

Consume(c, a) == /\ pc[c] = "idle"
                 /\ ConsumeTxn(a)
                 /\ UNCHANGED <<now, pc, call>>

(* decline_approved: a row the replay refused is closed after all. *)
DeclineLands(a, choice) == /\ choice \in Options \ {Approve}
                           /\ CanMove(a, "approved", "declined", now)

DeclineTxn(a, choice) ==
    /\ choice \in Options \ {Approve}
    /\ Transition({a}, "approved", "declined", now, choice)
    /\ Tell(a, "declined", DeclineLands(a, choice))

DeclineApproved(c, a, choice) == /\ pc[c] = "idle"
                                 /\ DeclineTxn(a, choice)
                                 /\ UNCHANGED <<now, pc, call>>

Operation(c) ==
    \/ Crash(c) \/ Open(c) \/ ResolveCheck(c) \/ Sweep(c) \/ ResolveWrite(c) \/ Return(c)
    \/ \E a \in Cards : Create(c, a) \/ Consume(c, a)
    \/ \E a \in Cards, choice \in Tokens :
          ResolveRead(c, a, choice) \/ DeclineApproved(c, a, choice)

Next == Tick \/ \E c \in Callers : Operation(c)

Spec == Init /\ [][Next]_vars

------------------------------------------------------------------------------
(* Properties *)

(* Every column and every local holds a value of its kind. *)
TypeOK ==
    /\ row \in [Cards -> Row]
    /\ trail \in [Cards -> Seq(Event)]
    /\ now \in Nat
    /\ pc \in [Callers -> {"closed", "idle", "check", "write", "sweep", "won", "refused"}]
    /\ call \in [Callers -> [card : Cards, choice : Tokens \cup {NoChoice},
                             seen : Statuses \cup {"absent"}, moment : Nat]]
    /\ told \in [Cards -> [Verdicts \cup {"consumed"} -> Nat]]

(* The life of a card as its trail tells it: filed once, at most one first *)
(* verdict, and after a yes either its one spend or its one withdrawal,    *)
(* never both, whatever callers race (the diagram of the module docstring).*)
Lives == {<<>>, <<"filed">>, <<"filed", "approved">>, <<"filed", "declined">>,
          <<"filed", "expired">>, <<"filed", "approved", "consumed">>,
          <<"filed", "approved", "declined">>}

LegalTrails ==
    \A a \in Cards : [i \in DOMAIN trail[a] |-> trail[a][i].kind] \in Lives

(* The row is the projection of its trail: status, choice and resolved_at  *)
(* are those of the last verdict, consumed_at is that of the spend.  Once  *)
(* any process has the table open no row is without a trail.               *)
RowIsHead ==
    \A a \in Cards :
        LET t == trail[a]
            v == LastVerdict(t)
            spends == {i \in DOMAIN t : t[i].kind = "consumed"}
        IN  IF t = <<>>
            THEN row[a].status = "absent" \/ \A c \in Callers : pc[c] = "closed"
            ELSE /\ v = Null => row[a].status = "pending"
                 /\ v # Null => /\ row[a].status = t[v].kind
                                /\ row[a].choice = t[v].choice
                                /\ row[a].resolved = t[v].at
                 /\ IF spends = {} THEN row[a].consumed = Null
                    ELSE \E i \in spends : row[a].consumed = t[i].at

(* A decline that replaces a yes names that yes, and nothing else names    *)
(* anything: "approved at T1, declined at T2" can always be read back.     *)
SupersedesTheYes ==
    \A a \in Cards : \A i \in DOMAIN trail[a] :
        LET e == trail[a][i]
            yeses == {j \in 1..(i - 1) : trail[a][j].kind = "approved"}
        IN  IF e.kind = "declined" /\ yeses # {}
            THEN e.supersedes \in yeses ELSE e.supersedes = Null

(* Every caller that was told its answer, its spend or its withdrawal      *)
(* landed has an event of its own: two racing callers are never both told  *)
(* yes for one write.                                                      *)
OneCallerTold ==
    \A a \in Cards : \A k \in {"approved", "declined", "consumed"} :
        told[a][k] = Cardinality({i \in DOMAIN trail[a] :
                                    trail[a][i].kind = k /\ ~trail[a][i].backfilled})

(* No answer is accepted at or after the card's expiry, and no card is     *)
(* expired before it, though the write may land later than the check and   *)
(* another caller's sweep may run in between.                              *)
NoLateAnswer ==
    \A a \in Cards : \A i \in DOMAIN trail[a] :
        LET e == trail[a][i]
        IN  ~e.backfilled =>
              /\ e.kind = "expired" => row[a].expires <= e.at
              /\ e.kind \in {"approved", "declined"} /\ e.supersedes = Null
                   => e.at < row[a].expires

(* The trail of a card reads forward in time, although a verdict carries   *)
(* the moment of its check and not that of its commit.                     *)
AuditInOrder ==
    \A a \in Cards : \A i \in DOMAIN trail[a] :
        \A j \in 1..i : trail[a][j].at <= trail[a][i].at

(* No edge leaves a spent, a declined or an expired row.                   *)
Closed(r) == r.consumed # Null \/ r.status \in {"declined", "expired"}

ClosedIsFinal == [][\A a \in Cards : Closed(row[a]) => row'[a] = row[a]]_vars

(* A row changes only in the transaction that appends the event saying so. *)
NoSilentChange ==
    [][\A a \in Cards : row'[a] # row[a] =>
          /\ Len(trail'[a]) = Len(trail[a]) + 1
          /\ SubSeq(trail'[a], 1, Len(trail[a])) = trail[a]]_vars

(* The table implements the promise made about consent. *)
ConsentStage(r) ==
    CASE r.status = "absent" -> "unfiled"
      [] r.status = "pending" -> "asked"
      [] r.status = "approved" /\ r.consumed = Null -> "yes"
      [] r.status = "approved" /\ r.consumed # Null -> "spent"
      [] r.status \in {"declined", "expired"} -> "no"

Consent == INSTANCE OneShotConsent WITH
              consent <- [a \in Cards |-> ConsentStage(row[a])],
              ran <- [a \in Cards |-> FALSE]

KeepsConsent == Consent!Spec

=============================================================================
