--------------------------- MODULE ApprovalsProofs ---------------------------
(***************************************************************************)
(* The approval table, for any cards, callers, options and times.          *)
(*                                                                         *)
(* The inductive invariant says of every card which of the few shapes its  *)
(* row and its trail are in together (CardOK), when a card may still have  *)
(* no trail (Untold), and what a caller between the check and the write of *)
(* a resolve knows of the row it will write (CallOK).                      *)
(***************************************************************************)
EXTENDS Approvals, SequenceTheorems, FiniteSetTheorems, TLAPS

(* An event that is the verdict the row carries. *)
Carries(r, e) == /\ e.kind = r.status
                 /\ e.choice = r.choice
                 /\ e.at = r.resolved

OnTime(r, e) == ~e.backfilled => /\ e.kind = "expired" => r.expires <= e.at
                                 /\ e.kind \in {"approved", "declined"}
                                      => e.at < r.expires

Asked(r, t) == /\ Len(t) = 1
               /\ r.status = "pending"
               /\ r.choice = NoChoice
               /\ r.consumed = Null

Settled(r, t) == /\ Len(t) = 2
                 /\ r.status \in Verdicts
                 /\ r.consumed = Null
                 /\ Carries(r, t[2])

Spent(r, t) == /\ Len(t) = 3
               /\ r.status = "approved"
               /\ Carries(r, t[2])
               /\ t[3].kind = "consumed"
               /\ t[3].supersedes = Null
               /\ r.consumed = t[3].at
               /\ r.consumed # Null

Withdrawn(r, t) == /\ Len(t) = 3
                   /\ r.status = "declined"
                   /\ r.consumed = Null
                   /\ t[2].kind = "approved"
                   /\ t[3].supersedes = 2
                   /\ Carries(r, t[3])

CardOK(r, t) ==
    /\ Len(t) > 0
    /\ r.created > 0
    /\ r.expires = r.created + Ttl
    /\ t[1].kind = "filed"
    /\ t[1].at = r.created
    /\ t[1].supersedes = Null
    /\ Len(t) > 1 => /\ OnTime(r, t[2])
                     /\ t[2].supersedes = Null
                     /\ t[1].at <= t[2].at
    /\ Len(t) > 2 => t[2].at <= t[3].at
    /\ Asked(r, t) \/ Settled(r, t) \/ Spent(r, t) \/ Withdrawn(r, t)

Untold(a) == /\ trail[a] = <<>>
             /\ \/ row[a] = Absent
                \/ row[a] \in LegacyRow /\ \A c \in Callers : pc[c] = "closed"

CardsOK == \A a \in Cards : CardOK(row[a], trail[a]) \/ Untold(a)

NothingAhead == \A a \in Cards : \A i \in DOMAIN trail[a] : trail[a][i].at <= now

CallOK(c) ==
    LET r == row[call[c].card]
    IN  /\ pc[c] \in {"check", "write", "sweep"} => r.status # "absent"
        /\ pc[c] \in {"write", "sweep"} => call[c].moment <= now
        /\ pc[c] = "write" => /\ call[c].choice \in Options
                              /\ r.created <= call[c].moment
                              /\ call[c].moment < r.expires

IInv == /\ TypeOK
        /\ Start <= now
        /\ CardsOK
        /\ NothingAhead
        /\ \A c \in Callers : CallOK(c)

------------------------------------------------------------------------------
(* The last verdict of a trail, for the trails there are. *)

LEMMA LastIs ==
    ASSUME NEW t, NEW v \in Nat, v \in DOMAIN t, t[v].kind \in Verdicts,
           DOMAIN t \subseteq Nat,
           \A i \in DOMAIN t : t[i].kind \in Verdicts => i <= v
    PROVE  LastVerdict(t) = v
<1> DEFINE V == {i \in DOMAIN t : t[i].kind \in Verdicts}
<1>1. v \in V /\ \A y \in V : v >= y
    OBVIOUS
<1>2. \A x \in V : (\A y \in V : x >= y) => x = v
    BY <1>1
<1>3. Max(V) = v
    BY <1>1, <1>2 DEF Max
<1> QED
    BY <1>1, <1>3 DEF LastVerdict

LEMMA NoneYet ==
    ASSUME NEW t, \A i \in DOMAIN t : t[i].kind \notin Verdicts
    PROVE  LastVerdict(t) = Null
BY DEF LastVerdict

LEMMA LastOfCard ==
    ASSUME NEW r, NEW t \in Seq(Event), CardOK(r, t)
    PROVE  /\ Asked(r, t) => LastVerdict(t) = Null
           /\ Settled(r, t) \/ Spent(r, t) => LastVerdict(t) = 2
           /\ Withdrawn(r, t) => LastVerdict(t) = 3
<1>1. DOMAIN t = 1..Len(t) /\ t[1].kind = "filed" /\ Len(t) \in Nat
    BY DEF CardOK
<1>2. CASE Asked(r, t)
    <2>1. LastVerdict(t) = Null
        BY <1>1, <1>2, NoneYet DEF Asked, Verdicts
    <2> QED
        BY <1>2, <2>1 DEF Asked, Settled, Spent, Withdrawn
<1>3. CASE Settled(r, t) \/ Spent(r, t)
    <2>1. /\ 2 \in DOMAIN t /\ t[2].kind \in Verdicts
          /\ \A i \in DOMAIN t : t[i].kind \in Verdicts => i <= 2
        BY <1>1, <1>3 DEF Settled, Spent, Carries, Verdicts
    <2>2. LastVerdict(t) = 2
        BY <1>1, <2>1, LastIs
    <2> QED
        BY <1>3, <2>2 DEF Asked, Settled, Spent, Withdrawn, Verdicts
<1>4. CASE Withdrawn(r, t)
    <2>1. /\ 3 \in DOMAIN t /\ t[3].kind \in Verdicts
          /\ \A i \in DOMAIN t : t[i].kind \in Verdicts => i <= 3
        BY <1>1, <1>4 DEF Withdrawn, Carries, Verdicts
    <2>2. LastVerdict(t) = 3
        BY <1>1, <2>1, LastIs
    <2> QED
        BY <1>4, <2>2 DEF Asked, Settled, Spent, Withdrawn
<1> QED
    BY <1>2, <1>3, <1>4 DEF CardOK

------------------------------------------------------------------------------
(* What one transaction does to one card. *)

LEMMA TransitionOf ==
    ASSUME NEW S, NEW source, NEW kind, NEW at, NEW choice, S \subseteq Cards,
           Transition(S, source, kind, at, choice), NEW a \in Cards
    PROVE  \/ row'[a] = row[a] /\ trail'[a] = trail[a]
           \/ /\ a \in S
              /\ CanMove(a, source, kind, at)
              /\ row'[a] = Moved(row[a], kind, at, choice)
              /\ trail'[a] = Append(trail[a], MoveEvent(a, source, kind, at, choice))
BY DEF Transition

(* A move that the WHERE allows, in time, takes a card from one of its     *)
(* shapes to another, and keeps row and event in their types.              *)
LEMMA MoveKeepsCard ==
    ASSUME NEW a \in Cards, NEW source, NEW kind, NEW at \in Nat, at > 0,
           NEW choice \in Tokens \cup {NoChoice},
           CanMove(a, source, kind, at),
           row[a] \in Row, trail[a] \in Seq(Event), CardOK(row[a], trail[a]),
           \A i \in DOMAIN trail[a] : i > 1 => trail[a][i].at <= at,
           row[a].created <= at,
           source = "pending" /\ kind # "expired" => at < row[a].expires,
           kind = "expired" => choice = NoChoice
    PROVE  LET r == Moved(row[a], kind, at, choice)
               e == MoveEvent(a, source, kind, at, choice)
           IN  e \in Event /\ r \in Row /\ CardOK(r, Append(trail[a], e))
<1> DEFINE r == row[a]
           t == trail[a]
           e == MoveEvent(a, source, kind, at, choice)
           s == Moved(r, kind, at, choice)
           u == Append(t, e)
<1>1. /\ r.status = source /\ r.consumed = Null
      /\ kind = "expired" => r.expires <= at
      /\ \/ source = "pending" /\ kind \in Verdicts
         \/ source = "approved" /\ kind \in {"consumed", "declined"}
    BY DEF CanMove, Edge
<1>2. /\ e.kind = kind /\ e.at = at /\ e.choice = choice /\ e.backfilled = FALSE
      /\ e.supersedes = IF kind \in Verdicts /\ source # "pending"
                        THEN LastVerdict(t) ELSE Null
    BY DEF MoveEvent, NewEvent
<1>3. s \in Row
    BY <1>1 DEF Moved, Row, Statuses, Verdicts
<1>4. /\ s.created = r.created /\ s.expires = r.expires
      /\ kind = "consumed" => /\ s.status = r.status /\ s.choice = r.choice
                              /\ s.resolved = r.resolved /\ s.consumed = at
      /\ kind # "consumed" => /\ s.status = kind /\ s.resolved = at
                              /\ s.consumed = r.consumed
                              /\ s.choice = IF kind = "expired" THEN r.choice ELSE choice
    BY DEF Moved, Row
<1>5. /\ Len(u) = Len(t) + 1 /\ u[Len(t) + 1] = e
      /\ \A i \in 1..Len(t) : u[i] = t[i]
      /\ Len(t) \in Nat /\ DOMAIN t = 1..Len(t)
    OBVIOUS
<1>6. /\ r.created > 0 /\ r.expires = r.created + Ttl /\ Len(t) > 0
      /\ t[1].kind = "filed" /\ t[1].at = r.created /\ t[1].supersedes = Null
    BY DEF CardOK
<1>7. CASE source = "pending"
    <2>1. Asked(r, t)
        BY <1>1, <1>7 DEF CardOK, Asked, Settled, Spent, Withdrawn, Verdicts
    <2>2. e \in Event
        BY <1>1, <1>2, <1>7 DEF MoveEvent, NewEvent, Event, Kinds, Verdicts, Null
    <2>3. Len(t) = 1 /\ u[1] = t[1] /\ u[2] = e /\ Len(u) = 2
        BY <1>5, <2>1 DEF Asked
    <2>4. s.status = kind /\ kind \in Verdicts /\ s.resolved = at /\ s.consumed = Null
        BY <1>1, <1>4, <1>7 DEF Verdicts
    <2>5. Settled(s, u)
        BY <1>2, <1>4, <2>1, <2>3, <2>4 DEF Settled, Carries, Asked, Verdicts
    <2>6. OnTime(s, u[2]) /\ u[2].supersedes = Null /\ u[1].at <= u[2].at
        BY <1>1, <1>2, <1>4, <1>6, <1>7, <2>3, <2>4 DEF OnTime, Verdicts
    <2>7. CardOK(s, u)
        BY <1>4, <1>6, <2>3, <2>5, <2>6 DEF CardOK
    <2> QED
        BY <1>3, <2>2, <2>7
<1>8. CASE source = "approved"
    <2>1. Settled(r, t)
        BY <1>1, <1>8 DEF CardOK, Asked, Settled, Spent, Withdrawn, Verdicts
    <2>2. LastVerdict(t) = 2
        BY <2>1, LastOfCard
    <2>3. e \in Event
        BY <1>1, <1>2, <1>8, <2>2
        DEF MoveEvent, NewEvent, Event, Kinds, Verdicts, Null
    <2>4. Len(t) = 2 /\ u[1] = t[1] /\ u[2] = t[2] /\ u[3] = e /\ Len(u) = 3
        BY <1>5, <2>1 DEF Settled
    <2>5. /\ OnTime(s, u[2]) /\ u[2].supersedes = Null /\ u[1].at <= u[2].at
          /\ u[2].at <= u[3].at
        BY <1>2, <1>4, <1>5, <2>4 DEF OnTime, CardOK
    <2>6. CASE kind = "consumed"
        <3>1. Spent(s, u)
            BY <1>1, <1>2, <1>4, <1>8, <2>1, <2>4, <2>6
            DEF Spent, Settled, Carries, Verdicts, Null
        <3> QED
            BY <1>3, <1>4, <1>6, <2>3, <2>4, <2>5, <3>1 DEF CardOK
    <2>7. CASE kind = "declined"
        <3>1. Withdrawn(s, u)
            BY <1>1, <1>2, <1>4, <1>8, <2>1, <2>2, <2>4, <2>7
            DEF Withdrawn, Settled, Carries, Verdicts
        <3> QED
            BY <1>3, <1>4, <1>6, <2>3, <2>4, <2>5, <3>1 DEF CardOK
    <2>8. kind \in {"consumed", "declined"}
        BY <1>1, <1>8
    <2> QED
        BY <1>3, <2>3, <2>6, <2>7, <2>8
<1> QED
    BY <1>1, <1>7, <1>8

(* What a transaction of an open table leaves behind: cards in shape, and  *)
(* of every row that was there its age and its existence.                  *)
TableMoved ==
    /\ row' \in [Cards -> Row]
    /\ trail' \in [Cards -> Seq(Event)]
    /\ \A a \in Cards : \/ CardOK(row'[a], trail'[a])
                        \/ row'[a] = Absent /\ trail'[a] = <<>>
    /\ \A a \in Cards : \A i \in DOMAIN trail'[a] : trail'[a][i].at <= now
    /\ \A a \in Cards : row[a].status # "absent" =>
                            /\ row'[a].created = row[a].created
                            /\ row'[a].expires = row[a].expires
                            /\ row'[a].status # "absent"

(* A transaction of an open table keeps every card in shape, and touches   *)
(* neither the age nor the existence of a row.                             *)
LEMMA TxnKeeps ==
    ASSUME IInv, NEW c \in Callers, pc[c] # "closed",
           NEW S \in SUBSET Cards, NEW source, NEW kind, NEW at \in Nat,
           NEW choice \in Tokens \cup {NoChoice},
           Transition(S, source, kind, at, choice), at <= now,
           kind = "expired" => choice = NoChoice,
           \A a \in S : CanMove(a, source, kind, at) =>
               /\ at > 0
               /\ row[a].created <= at
               /\ \A i \in DOMAIN trail[a] : i > 1 => trail[a][i].at <= at
               /\ source = "pending" /\ kind # "expired" => at < row[a].expires
    PROVE  TableMoved
<1> SUFFICES ASSUME NEW a \in Cards
             PROVE  /\ row'[a] \in Row /\ trail'[a] \in Seq(Event)
                    /\ \/ CardOK(row'[a], trail'[a])
                       \/ row'[a] = Absent /\ trail'[a] = <<>>
                    /\ \A i \in DOMAIN trail'[a] : trail'[a][i].at <= now
                    /\ row'[a].created = row[a].created
                    /\ row'[a].expires = row[a].expires
                    /\ row[a].status # "absent" => row'[a].status # "absent"
    <2>1. row' = [x \in Cards |-> row'[x]] /\ trail' = [x \in Cards |-> trail'[x]]
        BY DEF Transition
    <2> QED
        BY <2>1 DEF TableMoved
<1>1. /\ row[a] \in Row /\ trail[a] \in Seq(Event)
      /\ \A i \in DOMAIN trail[a] : trail[a][i].at <= now
      /\ CardOK(row[a], trail[a]) \/ (row[a] = Absent /\ trail[a] = <<>>)
    BY DEF IInv, TypeOK, CardsOK, Untold, NothingAhead
<1>2. CASE row'[a] = row[a] /\ trail'[a] = trail[a]
    BY <1>1, <1>2
<1>3. CASE /\ a \in S
           /\ CanMove(a, source, kind, at)
           /\ row'[a] = Moved(row[a], kind, at, choice)
           /\ trail'[a] = Append(trail[a], MoveEvent(a, source, kind, at, choice))
    <2> DEFINE e == MoveEvent(a, source, kind, at, choice)
    <2>1. CardOK(row[a], trail[a])
        BY <1>1, <1>3 DEF CanMove, Edge, Absent
    <2>2. e \in Event /\ row'[a] \in Row /\ CardOK(row'[a], trail'[a])
        BY <1>1, <1>3, <2>1, MoveKeepsCard
    <2>3. e.at = at
        BY DEF MoveEvent, NewEvent
    <2>4. /\ trail'[a] \in Seq(Event)
          /\ \A i \in DOMAIN trail'[a] : \/ trail'[a][i] = trail[a][i] /\ i \in DOMAIN trail[a]
                                         \/ trail'[a][i] = e
        BY <1>1, <1>3, <2>2
    <2>5. \A i \in DOMAIN trail'[a] : trail'[a][i].at <= now
        BY <1>1, <2>3, <2>4
    <2>6. /\ row'[a].created = row[a].created
          /\ row'[a].expires = row[a].expires
          /\ row'[a].status # "absent"
        BY <1>1, <1>3 DEF Moved, CanMove, Edge, Row, Verdicts
    <2> QED
        BY <2>2, <2>4, <2>5, <2>6
<1> QED
    BY <1>2, <1>3, TransitionOf

(* A step that leaves the table alone keeps its cards as they are, as long *)
(* as it opens nothing.                                                    *)
LEMMA TableAlone ==
    ASSUME IInv, UNCHANGED table, now' \in Nat, now <= now',
           \A c \in Callers : pc'[c] # "closed" => \E d \in Callers : pc[d] # "closed"
    PROVE  CardsOK' /\ NothingAhead'
<1>1. row' = row /\ trail' = trail
    BY DEF table
<1>2. CardsOK'
    <2> SUFFICES ASSUME NEW a \in Cards, ~CardOK(row[a], trail[a])
                 PROVE  Untold(a)'
        BY <1>1 DEF CardsOK
    <2>1. Untold(a)
        BY DEF IInv, CardsOK
    <2> QED
        BY <1>1, <2>1 DEF Untold
<1>3. NothingAhead'
    <2>1. \A a \in Cards : trail[a] \in Seq(Event)
        BY DEF IInv, TypeOK
    <2>2. ASSUME NEW a \in Cards, NEW i \in DOMAIN trail[a]
          PROVE  trail[a][i].at \in Nat
        <3>1. trail[a][i] \in Event
            BY <2>1
        <3> QED
            BY <3>1 DEF Event
    <2> QED
        BY <1>1, <2>2 DEF IInv, TypeOK, NothingAhead
<1> QED
    BY <1>2, <1>3

(* What the callers of a resolve know survives every step that leaves the  *)
(* age and the existence of the rows alone.                                *)
LEMMA CallsKept ==
    ASSUME IInv, NEW c \in Callers, now' \in Nat, now <= now',
           \A a \in Cards : row[a].status # "absent" =>
                               /\ row'[a].created = row[a].created
                               /\ row'[a].expires = row[a].expires
                               /\ row'[a].status # "absent",
           call'[c] = call[c],
           pc'[c] = pc[c] \/ pc'[c] \notin {"check", "write", "sweep"}
    PROVE  CallOK(c)'
<1>1. call[c].card \in Cards /\ call[c].moment \in Nat
    BY DEF IInv, TypeOK
<1> QED
    BY <1>1 DEF IInv, TypeOK, CallOK

LEMMA IdleTyped == Idle \in [card : Cards, choice : Tokens \cup {NoChoice},
                             seen : Statuses \cup {"absent"}, moment : Nat]
<1>1. (CHOOSE a \in Cards : TRUE) \in Cards
    BY ApprovalsAssumption
<1> QED
    BY <1>1 DEF Idle, Null

LEMMA LegacyTyped == LegacyRow \cup {Absent} \subseteq Row
<1>1. LegacyRow \subseteq Row
    BY ApprovalsAssumption DEF LegacyRow, Row
<1>2. Absent \in Row
    BY DEF Absent, Row, Null
<1> QED
    BY <1>1, <1>2

LEMMA Initially == Init => IInv
<1> SUFFICES ASSUME Init PROVE IInv
    OBVIOUS
<1>1. row \in [Cards -> Row]
    BY LegacyTyped DEF Init
<1>2. call \in [Callers -> [card : Cards, choice : Tokens \cup {NoChoice},
                            seen : Statuses \cup {"absent"}, moment : Nat]]
    BY IdleTyped DEF Init
<1>3. TypeOK
    BY <1>1, <1>2, ApprovalsAssumption DEF Init, TypeOK, Verdicts
<1>4. CardsOK
    BY DEF Init, CardsOK, Untold
<1>5. NothingAhead
    BY DEF Init, NothingAhead
<1>6. \A c \in Callers : CallOK(c)
    BY DEF Init, CallOK
<1> QED
    BY <1>3, <1>4, <1>5, <1>6, ApprovalsAssumption DEF IInv, Init

------------------------------------------------------------------------------
(* One lemma per action. *)

LEMMA TickStep == ASSUME IInv, Tick PROVE IInv'
<1>1. UNCHANGED <<table, pc, call, told>> /\ now' = now + 1 /\ now \in Nat
    BY DEF Tick, IInv, TypeOK
<1>2. row' = row /\ trail' = trail
    BY <1>1 DEF table
<1>3. now' \in Nat /\ now <= now' /\ pc' = pc /\ call' = call
    BY <1>1
<1>4. CardsOK' /\ NothingAhead'
    BY <1>1, <1>3, TableAlone
<1>5. \A c \in Callers : CallOK(c)'
    BY <1>2, <1>3, CallsKept
<1>6. TypeOK'
    BY <1>1, <1>2, <1>3 DEF IInv, TypeOK
<1>7. Start <= now'
    BY <1>1, ApprovalsAssumption DEF IInv
<1> QED
    BY <1>4, <1>5, <1>6, <1>7 DEF IInv

LEMMA CrashStep == ASSUME IInv, NEW c \in Callers, Crash(c) PROVE IInv'
<1>1. /\ row' = row /\ trail' = trail /\ now' = now /\ told' = told
      /\ pc' = [pc EXCEPT ![c] = "closed"] /\ call' = [call EXCEPT ![c] = Idle]
      /\ UNCHANGED table /\ now \in Nat
    BY DEF Crash, table, IInv, TypeOK
<1>2. /\ now' \in Nat /\ now <= now'
      /\ pc'[c] = "closed" /\ call'[c] = Idle
      /\ \A d \in Callers \ {c} : pc'[d] = pc[d] /\ call'[d] = call[d]
    BY <1>1 DEF IInv, TypeOK
<1>3. CardsOK' /\ NothingAhead'
    <2>1. \A d \in Callers : pc'[d] # "closed" => \E b \in Callers : pc[b] # "closed"
        BY <1>2
    <2> QED
        BY <1>1, <1>2, <2>1, TableAlone
<1>4. \A d \in Callers : CallOK(d)'
    <2>1. CallOK(c)'
        BY <1>2 DEF CallOK
    <2>2. ASSUME NEW d \in Callers, d # c PROVE CallOK(d)'
        <3>1. pc'[d] = pc[d] /\ call'[d] = call[d]
            BY <1>2, <2>2
        <3> QED
            BY <1>1, <1>2, <3>1, CallsKept
    <2> QED
        BY <2>1, <2>2
<1>5. TypeOK'
    BY <1>1, IdleTyped DEF IInv, TypeOK
<1> QED
    BY <1>1, <1>3, <1>4, <1>5 DEF IInv

Pcs == {"closed", "idle", "check", "write", "sweep", "won", "refused"}
Calls == [card : Cards, choice : Tokens \cup {NoChoice},
          seen : Statuses \cup {"absent"}, moment : Nat]

(* A caller goes on without touching the table. *)
LEMMA CallerStep ==
    ASSUME IInv, NEW c \in Callers, pc[c] # "closed",
           UNCHANGED <<table, now, told>>,
           NEW p \in Pcs, pc' = [pc EXCEPT ![c] = p],
           NEW q \in Calls, call' = [call EXCEPT ![c] = q],
           CallOK(c)'
    PROVE  IInv'
<1>1. /\ row' = row /\ trail' = trail /\ now' = now /\ told' = told
      /\ now' \in Nat /\ now <= now'
      /\ \A d \in Callers \ {c} : pc'[d] = pc[d] /\ call'[d] = call[d]
    BY DEF table, IInv, TypeOK
<1>2. CardsOK' /\ NothingAhead'
    <2>1. \A d \in Callers : pc'[d] # "closed" => \E b \in Callers : pc[b] # "closed"
        OBVIOUS
    <2> QED
        BY <1>1, <2>1, TableAlone
<1>3. \A d \in Callers : CallOK(d)'
    <2>1. ASSUME NEW d \in Callers, d # c PROVE CallOK(d)'
        <3>1. pc'[d] = pc[d] /\ call'[d] = call[d]
            BY <1>1, <2>1
        <3> QED
            BY <1>1, <3>1, CallsKept
    <2> QED
        BY <2>1
<1>4. TypeOK'
    BY <1>1 DEF IInv, TypeOK, Pcs, Calls
<1> QED
    BY <1>1, <1>2, <1>3, <1>4 DEF IInv

(* A caller commits a transaction and goes on. *)
LEMMA TxnStep ==
    ASSUME IInv, NEW c \in Callers, TableMoved, now' = now, call' = call,
           told' \in [Cards -> [Verdicts \cup {"consumed"} -> Nat]],
           NEW p \in Pcs, pc' = [pc EXCEPT ![c] = p],
           p = pc[c] \/ p \notin {"check", "write", "sweep"}
    PROVE  IInv'
<1>1. now' \in Nat /\ now <= now'
    BY DEF IInv, TypeOK
<1>2. CardsOK' /\ NothingAhead'
    BY DEF TableMoved, CardsOK, NothingAhead, Untold
<1>3. ASSUME NEW d \in Callers PROVE CallOK(d)'
    <2>1. call'[d] = call[d] /\ (pc'[d] = pc[d] \/ pc'[d] \notin {"check", "write", "sweep"})
        BY DEF IInv, TypeOK
    <2> QED
        BY <1>1, <2>1, CallsKept DEF TableMoved
<1>4. TypeOK'
    BY <1>1 DEF TableMoved, IInv, TypeOK, Pcs
<1> QED
    BY <1>2, <1>3, <1>4 DEF IInv

LEMMA TellTyped ==
    ASSUME TypeOK, NEW a \in Cards, NEW k \in Verdicts \cup {"consumed"},
           NEW landed \in BOOLEAN, Tell(a, k, landed)
    PROVE  told' \in [Cards -> [Verdicts \cup {"consumed"} -> Nat]]
<1> DEFINE K == Verdicts \cup {"consumed"}
<1>1. told \in [Cards -> [K -> Nat]]
    BY DEF TypeOK
<1>2. CASE ~landed
    BY <1>1, <1>2 DEF Tell
<1>3. CASE landed
    <2> DEFINE f == [told[a] EXCEPT ![k] = @ + 1]
    <2>1. told' = [told EXCEPT ![a] = f]
        BY <1>3 DEF Tell
    <2>2. told[a] \in [K -> Nat] /\ told[a][k] + 1 \in Nat
        BY <1>1
    <2>3. f \in [K -> Nat]
        <3> HIDE DEF K
        <3> QED
            BY <2>2
    <2> HIDE DEF f, K
    <2> QED
        BY <1>1, <2>1, <2>3 DEF K
<1> QED
    BY <1>2, <1>3

(* In an open table a row that is there has a trail, which began by now. *)
LEMMA Told ==
    ASSUME IInv, NEW c \in Callers, pc[c] # "closed",
           NEW a \in Cards, row[a].status # "absent"
    PROVE  /\ CardOK(row[a], trail[a])
           /\ row[a].created <= now
           /\ row[a].created > 0
           /\ row[a] \in Row
           /\ \A i \in DOMAIN trail[a] : trail[a][i].at <= now
           /\ row[a].status = "pending" => Len(trail[a]) = 1
<1>1. CardOK(row[a], trail[a])
    BY DEF IInv, CardsOK, Untold, Absent
<1>2. /\ row[a] \in Row /\ trail[a] \in Seq(Event)
      /\ \A i \in DOMAIN trail[a] : trail[a][i].at <= now
    BY DEF IInv, TypeOK, NothingAhead
<1>3. row[a].created <= now
    <2>1. 1 \in DOMAIN trail[a] /\ trail[a][1].at = row[a].created
        BY <1>1, <1>2 DEF CardOK
    <2> QED
        BY <1>2, <2>1
<1>4. row[a].status = "pending" => Len(trail[a]) = 1
    BY <1>1 DEF CardOK, Asked, Settled, Spent, Withdrawn, Verdicts
<1> QED
    BY <1>1, <1>2, <1>3, <1>4 DEF CardOK

LEMMA ReturnStep == ASSUME IInv, NEW c \in Callers, Return(c) PROVE IInv'
<1>1. /\ pc[c] # "closed" /\ pc' = [pc EXCEPT ![c] = "idle"]
      /\ call' = [call EXCEPT ![c] = Idle] /\ UNCHANGED <<table, now, told>>
    BY DEF Return, Goto
<1>2. CallOK(c)'
    BY <1>1 DEF CallOK, IInv, TypeOK
<1> QED
    BY <1>1, <1>2, IdleTyped, CallerStep DEF Pcs, Calls

LEMMA ResolveReadStep ==
    ASSUME IInv, NEW c \in Callers, NEW a \in Cards, NEW choice \in Tokens,
           ResolveRead(c, a, choice)
    PROVE  IInv'
<1> DEFINE q == [card |-> a, choice |-> choice, seen |-> row[a].status, moment |-> Null]
<1>1. /\ pc[c] # "closed" /\ pc' = [pc EXCEPT ![c] = "check"]
      /\ call' = [call EXCEPT ![c] = q] /\ UNCHANGED <<table, now, told>>
      /\ row[a].status # "absent"
    BY DEF ResolveRead, Goto
<1>2. q \in Calls
    BY DEF IInv, TypeOK, Row, Calls, Null
<1>3. CallOK(c)'
    BY <1>1 DEF CallOK, IInv, TypeOK, table
<1> QED
    BY <1>1, <1>2, <1>3, CallerStep DEF Pcs

LEMMA ResolveCheckStep == ASSUME IInv, NEW c \in Callers, ResolveCheck(c) PROVE IInv'
<1> DEFINE q == [call[c] EXCEPT !.moment = now]
           a == call[c].card
<1>1. /\ call' = [call EXCEPT ![c] = q] /\ UNCHANGED <<table, now, told>>
      /\ pc[c] = "check"
      /\ \/ pc' = [pc EXCEPT ![c] = "sweep"]
         \/ /\ pc' = [pc EXCEPT ![c] = "write"]
            /\ ~(now >= row[a].expires) /\ call[c].choice \in Options
         \/ pc' = [pc EXCEPT ![c] = "refused"]
    BY DEF ResolveCheck, Due, Goto, IInv, TypeOK
<1>2. /\ call[c] \in Calls /\ a \in Cards /\ now \in Nat
      /\ row[a].status # "absent"
    BY <1>1 DEF IInv, TypeOK, Calls, CallOK
<1>3. q \in Calls /\ q.card = a /\ q.choice = call[c].choice /\ q.moment = now
    BY <1>2 DEF Calls
<1>4. row[a].created <= now /\ row[a] \in Row
    BY <1>1, <1>2, Told
<1>5. call'[c] = q /\ row' = row /\ now' = now
    BY <1>1 DEF IInv, TypeOK, table
<1>6. CASE pc' = [pc EXCEPT ![c] = "sweep"]
    <2>1. CallOK(c)'
        BY <1>2, <1>3, <1>5, <1>6 DEF CallOK, IInv, TypeOK
    <2> QED
        BY <1>1, <1>3, <1>6, <2>1, CallerStep DEF Pcs
<1>7. CASE /\ pc' = [pc EXCEPT ![c] = "write"]
           /\ ~(now >= row[a].expires) /\ call[c].choice \in Options
    <2>1. CallOK(c)'
        BY <1>2, <1>3, <1>4, <1>5, <1>7 DEF CallOK, IInv, TypeOK, Row
    <2> QED
        BY <1>1, <1>3, <1>7, <2>1, CallerStep DEF Pcs
<1>8. CASE pc' = [pc EXCEPT ![c] = "refused"]
    <2>1. CallOK(c)'
        BY <1>8 DEF CallOK, IInv, TypeOK
    <2> QED
        BY <1>1, <1>3, <1>8, <2>1, CallerStep DEF Pcs
<1> QED
    BY <1>1, <1>6, <1>7, <1>8

LEMMA SweepStep == ASSUME IInv, NEW c \in Callers, Sweep(c) PROVE IInv'
<1> DEFINE at == call[c].moment
<1>1. /\ pc[c] = "sweep" /\ pc' = [pc EXCEPT ![c] = "refused"]
      /\ Transition(Cards, "pending", "expired", at, NoChoice)
      /\ now' = now /\ call' = call /\ told' = told
    BY DEF Sweep, Goto
<1>2. at \in Nat /\ at <= now
    BY <1>1 DEF IInv, TypeOK, CallOK
<1>3. ASSUME NEW a \in Cards, CanMove(a, "pending", "expired", at)
      PROVE  /\ at > 0
             /\ row[a].created <= at
             /\ \A i \in DOMAIN trail[a] : i > 1 => trail[a][i].at <= at
    <2>1. row[a].status = "pending" /\ row[a].expires <= at
        BY <1>3 DEF CanMove
    <2>2. /\ Len(trail[a]) = 1 /\ CardOK(row[a], trail[a]) /\ row[a] \in Row
          /\ trail[a] \in Seq(Event)
        BY <1>1, <2>1, Told DEF IInv, TypeOK
    <2>3. row[a].created > 0 /\ row[a].expires = row[a].created + Ttl
        BY <2>2 DEF CardOK
    <2> QED
        BY <1>2, <2>1, <2>2, <2>3, ApprovalsAssumption DEF Row
<1>4. TableMoved
    <2> HIDE DEF at
    <2> QED
        BY <1>1, <1>2, <1>3, TxnKeeps
<1> QED
    BY <1>1, <1>4, TxnStep DEF Pcs, IInv, TypeOK

LEMMA ResolveWriteStep == ASSUME IInv, NEW c \in Callers, ResolveWrite(c) PROVE IInv'
<1> DEFINE at == call[c].moment
           a == call[c].card
           choice == call[c].choice
           kind == Verdict(choice)
           landed == CanMove(a, "pending", kind, at)
<1>1. /\ pc[c] = "write"
      /\ pc' = [pc EXCEPT ![c] = IF landed THEN "won" ELSE "refused"]
      /\ Transition({a}, "pending", kind, at, choice)
      /\ Tell(a, kind, landed) /\ now' = now /\ call' = call
    BY DEF ResolveWrite, Goto
<1>2. /\ at \in Nat /\ at <= now /\ a \in Cards /\ choice \in Tokens \cup {NoChoice}
      /\ row[a].status # "absent" /\ row[a].created <= at /\ at < row[a].expires
    BY <1>1 DEF IInv, TypeOK, CallOK
<1>3. kind \in {"approved", "declined"} /\ landed \in BOOLEAN
    BY DEF Verdict, CanMove
<1>4. /\ Len(trail[a]) = 1 \/ row[a].status # "pending"
      /\ row[a].created > 0 /\ row[a] \in Row /\ trail[a] \in Seq(Event)
    BY <1>1, <1>2, Told DEF IInv, TypeOK
<1>5. landed => /\ at > 0
                /\ row[a].created <= at
                /\ \A i \in DOMAIN trail[a] : i > 1 => trail[a][i].at <= at
                /\ at < row[a].expires
    BY <1>2, <1>4 DEF CanMove, Row
<1>6. TableMoved
    <2> HIDE DEF at, a, choice, kind
    <2> QED
        BY <1>1, <1>2, <1>3, <1>5, TxnKeeps
<1>7. told' \in [Cards -> [Verdicts \cup {"consumed"} -> Nat]]
    BY <1>1, <1>2, <1>3, TellTyped DEF IInv, Verdicts
<1>8. (IF landed THEN "won" ELSE "refused") \in Pcs \ {"check", "write", "sweep"}
    BY DEF Pcs
<1> QED
    BY <1>1, <1>6, <1>7, <1>8, TxnStep

(* The two transactions of an approved row, both dated now. *)
LEMMA ApprovedTxn ==
    ASSUME IInv, NEW c \in Callers, pc[c] = "idle", NEW a \in Cards,
           NEW kind \in {"consumed", "declined"}, NEW choice \in Tokens \cup {NoChoice},
           Transition({a}, "approved", kind, now, choice),
           NEW landed \in BOOLEAN, Tell(a, kind, landed), UNCHANGED <<now, pc, call>>
    PROVE  IInv'
<1>1. now \in Nat /\ now > 0
    BY ApprovalsAssumption DEF IInv, TypeOK
<1>2. CanMove(a, "approved", kind, now) =>
          /\ row[a].created <= now
          /\ \A i \in DOMAIN trail[a] : i > 1 => trail[a][i].at <= now
    BY Told DEF CanMove
<1>3. TableMoved
    BY <1>1, <1>2, TxnKeeps
<1>4. told' \in [Cards -> [Verdicts \cup {"consumed"} -> Nat]]
    BY TellTyped DEF IInv, Verdicts
<1>5. pc' = [pc EXCEPT ![c] = "idle"]
    BY DEF IInv, TypeOK
<1> QED
    BY <1>3, <1>4, <1>5, TxnStep DEF Pcs

LEMMA ConsumeStep ==
    ASSUME IInv, NEW c \in Callers, NEW a \in Cards, Consume(c, a)
    PROVE  IInv'
<1>1. CanMove(a, "approved", "consumed", now) \in BOOLEAN
    BY DEF CanMove
<1> QED
    BY <1>1, ApprovedTxn DEF Consume, ConsumeTxn

LEMMA DeclineApprovedStep ==
    ASSUME IInv, NEW c \in Callers, NEW a \in Cards, NEW choice \in Tokens,
           DeclineApproved(c, a, choice)
    PROVE  IInv'
<1>1. DeclineLands(a, choice) \in BOOLEAN
    BY DEF DeclineLands
<1> QED
    BY <1>1, ApprovedTxn DEF DeclineApproved, DeclineTxn

(* create: a card comes into being pending, with its first event, dated    *)
(* no later than the commit.                                               *)
LEMMA CreateStep ==
    ASSUME IInv, NEW c \in Callers, NEW a \in Cards, Create(c, a)
    PROVE  IInv'
<1>1. PICK at \in Start..now :
          /\ row' = [row EXCEPT ![a] = [Absent EXCEPT !.status = "pending",
                                          !.created = at, !.expires = at + Ttl]]
          /\ trail' = [trail EXCEPT ![a] =
                         Append(@, NewEvent("filed", at, NoChoice, Null))]
    BY DEF Create
<1> DEFINE r == [Absent EXCEPT !.status = "pending", !.created = at, !.expires = at + Ttl]
           e == NewEvent("filed", at, NoChoice, Null)
<1>2. /\ pc[c] = "idle" /\ row[a].status = "absent"
      /\ now' = now /\ pc' = pc /\ call' = call /\ told' = told
    BY DEF Create
<1>3. at \in Nat /\ at > 0 /\ at <= now
    BY ApprovalsAssumption DEF IInv, TypeOK
<1>4. /\ r \in Row /\ r.status = "pending" /\ r.choice = NoChoice
      /\ r.created = at /\ r.expires = at + Ttl /\ r.consumed = Null
    <2>1. Absent \in Row /\ Absent.choice = NoChoice /\ Absent.consumed = Null
        BY LegacyTyped DEF Absent
    <2>2. at + Ttl \in Nat
        BY <1>3, ApprovalsAssumption
    <2> HIDE DEF Absent
    <2> QED
        BY <1>3, <2>1, <2>2 DEF Row, Statuses
<1>5. e \in Event /\ e.kind = "filed" /\ e.at = at /\ e.supersedes = Null
    BY <1>3 DEF NewEvent, Event, Kinds, Null
<1>6. trail[a] = <<>>
    BY <1>2 DEF IInv, CardsOK, CardOK, Untold, Asked, Settled, Spent, Withdrawn, Verdicts
<1>7. trail'[a] = <<e>> /\ row'[a] = r
    BY <1>1, <1>6 DEF IInv, TypeOK
<1>8. CardOK(row'[a], trail'[a])
    <2> HIDE DEF r, e
    <2> QED
        BY <1>3, <1>4, <1>5, <1>7 DEF CardOK, Asked
<1>9. TableMoved
    <2>1. row' \in [Cards -> Row] /\ trail' \in [Cards -> Seq(Event)]
        <3>1. Append(trail[a], e) \in Seq(Event)
            BY <1>5 DEF IInv, TypeOK
        <3> HIDE DEF r, e
        <3> QED
            BY <1>1, <1>4, <3>1 DEF IInv, TypeOK, r, e
    <2>2. ASSUME NEW b \in Cards
          PROVE  /\ \/ CardOK(row'[b], trail'[b])
                    \/ row'[b] = Absent /\ trail'[b] = <<>>
                 /\ \A i \in DOMAIN trail'[b] : trail'[b][i].at <= now
                 /\ row[b].status # "absent" => /\ row'[b].created = row[b].created
                                                /\ row'[b].expires = row[b].expires
                                                /\ row'[b].status # "absent"
        <3>1. CASE b = a
            BY <1>2, <1>3, <1>5, <1>7, <1>8, <3>1
        <3>2. CASE b # a
            <4>1. row'[b] = row[b] /\ trail'[b] = trail[b]
                BY <1>1, <3>2 DEF IInv, TypeOK
            <4> QED
                BY <1>2, <4>1 DEF IInv, CardsOK, Untold, NothingAhead
        <3> QED
            BY <3>1, <3>2
    <2> QED
        BY <2>1, <2>2 DEF TableMoved
<1>10. pc' = [pc EXCEPT ![c] = "idle"]
    BY <1>2 DEF IInv, TypeOK
<1> QED
    BY <1>2, <1>9, <1>10, TxnStep DEF Pcs, IInv, TypeOK

(* The rebuilt trail of a row an older installation wrote is the trail a   *)
(* card of that row would have had.                                        *)
LEMMA LegacyIs ==
    ASSUME NEW r \in LegacyRow
    PROVE  /\ r \in Row /\ r.status \in Statuses /\ r.choice \in Tokens \cup {NoChoice}
           /\ r.created > 0 /\ r.created <= Start /\ r.expires = r.created + Ttl
           /\ r.resolved <= Start /\ r.consumed <= Start
           /\ r.status = "pending" => r.choice = NoChoice /\ r.consumed = Null
           /\ r.status # "pending" => r.created <= r.resolved /\ r.resolved # Null
           /\ r.consumed # Null => r.status = "approved" /\ r.resolved <= r.consumed
<1>1. /\ r.status \in Statuses /\ r.choice \in Options \cup {NoChoice}
      /\ r.created \in 1..Start /\ r.resolved \in 0..Start /\ r.consumed \in 0..Start
      /\ r.expires = r.created + Ttl
    BY DEF LegacyRow
<1>2. r.status # "pending" => r.created <= r.resolved
    BY <1>1, ApprovalsAssumption DEF LegacyRow, Statuses
<1> QED
    BY <1>1, <1>2, LegacyTyped, ApprovalsAssumption DEF LegacyRow, Null

LEMMA Joined ==
    ASSUME NEW S, NEW f \in S, NEW v \in S, NEW s \in S
    PROVE  /\ <<f>> \o <<v>> = <<f, v>>
           /\ <<f, v>> \o <<>> = <<f, v>>
           /\ <<f, v>> \o <<s>> = <<f, v, s>>
<1>1. <<f>> \in Seq(S) /\ <<f, v>> \in Seq(S)
    OBVIOUS
<1>2. Append(<<f>>, v) = <<f>> \o <<v>> /\ Append(<<f, v>>, s) = <<f, v>> \o <<s>>
    BY <1>1, AppendIsConcat
<1>3. <<f, v>> \o <<>> = <<f, v>>
    BY <1>1, ConcatEmptySeq
<1>4. Append(<<f>>, v) = <<f, v>>
    <2>1. Append(<<f>>, v) \in Seq(S) /\ Len(Append(<<f>>, v)) = 2
        BY <1>1
    <2>2. \A i \in 1..2 : Append(<<f>>, v)[i] = <<f, v>>[i]
        BY <1>1
    <2> QED
        BY <1>1, <2>1, <2>2, SeqEqual
<1>5. Append(<<f, v>>, s) = <<f, v, s>>
    <2>1. Append(<<f, v>>, s) \in Seq(S) /\ Len(Append(<<f, v>>, s)) = 3
        BY <1>1
    <2>2. \A i \in 1..3 : Append(<<f, v>>, s)[i] = <<f, v, s>>[i]
        BY <1>1
    <2>3. <<f, v, s>> \in Seq(S)
        OBVIOUS
    <2> QED
        BY <2>1, <2>2, <2>3, SeqEqual
<1> QED
    BY <1>2, <1>3, <1>4, <1>5

LEMMA RebuiltOK ==
    ASSUME NEW r \in LegacyRow
    PROVE  /\ CardOK(r, Rebuilt(r))
           /\ Rebuilt(r) \in Seq(Event)
           /\ \A i \in DOMAIN Rebuilt(r) : Rebuilt(r)[i].at <= Start /\ Rebuilt(r)[i].backfilled
<1> DEFINE f == Old("filed", r.created, NoChoice)
           v == Old(r.status, r.resolved, r.choice)
           s == Old("consumed", r.consumed, NoChoice)
<1>1. /\ f.kind = "filed" /\ f.at = r.created /\ f.supersedes = Null
      /\ f.backfilled /\ s.backfilled
      /\ v.kind = r.status /\ v.at = r.resolved /\ v.choice = r.choice
      /\ v.supersedes = Null /\ v.backfilled
      /\ s.kind = "consumed" /\ s.at = r.consumed /\ s.supersedes = Null
    BY DEF Old, NewEvent
<1>2. f \in Event /\ s \in Event /\ (r.status # "pending" => v \in Event)
    BY LegacyIs DEF Old, NewEvent, Event, Kinds, Verdicts, Statuses, Null, Row
<1>3. Rebuilt(r) = <<f>>
                   \o (IF r.status = "pending" THEN <<>> ELSE <<v>>)
                   \o (IF r.status = "pending" \/ r.consumed = Null THEN <<>> ELSE <<s>>)
    BY LegacyIs DEF Rebuilt, OldVerdict, OldSpend
<1>4. CASE r.status = "pending"
    <2>1. Rebuilt(r) = <<f>>
        <3> HIDE DEF f, v, s
        <3> QED
            BY <1>3, <1>4
    <2> HIDE DEF f, v, s
    <2> QED
        BY <1>1, <1>2, <1>4, <2>1, LegacyIs DEF CardOK, Asked
<1>5. CASE r.status # "pending" /\ r.consumed = Null
    <2>1. Rebuilt(r) = <<f, v>>
        <3> HIDE DEF f, v, s
        <3>1. <<f>> \o <<v>> = <<f, v>> /\ <<f, v>> \o <<>> = <<f, v>>
            BY <1>2, <1>5, Joined
        <3> QED
            BY <1>3, <1>5, <3>1
    <2> HIDE DEF f, v, s
    <2>2. CardOK(r, <<f, v>>)
        BY <1>1, <1>5, LegacyIs DEF CardOK, Settled, Carries, OnTime, Statuses, Verdicts
    <2> QED
        BY <1>1, <1>2, <1>5, <2>1, <2>2, LegacyIs
<1>6. CASE r.status # "pending" /\ r.consumed # Null
    <2>1. Rebuilt(r) = <<f, v, s>>
        <3> HIDE DEF f, v, s
        <3>1. <<f>> \o <<v>> = <<f, v>> /\ <<f, v>> \o <<s>> = <<f, v, s>>
            BY <1>2, <1>6, Joined
        <3> QED
            BY <1>3, <1>6, <3>1
    <2> HIDE DEF f, v, s
    <2>2. CardOK(r, <<f, v, s>>)
        BY <1>1, <1>6, LegacyIs DEF CardOK, Spent, Carries, OnTime
    <2> QED
        BY <1>1, <1>2, <1>6, <2>1, <2>2, LegacyIs
<1> QED
    BY <1>4, <1>5, <1>6

(* Approvals.__init__: the rows an older installation left are in shape    *)
(* from the moment any process has the table open.                         *)
LEMMA OpenStep == ASSUME IInv, NEW c \in Callers, Open(c) PROVE IInv'
<1>1. /\ pc[c] = "closed" /\ pc' = [pc EXCEPT ![c] = "idle"]
      /\ row' = row /\ now' = now /\ call' = call /\ told' = told
      /\ trail' = [a \in Cards |->
                     IF row[a].status # "absent" /\ trail[a] = <<>>
                     THEN Rebuilt(row[a]) ELSE trail[a]]
    BY DEF Open, Goto
<1>2. ASSUME NEW a \in Cards
      PROVE  /\ trail'[a] \in Seq(Event)
             /\ \/ CardOK(row'[a], trail'[a])
                \/ row'[a] = Absent /\ trail'[a] = <<>>
             /\ \A i \in DOMAIN trail'[a] : trail'[a][i].at <= now
    <2>1. trail[a] \in Seq(Event) /\ \A i \in DOMAIN trail[a] : trail[a][i].at <= now
        BY DEF IInv, TypeOK, NothingAhead
    <2>2. CASE CardOK(row[a], trail[a])
        <3>1. trail'[a] = trail[a]
            BY <1>1, <2>1, <2>2 DEF CardOK
        <3> QED
            BY <1>1, <2>1, <2>2, <3>1
    <2>3. CASE trail[a] = <<>> /\ row[a] = Absent
        <3>1. trail'[a] = <<>>
            BY <1>1, <2>3 DEF Absent
        <3> QED
            BY <1>1, <2>1, <2>3, <3>1
    <2>4. CASE trail[a] = <<>> /\ row[a] \in LegacyRow
        <3>1. row[a].status # "absent"
            BY <2>4, LegacyIs DEF Statuses
        <3>2. trail'[a] = Rebuilt(row[a])
            BY <1>1, <2>4, <3>1
        <3>3. \A i \in DOMAIN Rebuilt(row[a]) : Rebuilt(row[a])[i].at <= now
            <4>1. /\ Rebuilt(row[a]) \in Seq(Event)
                  /\ \A i \in DOMAIN Rebuilt(row[a]) : Rebuilt(row[a])[i].at <= Start
                BY <2>4, RebuiltOK
            <4>2. ASSUME NEW i \in DOMAIN Rebuilt(row[a])
                  PROVE  Rebuilt(row[a])[i].at \in Nat
                <5>1. Rebuilt(row[a])[i] \in Event
                    BY <4>1
                <5> QED
                    BY <5>1 DEF Event
            <4> QED
                BY <4>1, <4>2, ApprovalsAssumption DEF IInv, TypeOK
        <3> QED
            BY <1>1, <2>4, <3>2, <3>3, RebuiltOK
    <2> QED
        BY <2>2, <2>3, <2>4 DEF IInv, CardsOK, Untold
<1>3. CardsOK' /\ NothingAhead' /\ trail' \in [Cards -> Seq(Event)]
    BY <1>1, <1>2 DEF CardsOK, Untold, NothingAhead
<1>4. ASSUME NEW d \in Callers PROVE CallOK(d)'
    <2>1. pc'[d] = pc[d] \/ pc'[d] \notin {"check", "write", "sweep"}
        BY <1>1 DEF IInv, TypeOK
    <2>2. now' \in Nat /\ now <= now'
        BY <1>1 DEF IInv, TypeOK
    <2> QED
        BY <1>1, <2>1, <2>2, CallsKept
<1>5. TypeOK'
    BY <1>1, <1>3 DEF IInv, TypeOK
<1> QED
    BY <1>1, <1>3, <1>4, <1>5 DEF IInv

LEMMA StepKeepsIInv == IInv /\ [Next]_vars => IInv'
<1> SUFFICES ASSUME IInv, [Next]_vars PROVE IInv'
    OBVIOUS
<1>1. CASE Tick
    BY <1>1, TickStep
<1>2. ASSUME NEW c \in Callers, Operation(c) PROVE IInv'
    BY <1>2, CrashStep, OpenStep, ResolveCheckStep, SweepStep, ResolveWriteStep,
       ReturnStep, CreateStep, ConsumeStep, ResolveReadStep, DeclineApprovedStep
    DEF Operation
<1>3. CASE UNCHANGED vars
    <2>1. /\ row' = row /\ trail' = trail /\ now' = now /\ pc' = pc /\ call' = call
          /\ told' = told
        BY <1>3 DEF vars
    <2> QED
        BY <2>1 DEF IInv, TypeOK, CardsOK, Untold, NothingAhead, CallOK
<1> QED
    BY <1>1, <1>2, <1>3 DEF Next

LEMMA Invariant == Spec => []IInv
<1> QED
    BY Initially, StepKeepsIInv, PTL DEF Spec

------------------------------------------------------------------------------
(* The theorems.  Every one of them reads its conclusion off the shapes.   *)

LEMMA InShape ==
    ASSUME IInv, NEW a \in Cards
    PROVE  /\ row[a] \in Row /\ trail[a] \in Seq(Event)
           /\ DOMAIN trail[a] = 1..Len(trail[a]) /\ Len(trail[a]) \in Nat
           /\ CardOK(row[a], trail[a]) \/ Untold(a)
           /\ Untold(a) => trail[a] = <<>> /\ DOMAIN trail[a] = {}
           /\ \A i \in DOMAIN trail[a] : trail[a][i] \in Event
<1>1. row[a] \in Row /\ trail[a] \in Seq(Event) /\ (CardOK(row[a], trail[a]) \/ Untold(a))
    BY DEF IInv, TypeOK, CardsOK
<1>2. \A i \in DOMAIN trail[a] : trail[a][i] \in Event
    BY <1>1
<1>3. Untold(a) => trail[a] = <<>> /\ DOMAIN trail[a] = {}
    BY DEF Untold
<1> QED
    BY <1>1, <1>2, <1>3

(* Rows, trails and callers keep their types in any deployment. *)
THEOREM TypeCorrect == Spec => []TypeOK
<1>1. IInv => TypeOK
    BY DEF IInv
<1> QED
    BY <1>1, Invariant, PTL

(* A card is filed once, answered once, and its yes is either spent once   *)
(* or withdrawn once.                                                      *)
LEMMA IInvLives == IInv => LegalTrails
<1> SUFFICES ASSUME IInv, NEW a \in Cards
             PROVE  [i \in DOMAIN trail[a] |-> trail[a][i].kind] \in Lives
    BY DEF LegalTrails
<1> DEFINE t == trail[a]
           k == [i \in DOMAIN t |-> t[i].kind]
<1>1. CASE Untold(a)
    BY <1>1, InShape DEF Lives
<1>2. CASE CardOK(row[a], t)
    <2>1. DOMAIN t = 1..Len(t) /\ t[1].kind = "filed"
        BY <1>2, InShape DEF CardOK
    <2>2. CASE Asked(row[a], t)
        <3>1. k = <<"filed">>
            BY <2>1, <2>2 DEF Asked
        <3> QED
            BY <3>1 DEF Lives
    <2>3. CASE Settled(row[a], t)
        <3>1. DOMAIN t = 1..2 /\ t[2].kind \in Verdicts
            BY <2>1, <2>3 DEF Settled, Carries
        <3>2. CASE t[2].kind = "approved"
            <4>1. k = <<"filed", "approved">>
                BY <2>1, <2>3, <3>2 DEF Settled
            <4> QED
                BY <4>1 DEF Lives
        <3>3. CASE t[2].kind = "declined"
            <4>1. k = <<"filed", "declined">>
                BY <2>1, <2>3, <3>3 DEF Settled
            <4> QED
                BY <4>1 DEF Lives
        <3>4. CASE t[2].kind = "expired"
            <4>1. k = <<"filed", "expired">>
                BY <2>1, <2>3, <3>4 DEF Settled
            <4> QED
                BY <4>1 DEF Lives
        <3> QED
            BY <3>1, <3>2, <3>3, <3>4 DEF Verdicts
    <2>4. CASE Spent(row[a], t)
        <3>1. k = <<"filed", "approved", "consumed">>
            BY <2>1, <2>4 DEF Spent, Carries
        <3> QED
            BY <3>1 DEF Lives
    <2>5. CASE Withdrawn(row[a], t)
        <3>1. k = <<"filed", "approved", "declined">>
            BY <2>1, <2>5 DEF Withdrawn, Carries
        <3> QED
            BY <3>1 DEF Lives
    <2> QED
        BY <1>2, <2>2, <2>3, <2>4, <2>5 DEF CardOK
<1> QED
    BY <1>1, <1>2, InShape

THEOREM TrailsAreLegal == Spec => []LegalTrails
<1> QED
    BY IInvLives, Invariant, PTL

(* The row and the last verdict of its trail never disagree.               *)
LEMMA IInvHead == IInv => RowIsHead
<1> SUFFICES ASSUME IInv, NEW a \in Cards
             PROVE  LET t == trail[a]
                        v == LastVerdict(t)
                        spends == {i \in DOMAIN t : t[i].kind = "consumed"}
                    IN  IF t = <<>>
                        THEN row[a].status = "absent" \/ \A c \in Callers : pc[c] = "closed"
                        ELSE /\ v = Null => row[a].status = "pending"
                             /\ v # Null => /\ row[a].status = t[v].kind
                                            /\ row[a].choice = t[v].choice
                                            /\ row[a].resolved = t[v].at
                             /\ IF spends = {} THEN row[a].consumed = Null
                                ELSE \E i \in spends : row[a].consumed = t[i].at
    BY DEF RowIsHead
<1> DEFINE r == row[a]
           t == trail[a]
           v == LastVerdict(t)
           spends == {i \in DOMAIN t : t[i].kind = "consumed"}
<1>1. CASE Untold(a)
    BY <1>1, InShape DEF Untold, Absent
<1>2. CASE CardOK(r, t)
    <2>1. DOMAIN t = 1..Len(t) /\ t[1].kind = "filed" /\ t # <<>> /\ t \in Seq(Event)
        BY <1>2, InShape DEF CardOK
    <2>2. CASE Asked(r, t)
        <3>1. v = Null
            BY <1>2, <2>1, <2>2, LastOfCard
        <3>2. spends = {}
            BY <2>1, <2>2 DEF Asked
        <3> QED
            BY <2>1, <2>2, <3>1, <3>2 DEF Asked
    <2>3. CASE Settled(r, t)
        <3>1. v = 2
            BY <1>2, <2>1, <2>3, LastOfCard
        <3>2. spends = {}
            BY <2>1, <2>3 DEF Settled, Carries, Verdicts
        <3> QED
            BY <2>1, <2>3, <3>1, <3>2 DEF Settled, Carries, Null
    <2>4. CASE Spent(r, t)
        <3>1. v = 2
            BY <1>2, <2>1, <2>4, LastOfCard
        <3>2. 3 \in spends /\ r.consumed = t[3].at
            BY <2>1, <2>4 DEF Spent
        <3> QED
            BY <2>1, <2>4, <3>1, <3>2 DEF Spent, Carries, Null
    <2>5. CASE Withdrawn(r, t)
        <3>1. v = 3
            BY <1>2, <2>1, <2>5, LastOfCard
        <3>2. spends = {}
            BY <2>1, <2>5 DEF Withdrawn, Carries
        <3> QED
            BY <2>1, <2>5, <3>1, <3>2 DEF Withdrawn, Carries, Null
    <2> QED
        BY <1>2, <2>2, <2>3, <2>4, <2>5 DEF CardOK
<1> QED
    BY <1>1, <1>2, InShape

THEOREM RowFollowsTrail == Spec => []RowIsHead
<1> QED
    BY IInvHead, Invariant, PTL

(* A withdrawal names the yes it takes back.                               *)
LEMMA IInvSupersedes == IInv => SupersedesTheYes
<1> SUFFICES ASSUME IInv, NEW a \in Cards, NEW i \in DOMAIN trail[a]
             PROVE  LET e == trail[a][i]
                        yeses == {j \in 1..(i - 1) : trail[a][j].kind = "approved"}
                    IN  IF e.kind = "declined" /\ yeses # {}
                        THEN e.supersedes \in yeses ELSE e.supersedes = Null
    BY DEF SupersedesTheYes
<1> DEFINE r == row[a]
           t == trail[a]
           yeses == {j \in 1..(i - 1) : t[j].kind = "approved"}
<1>1. CardOK(r, t) /\ DOMAIN t = 1..Len(t) /\ i \in 1..Len(t)
    BY InShape
<1>2. t[1].kind = "filed" /\ t[1].supersedes = Null /\ (Len(t) > 1 => t[2].supersedes = Null)
    BY <1>1 DEF CardOK
<1>3. CASE i = 1
    BY <1>2, <1>3
<1>4. CASE i = 2
    <2>1. yeses = {}
        BY <1>2, <1>4
    <2> QED
        BY <1>1, <1>2, <1>4, <2>1
<1>5. CASE i = 3 /\ Spent(r, t)
    BY <1>5 DEF Spent
<1>6. CASE i = 3 /\ Withdrawn(r, t)
    <2>1. 2 \in yeses /\ t[3].supersedes = 2 /\ t[3].kind = "declined"
        BY <1>6 DEF Withdrawn, Carries
    <2> QED
        BY <1>6, <2>1
<1> QED
    BY <1>1, <1>3, <1>4, <1>5, <1>6 DEF CardOK, Asked, Settled, Spent, Withdrawn

THEOREM WithdrawalNamesYes == Spec => []SupersedesTheYes
<1> QED
    BY IInvSupersedes, Invariant, PTL

(* No answer counts that came at the expiry or later, and nothing expires  *)
(* before it, whoever's write gets in between.                             *)
LEMMA IInvOnTime == IInv => NoLateAnswer
<1> SUFFICES ASSUME IInv, NEW a \in Cards, NEW i \in DOMAIN trail[a],
                    ~trail[a][i].backfilled
             PROVE  LET e == trail[a][i]
                    IN  /\ e.kind = "expired" => row[a].expires <= e.at
                        /\ e.kind \in {"approved", "declined"} /\ e.supersedes = Null
                             => e.at < row[a].expires
    BY DEF NoLateAnswer
<1> DEFINE r == row[a]
           t == trail[a]
<1>1. CardOK(r, t) /\ DOMAIN t = 1..Len(t) /\ i \in 1..Len(t)
    BY InShape
<1>2. CASE i = 1
    BY <1>1, <1>2 DEF CardOK
<1>3. CASE i = 2
    BY <1>1, <1>3 DEF CardOK, OnTime
<1>4. CASE i = 3 /\ Spent(r, t)
    BY <1>4 DEF Spent
<1>5. CASE i = 3 /\ Withdrawn(r, t)
    BY <1>5 DEF Withdrawn, Carries, Null
<1> QED
    BY <1>1, <1>2, <1>3, <1>4, <1>5 DEF CardOK, Asked, Settled, Spent, Withdrawn

THEOREM AnswersInTime == Spec => []NoLateAnswer
<1> QED
    BY IInvOnTime, Invariant, PTL

(* A trail reads forward in time.                                          *)
LEMMA IInvInOrder == IInv => AuditInOrder
<1> SUFFICES ASSUME IInv, NEW a \in Cards, NEW i \in DOMAIN trail[a], NEW j \in 1..i
             PROVE  trail[a][j].at <= trail[a][i].at
    BY DEF AuditInOrder
<1> DEFINE t == trail[a]
<1>1. CardOK(row[a], t) /\ DOMAIN t = 1..Len(t) /\ i \in 1..Len(t)
    BY InShape
<1>2. \A n \in DOMAIN t : t[n].at \in Nat
    <2>1. \A n \in DOMAIN t : t[n] \in Event
        BY InShape
    <2> QED
        BY <2>1 DEF Event
<1>3. Len(t) \in {1, 2, 3}
    BY <1>1 DEF CardOK, Asked, Settled, Spent, Withdrawn
<1>4. (Len(t) > 1 => t[1].at <= t[2].at) /\ (Len(t) > 2 => t[2].at <= t[3].at)
    BY <1>1 DEF CardOK
<1>5. /\ t[i].at \in Nat
      /\ i = 3 => t[1].at \in Nat /\ t[2].at \in Nat
      /\ i = 2 => t[1].at \in Nat
    BY <1>1, <1>2
<1>6. \/ i = j
      \/ i = 2 /\ j = 1 /\ Len(t) > 1
      \/ i = 3 /\ j = 1 /\ Len(t) > 2
      \/ i = 3 /\ j = 2 /\ Len(t) > 2
    <2>1. i \in {1, 2, 3} /\ (i = 2 => Len(t) > 1) /\ (i = 3 => Len(t) > 2)
        <3> DEFINE n == Len(t)
        <3>1. i \in 1..n /\ n \in {1, 2, 3}
            BY <1>1, <1>3
        <3> HIDE DEF n
        <3>2. i \in {1, 2, 3} /\ (i = 2 => n > 1) /\ (i = 3 => n > 2)
            BY <3>1
        <3> QED
            BY <3>2 DEF n
    <2>2. (i = 1 => j = 1) /\ (i = 2 => j \in {1, 2}) /\ (i = 3 => j \in {1, 2, 3})
        OBVIOUS
    <2> QED
        BY <2>1, <2>2
<1>7. CASE i = j
    BY <1>5, <1>7
<1>8. CASE i = 2 /\ j = 1 /\ Len(t) > 1
    BY <1>4, <1>8
<1>9. CASE i = 3 /\ Len(t) > 2
    <2>1. t[1].at <= t[2].at /\ t[2].at <= t[3].at
        BY <1>1, <1>4, <1>9
    <2>2. t[1].at \in Nat /\ t[2].at \in Nat /\ t[3].at \in Nat
        BY <1>5, <1>9
    <2> QED
        BY <1>6, <1>9, <2>1, <2>2
<1> QED
    BY <1>6, <1>7, <1>8, <1>9

THEOREM TrailReadsForward == Spec => []AuditInOrder
<1> QED
    BY IInvInOrder, Invariant, PTL

------------------------------------------------------------------------------
(* What the callers were told and what the trail holds. *)

Mine(t, k) == {i \in DOMAIN t : t[i].kind = k /\ ~t[i].backfilled}

LEMMA MineGrows ==
    ASSUME NEW t \in Seq(Event), NEW e, NEW k
    PROVE  Cardinality(Mine(Append(t, e), k))
             = IF e.kind = k /\ ~e.backfilled
               THEN Cardinality(Mine(t, k)) + 1 ELSE Cardinality(Mine(t, k))
<1> DEFINE n == Len(t)
           u == Append(t, e)
<1>1. n \in Nat /\ DOMAIN t = 1..n /\ DOMAIN u = 1..(n + 1)
    BY AppendProperties
<1>2. u[n + 1] = e /\ \A i \in 1..n : u[i] = t[i]
    BY AppendProperties
<1>3. IsFiniteSet(Mine(t, k)) /\ n + 1 \notin Mine(t, k)
    <2>1. IsFiniteSet(1..n)
        BY <1>1, FS_Interval
    <2>2. Mine(t, k) \in SUBSET (1..n)
        BY <1>1 DEF Mine
    <2>3. IsFiniteSet(Mine(t, k))
        BY <2>1, <2>2, FS_Subset
    <2>4. n + 1 \notin 1..n
        BY <1>1
    <2> QED
        BY <2>2, <2>3, <2>4
<1> HIDE DEF u, n
<1>4. DOMAIN u = DOMAIN t \cup {n + 1}
    BY <1>1
<1>5. CASE e.kind = k /\ ~e.backfilled
    <2>1. Mine(u, k) = Mine(t, k) \cup {n + 1}
        BY <1>1, <1>2, <1>4, <1>5 DEF Mine
    <2> QED
        BY <1>3, <1>5, <2>1, FS_AddElement DEF u
<1>6. CASE ~(e.kind = k /\ ~e.backfilled)
    <2>1. Mine(u, k) = Mine(t, k)
        BY <1>1, <1>2, <1>4, <1>6 DEF Mine
    <2> QED
        BY <1>6, <2>1 DEF u
<1> QED
    BY <1>5, <1>6

LEMMA MineOfNone ==
    ASSUME NEW t, NEW k, \A i \in DOMAIN t : t[i].backfilled
    PROVE  Cardinality(Mine(t, k)) = 0
<1>1. Mine(t, k) = {}
    BY DEF Mine
<1> QED
    BY <1>1, FS_EmptySet

Answers == {"approved", "declined", "consumed"}

ToldOnce == \A a \in Cards : \A k \in Answers :
                told[a][k] = Cardinality(Mine(trail[a], k))

(* A write and its rowcount: the caller is told what the trail gained. *)
LEMMA TxnTold ==
    ASSUME IInv, ToldOnce, NEW a \in Cards, NEW source, NEW kind \in Answers, NEW at,
           NEW choice, Transition({a}, source, kind, at, choice),
           told' = IF CanMove(a, source, kind, at)
                   THEN [told EXCEPT ![a][kind] = @ + 1] ELSE told
    PROVE  ToldOnce'
<1>1. \A b \in Cards : b # a => trail'[b] = trail[b]
    BY DEF Transition
<1>2. CASE ~CanMove(a, source, kind, at)
    <2>1. trail'[a] = trail[a]
        BY <1>2 DEF Transition
    <2> QED
        BY <1>1, <1>2, <2>1 DEF ToldOnce
<1>3. CASE CanMove(a, source, kind, at)
    <2> DEFINE e == MoveEvent(a, source, kind, at, choice)
               f == [told[a] EXCEPT ![kind] = @ + 1]
               K == Verdicts \cup {"consumed"}
    <2>1. trail'[a] = Append(trail[a], e) /\ e.kind = kind /\ ~e.backfilled
        BY <1>3 DEF Transition, MoveEvent, NewEvent
    <2>2. told \in [Cards -> [K -> Nat]] /\ trail[a] \in Seq(Event)
        BY DEF IInv, TypeOK
    <2>3. told' = [told EXCEPT ![a] = f]
        BY <1>3
    <2>4. kind \in K /\ Answers \subseteq K
        BY DEF Answers, Verdicts
    <2> HIDE DEF e, K
    <2>5. f[kind] = told[a][kind] + 1 /\ \A k \in K : k # kind => f[k] = told[a][k]
        BY <2>2, <2>4
    <2> HIDE DEF f
    <2>6. told'[a] = f /\ \A b \in Cards : b # a => told'[b] = told[b]
        BY <2>2, <2>3
    <2>7. ASSUME NEW k \in Answers
          PROVE  told'[a][k] = Cardinality(Mine(trail'[a], k))
        <3>1. told[a][k] = Cardinality(Mine(trail[a], k))
            BY DEF ToldOnce
        <3>2. Cardinality(Mine(trail'[a], k))
                = IF k = kind THEN Cardinality(Mine(trail[a], k)) + 1
                              ELSE Cardinality(Mine(trail[a], k))
            BY <2>1, <2>2, MineGrows
        <3> QED
            BY <2>4, <2>5, <2>6, <3>1, <3>2
    <2> QED
        BY <1>1, <2>6, <2>7 DEF ToldOnce
<1> QED
    BY <1>2, <1>3

LEMMA ToldSame ==
    ASSUME ToldOnce, told' = told,
           \A a \in Cards, k \in Answers :
               Cardinality(Mine(trail'[a], k)) = Cardinality(Mine(trail[a], k))
    PROVE  ToldOnce'
BY DEF ToldOnce

LEMMA ToldKept == IInv /\ ToldOnce /\ [Next]_vars => ToldOnce'
<1> SUFFICES ASSUME IInv, ToldOnce, [Next]_vars PROVE ToldOnce'
    OBVIOUS
<1>1. \A a \in Cards : trail[a] \in Seq(Event)
    BY DEF IInv, TypeOK
<1>2. ASSUME NEW c \in Callers, Open(c) PROVE ToldOnce'
    <2>1. ASSUME NEW a \in Cards, NEW k \in Answers
          PROVE  Cardinality(Mine(trail'[a], k)) = Cardinality(Mine(trail[a], k))
        <3>1. CASE row[a].status # "absent" /\ trail[a] = <<>>
            <4>1. trail'[a] = Rebuilt(row[a])
                BY <1>2, <3>1 DEF Open
            <4>2. row[a] \in LegacyRow
                BY <3>1 DEF IInv, CardsOK, CardOK, Untold, Absent
            <4>3. Cardinality(Mine(trail'[a], k)) = 0
                BY <4>1, <4>2, RebuiltOK, MineOfNone
            <4>4. \A i \in DOMAIN trail[a] : trail[a][i].backfilled
                BY <3>1
            <4>5. Cardinality(Mine(trail[a], k)) = 0
                BY <4>4, MineOfNone
            <4> QED
                BY <4>3, <4>5
        <3>2. CASE ~(row[a].status # "absent" /\ trail[a] = <<>>)
            <4>1. trail'[a] = trail[a]
                BY <1>2, <3>2 DEF Open
            <4> QED
                BY <4>1
        <3> QED
            BY <3>1, <3>2
    <2> QED
        BY <1>2, <2>1, ToldSame DEF Open
<1>3. ASSUME NEW c \in Callers, NEW b \in Cards, Create(c, b) PROVE ToldOnce'
    <2>1. PICK at \in Start..now :
              trail' = [trail EXCEPT ![b] = Append(@, NewEvent("filed", at, NoChoice, Null))]
        BY <1>3 DEF Create
    <2>2. NewEvent("filed", at, NoChoice, Null).kind = "filed"
        BY DEF NewEvent
    <2>3. ASSUME NEW a \in Cards, NEW k \in Answers
          PROVE  Cardinality(Mine(trail'[a], k)) = Cardinality(Mine(trail[a], k))
        <3>1. CASE a # b
            <4>1. trail'[a] = trail[a]
                BY <2>1, <3>1 DEF IInv, TypeOK
            <4> QED
                BY <4>1
        <3>2. CASE a = b
            <4>1. trail'[a] = Append(trail[a], NewEvent("filed", at, NoChoice, Null))
                BY <2>1, <3>2 DEF IInv, TypeOK
            <4>2. k # "filed"
                BY DEF Answers
            <4> QED
                BY <1>1, <2>2, <4>1, <4>2, MineGrows
        <3> QED
            BY <3>1, <3>2
    <2> QED
        BY <1>3, <2>3, ToldSame DEF Create
<1>4. ASSUME NEW c \in Callers, Sweep(c) PROVE ToldOnce'
    <2> DEFINE at == call[c].moment
    <2>1. Transition(Cards, "pending", "expired", at, NoChoice) /\ told' = told
        BY <1>4 DEF Sweep
    <2>2. ASSUME NEW a \in Cards, NEW k \in Answers
          PROVE  Cardinality(Mine(trail'[a], k)) = Cardinality(Mine(trail[a], k))
        <3> DEFINE e == MoveEvent(a, "pending", "expired", at, NoChoice)
        <3>1. trail'[a] = trail[a] \/ trail'[a] = Append(trail[a], e)
            BY <2>1 DEF Transition
        <3>2. e.kind = "expired" /\ k # "expired"
            BY DEF MoveEvent, NewEvent, Answers
        <3>3. Cardinality(Mine(Append(trail[a], e), k)) = Cardinality(Mine(trail[a], k))
            <4> HIDE DEF e
            <4> QED
                BY <1>1, <3>2, MineGrows
        <3>4. CASE trail'[a] = trail[a]
            BY <3>4
        <3>5. CASE trail'[a] = Append(trail[a], e)
            BY <3>3, <3>5
        <3> QED
            BY <3>1, <3>4, <3>5
    <2> QED
        BY <2>1, <2>2, ToldSame
<1>5. ASSUME NEW c \in Callers, ResolveWrite(c) PROVE ToldOnce'
    <2> DEFINE a == call[c].card
               kind == Verdict(call[c].choice)
    <2>1. a \in Cards /\ kind \in Answers
        BY DEF IInv, TypeOK, Verdict, Answers
    <2>2. /\ Transition({a}, "pending", kind, call[c].moment, call[c].choice)
          /\ told' = IF CanMove(a, "pending", kind, call[c].moment)
                     THEN [told EXCEPT ![a][kind] = @ + 1] ELSE told
        BY <1>5 DEF ResolveWrite, Tell
    <2> HIDE DEF a, kind
    <2> QED
        BY <2>1, <2>2, TxnTold
<1>6. ASSUME NEW c \in Callers, NEW a \in Cards, Consume(c, a) PROVE ToldOnce'
    <2>1. /\ Transition({a}, "approved", "consumed", now, NoChoice)
          /\ told' = IF CanMove(a, "approved", "consumed", now)
                     THEN [told EXCEPT ![a]["consumed"] = @ + 1] ELSE told
        BY <1>6 DEF Consume, ConsumeTxn, Tell
    <2>2. "consumed" \in Answers
        BY DEF Answers
    <2> QED
        BY <2>1, <2>2, TxnTold
<1>7. ASSUME NEW c \in Callers, NEW a \in Cards, NEW choice \in Tokens,
             DeclineApproved(c, a, choice)
      PROVE  ToldOnce'
    <2>1. /\ Transition({a}, "approved", "declined", now, choice)
          /\ told' = IF CanMove(a, "approved", "declined", now)
                     THEN [told EXCEPT ![a]["declined"] = @ + 1] ELSE told
        BY <1>7 DEF DeclineApproved, DeclineTxn, DeclineLands, Tell
    <2>2. "declined" \in Answers
        BY DEF Answers
    <2> QED
        BY <2>1, <2>2, TxnTold
<1>8. ASSUME \/ Tick
             \/ \E c \in Callers : Crash(c) \/ ResolveCheck(c) \/ Return(c)
             \/ \E c \in Callers, b \in Cards, choice \in Tokens : ResolveRead(c, b, choice)
             \/ UNCHANGED vars
      PROVE  ToldOnce'
    <2>1. trail' = trail /\ told' = told
        BY <1>8 DEF Tick, Crash, ResolveCheck, Return, ResolveRead, table, vars
    <2> QED
        BY <2>1 DEF ToldOnce
<1> QED
    BY <1>2, <1>3, <1>4, <1>5, <1>6, <1>7, <1>8 DEF Next, Operation

(* Two callers are never both told yes for one write: what resolve,        *)
(* consume and decline_approved answered "landed" is, write for write,     *)
(* what the trail holds.                                                   *)
THEOREM OneIsTold == Spec => []OneCallerTold
<1>1. Init => ToldOnce
    <2> SUFFICES ASSUME Init PROVE ToldOnce
        OBVIOUS
    <2>1. \A a \in Cards : trail[a] = <<>> /\ \A k \in Answers : told[a][k] = 0
        BY DEF Init, Answers, Verdicts
    <2>2. \A a \in Cards : \A i \in DOMAIN trail[a] : trail[a][i].backfilled
        BY <2>1
    <2> QED
        BY <2>1, <2>2, MineOfNone DEF ToldOnce
<1>2. ToldOnce => OneCallerTold
    BY DEF ToldOnce, OneCallerTold, Mine, Answers
<1> QED
    BY <1>1, <1>2, ToldKept, Invariant, PTL DEF Spec

------------------------------------------------------------------------------
(* What one step may do to one card. *)

Same(a) == row'[a] = row[a]

Filed(a) == /\ row[a].status = "absent" /\ trail[a] = <<>>
            /\ row'[a].status = "pending" /\ row'[a].consumed = Null
            /\ \E e : trail'[a] = Append(trail[a], e)

MovedOn(a) ==
    \E source, kind, at, choice :
        /\ CanMove(a, source, kind, at)
        /\ row'[a] = Moved(row[a], kind, at, choice)
        /\ trail'[a] = Append(trail[a], MoveEvent(a, source, kind, at, choice))

LEMMA RowSteps ==
    ASSUME IInv, [Next]_vars, NEW a \in Cards
    PROVE  Same(a) \/ Filed(a) \/ MovedOn(a)
<1>1. ASSUME NEW S \in SUBSET Cards, NEW source, NEW kind, NEW at, NEW choice,
             Transition(S, source, kind, at, choice)
      PROVE  Same(a) \/ MovedOn(a)
    BY <1>1, TransitionOf DEF Same, MovedOn
<1>2. ASSUME NEW c \in Callers, NEW b \in Cards, Create(c, b)
      PROVE  Same(a) \/ Filed(a)
    <2>1. CASE a # b
        BY <1>2, <2>1 DEF Create, Same, IInv, TypeOK
    <2>2. CASE a = b
        <3>1. pc[c] = "idle" /\ row[a].status = "absent"
            BY <1>2, <2>2 DEF Create
        <3>2. trail[a] = <<>>
            BY <3>1 DEF IInv, CardsOK, CardOK, Untold, Asked, Settled, Spent, Withdrawn,
               Verdicts
        <3>3. PICK at \in Start..now :
                  /\ row' = [row EXCEPT ![a] = [Absent EXCEPT !.status = "pending",
                                          !.created = at, !.expires = at + Ttl]]
                  /\ trail' = [trail EXCEPT ![a] =
                                 Append(@, NewEvent("filed", at, NoChoice, Null))]
            BY <1>2, <2>2 DEF Create
        <3>4. row'[a].status = "pending" /\ row'[a].consumed = Null
            BY <3>3 DEF Absent, IInv, TypeOK
        <3>5. trail'[a] = Append(trail[a], NewEvent("filed", at, NoChoice, Null))
            BY <3>3 DEF IInv, TypeOK
        <3> QED
            BY <3>1, <3>2, <3>4, <3>5 DEF Filed
    <2> QED
        BY <2>1, <2>2
<1>3. ASSUME NEW c \in Callers, Sweep(c) PROVE Same(a) \/ MovedOn(a)
    BY <1>1, <1>3 DEF Sweep
<1>4. ASSUME NEW c \in Callers, ResolveWrite(c) PROVE Same(a) \/ MovedOn(a)
    <2>1. call[c].card \in Cards
        BY DEF IInv, TypeOK
    <2> QED
        BY <1>1, <1>4, <2>1 DEF ResolveWrite
<1>5. ASSUME NEW c \in Callers, NEW b \in Cards, NEW choice \in Tokens,
             Consume(c, b) \/ DeclineApproved(c, b, choice)
      PROVE  Same(a) \/ MovedOn(a)
    BY <1>1, <1>5 DEF Consume, ConsumeTxn, DeclineApproved, DeclineTxn
<1>6. ASSUME \/ Tick
             \/ \E c \in Callers : Crash(c) \/ Open(c) \/ ResolveCheck(c) \/ Return(c)
             \/ \E c \in Callers, b \in Cards, choice \in Tokens : ResolveRead(c, b, choice)
             \/ UNCHANGED vars
      PROVE  Same(a)
    BY <1>6 DEF Tick, Crash, Open, ResolveCheck, Return, ResolveRead, table, vars, Same
<1>7. \A c \in Callers, b \in Cards : Consume(c, b) => Same(a) \/ MovedOn(a)
    BY <1>1 DEF Consume, ConsumeTxn
<1> QED
    BY <1>2, <1>3, <1>4, <1>5, <1>6, <1>7 DEF Next, Operation

(* A closed row is closed for good. *)
THEOREM ClosedForGood == Spec => ClosedIsFinal
<1>1. IInv /\ [Next]_vars => [\A a \in Cards : Closed(row[a]) => row'[a] = row[a]]_vars
    <2> SUFFICES ASSUME IInv, [Next]_vars, NEW a \in Cards, Closed(row[a])
                 PROVE  row'[a] = row[a]
        OBVIOUS
    <2>1. ~MovedOn(a)
        BY DEF MovedOn, CanMove, Edge, Closed
    <2>2. ~Filed(a)
        <3>1. row[a].status = "absent" /\ trail[a] = <<>> => row[a].consumed = Null
            BY LegacyIs DEF IInv, CardsOK, CardOK, Untold, Absent, Statuses
        <3> QED
            BY <3>1 DEF Filed, Closed
    <2> QED
        BY <2>1, <2>2, RowSteps DEF Same
<1> QED
    BY <1>1, Invariant, PTL DEF Spec, ClosedIsFinal

(* No row changes without the event that says so. *)
THEOREM EveryChangeIsTold == Spec => NoSilentChange
<1>1. IInv /\ [Next]_vars =>
          [\A a \in Cards : row'[a] # row[a] =>
              /\ Len(trail'[a]) = Len(trail[a]) + 1
              /\ SubSeq(trail'[a], 1, Len(trail[a])) = trail[a]]_vars
    <2> SUFFICES ASSUME IInv, [Next]_vars, NEW a \in Cards, row'[a] # row[a]
                 PROVE  /\ Len(trail'[a]) = Len(trail[a]) + 1
                        /\ SubSeq(trail'[a], 1, Len(trail[a])) = trail[a]
        OBVIOUS
    <2>1. PICK e : trail'[a] = Append(trail[a], e)
        BY RowSteps DEF Same, Filed, MovedOn
    <2>2. trail[a] \in Seq(Event) /\ trail'[a] \in Seq(Event)
        BY StepKeepsIInv DEF IInv, TypeOK
    <2>3. /\ Len(trail'[a]) = Len(trail[a]) + 1 /\ Len(trail[a]) \in Nat
          /\ \A i \in 1..Len(trail[a]) : trail'[a][i] = trail[a][i]
        BY <2>1, <2>2
    <2>4. SubSeq(trail'[a], 1, Len(trail[a])) = trail[a]
        <3> DEFINE u == SubSeq(trail'[a], 1, Len(trail[a]))
        <3>1. u \in Seq(Event) /\ Len(u) = Len(trail[a])
            BY <2>2, <2>3
        <3>2. \A i \in 1..Len(u) : u[i] = trail[a][i]
            BY <2>2, <2>3
        <3> QED
            BY <2>2, <3>1, <3>2, SeqEqual
    <2> QED
        BY <2>3, <2>4
<1> QED
    BY <1>1, Invariant, PTL DEF Spec, NoSilentChange

------------------------------------------------------------------------------
(* The table implements the promise made about consent. *)

stage == [a \in Cards |-> ConsentStage(row[a])]
acted == [a \in Cards |-> FALSE]

LEMMA StageOf ==
    ASSUME NEW r, r.status \in Statuses \cup {"absent"}
    PROVE  /\ ConsentStage(r) \in {"unfiled", "asked", "yes", "no", "spent"}
           /\ r.status = "absent" => ConsentStage(r) = "unfiled"
           /\ r.status = "pending" => ConsentStage(r) = "asked"
           /\ r.status = "approved" /\ r.consumed = Null => ConsentStage(r) = "yes"
           /\ r.status = "approved" /\ r.consumed # Null => ConsentStage(r) = "spent"
           /\ r.status \in {"declined", "expired"} => ConsentStage(r) = "no"
BY DEF ConsentStage, Statuses

LEMMA InitPromises == Init => Consent!Init
<1> SUFFICES ASSUME Init
             PROVE  stage \in [Cards -> {"unfiled", "asked", "yes", "no", "spent"}]
    BY DEF Consent!Init, Consent!Stages, stage, Init
<1>1. \A a \in Cards : row[a].status \in Statuses \cup {"absent"}
    BY Initially DEF IInv, TypeOK, Row
<1> QED
    BY <1>1, StageOf DEF stage

LEMMA SameStage ==
    ASSUME row' = row
    PROVE  stage' = stage /\ acted' = acted
BY DEF stage, acted

(* One card moves, the others stay. *)
LEMMA CardMoves ==
    ASSUME IInv, NEW a \in Cards, NEW source, NEW kind, NEW at, NEW choice,
           Transition({a}, source, kind, at, choice),
           kind \in {"approved", "declined", "consumed"}, at > 0, at \in Nat
    PROVE  \/ stage' = stage /\ acted' = acted
           \/ [Consent!Next]_<<stage, acted>>
<1>1. \A b \in Cards \ {a} : row'[b] = row[b]
    BY DEF Transition
<1>2. row[a] \in Row /\ row[a].status \in Statuses \cup {"absent"}
    BY DEF IInv, TypeOK, Row
<1>3. CASE row'[a] = row[a]
    <2>1. \A b \in Cards : row'[b] = row[b]
        BY <1>1, <1>3
    <2> QED
        BY <2>1 DEF stage, acted
<1>4. CASE CanMove(a, source, kind, at) /\ row'[a] = Moved(row[a], kind, at, choice)
    <2>1. row[a].status = source /\ row[a].consumed = Null /\ Edge(source, kind)
        BY <1>4 DEF CanMove
    <2>2. stage[a] = IF source = "pending" THEN "asked" ELSE "yes"
        BY <1>2, <2>1, StageOf DEF stage, Edge
    <2>3. row'[a].status \in Statuses \cup {"absent"}
        BY <1>2, <1>4, <2>1 DEF Moved, Row, Statuses, Verdicts
    <2>4. stage'[a] = CASE kind = "approved" -> "yes"
                        [] kind = "declined" -> "no"
                        [] kind = "consumed" -> "spent"
        <3>1. stage'[a] = ConsentStage(row'[a])
            BY DEF stage
        <3>2. CASE kind = "consumed"
            <4>1. source = "approved"
                BY <2>1, <3>2 DEF Edge, Verdicts
            <4>2. row'[a].status = "approved" /\ row'[a].consumed # Null
                BY <1>2, <1>4, <2>1, <3>2, <4>1 DEF Moved, Row, Null
            <4> QED
                BY <2>3, <3>1, <3>2, <4>2, StageOf
        <3>3. CASE kind \in {"approved", "declined"}
            <4>1. row'[a].status = kind /\ row'[a].consumed = Null
                BY <1>2, <1>4, <2>1, <3>3 DEF Moved, Row
            <4> QED
                BY <2>3, <3>1, <3>3, <4>1, StageOf
        <3> QED
            BY <3>2, <3>3
    <2>5. stage' = [stage EXCEPT ![a] = stage'[a]]
        BY <1>1 DEF stage
    <2>6. kind = "consumed" \/ kind = "declined" \/ (kind = "approved" /\ source = "pending")
        BY <2>1 DEF Edge
    <2>7. source = "pending" \/ (source = "approved" /\ kind # "approved")
        BY <2>1 DEF Edge
    <2>8. kind = "consumed" => source = "approved"
        BY <2>1 DEF Edge, Verdicts
    <2>9. Consent!Yes(a) \/ Consent!No(a) \/ Consent!Spend(a)
        BY <2>2, <2>4, <2>5, <2>6, <2>7, <2>8
        DEF Consent!Yes, Consent!No, Consent!Spend, Consent!Move, stage, acted
    <2> QED
        BY <2>9 DEF Consent!Next
<1> QED
    BY <1>3, <1>4, TransitionOf

LEMMA StepPromises ==
    IInv /\ [Next]_vars => [Consent!Next]_<<stage, acted>>
<1> SUFFICES ASSUME IInv, [Next]_vars
             PROVE  \/ stage' = stage /\ acted' = acted
                    \/ [Consent!Next]_<<stage, acted>>
    OBVIOUS
<1>1. ASSUME NEW c \in Callers, NEW a \in Cards, Create(c, a)
      PROVE  Consent!Ask(a)
    <2>1. row[a].status = "absent" /\ row[a] \in Row
        BY <1>1 DEF Create, IInv, TypeOK
    <2>2. row'[a].status = "pending"
        BY <1>1, <2>1 DEF Create, IInv, TypeOK, Absent
    <2>3. \A b \in Cards \ {a} : row'[b] = row[b]
        BY <1>1 DEF Create, IInv, TypeOK
    <2>4. stage[a] = "unfiled" /\ stage'[a] = "asked"
        BY <2>1, <2>2, StageOf DEF stage, Statuses
    <2>5. stage' = [stage EXCEPT ![a] = "asked"] /\ acted' = acted
        BY <2>3, <2>4 DEF stage, acted
    <2> QED
        BY <2>4, <2>5 DEF Consent!Ask, Consent!Move, stage, acted
<1>2. ASSUME NEW c \in Callers, Sweep(c) PROVE Consent!Lapse
    <2> DEFINE at == call[c].moment
               S == {a \in Cards : CanMove(a, "pending", "expired", at)}
    <2>1. Transition(Cards, "pending", "expired", at, NoChoice)
        BY <1>2 DEF Sweep
    <2>2. ASSUME NEW a \in S PROVE stage[a] = "asked" /\ stage'[a] = "no"
        <3>1. row[a].status = "pending" /\ row'[a] = Moved(row[a], "expired", at, NoChoice)
            BY <2>1, <2>2 DEF Transition, CanMove
        <3>2. row[a] \in Row
            BY <2>2 DEF IInv, TypeOK
        <3>3. row'[a].status = "expired"
            BY <3>1, <3>2 DEF Moved, Row
        <3> QED
            BY <2>2, <3>1, <3>3, StageOf DEF stage, Statuses
    <2>3. \A a \in Cards \ S : row'[a] = row[a]
        BY <2>1 DEF Transition
    <2>4. \A a \in Cards : stage'[a] = IF a \in S THEN "no" ELSE stage[a]
        BY <2>2, <2>3 DEF stage
    <2>5. stage' = [a \in Cards |-> IF a \in S THEN "no" ELSE stage[a]] /\ acted' = acted
        BY <2>4 DEF stage, acted
    <2>6. S \in SUBSET Cards /\ \A a \in S : stage[a] = "asked"
        BY <2>2
    <2> HIDE DEF S
    <2> QED
        BY <2>5, <2>6 DEF Consent!Lapse, stage, acted
<1>3. ASSUME NEW c \in Callers, ResolveWrite(c)
      PROVE  \/ stage' = stage /\ acted' = acted
             \/ [Consent!Next]_<<stage, acted>>
    <2>1. /\ call[c].card \in Cards /\ call[c].moment \in Nat
          /\ pc[c] = "write" /\ row[call[c].card].status # "absent"
          /\ row[call[c].card].created <= call[c].moment
        BY <1>3 DEF ResolveWrite, Goto, IInv, TypeOK, CallOK
    <2>2. row[call[c].card].created > 0 /\ row[call[c].card].created \in Nat
        BY <2>1, Told DEF Row
    <2>3. Verdict(call[c].choice) \in {"approved", "declined"}
        BY DEF Verdict
    <2> QED
        BY <1>3, <2>1, <2>2, <2>3, CardMoves DEF ResolveWrite
<1>4. ASSUME NEW c \in Callers, NEW a \in Cards, Consume(c, a)
      PROVE  \/ stage' = stage /\ acted' = acted
             \/ [Consent!Next]_<<stage, acted>>
    <2>1. Transition({a}, "approved", "consumed", now, NoChoice)
        BY <1>4 DEF Consume, ConsumeTxn
    <2>2. now \in Nat /\ now > 0
        BY ApprovalsAssumption DEF IInv, TypeOK
    <2> QED
        BY <2>1, <2>2, CardMoves
<1>5. ASSUME NEW c \in Callers, NEW a \in Cards, NEW choice \in Tokens,
             DeclineApproved(c, a, choice)
      PROVE  \/ stage' = stage /\ acted' = acted
             \/ [Consent!Next]_<<stage, acted>>
    <2>1. Transition({a}, "approved", "declined", now, choice)
        BY <1>5 DEF DeclineApproved, DeclineTxn
    <2>2. now \in Nat /\ now > 0
        BY ApprovalsAssumption DEF IInv, TypeOK
    <2> QED
        BY <2>1, <2>2, CardMoves
<1>6. ASSUME \/ Tick
             \/ \E c \in Callers : Crash(c) \/ Open(c) \/ ResolveCheck(c) \/ Return(c)
             \/ \E c \in Callers, b \in Cards, choice \in Tokens : ResolveRead(c, b, choice)
             \/ UNCHANGED vars
      PROVE  stage' = stage /\ acted' = acted
    <2>1. row' = row
        BY <1>6 DEF Tick, Crash, Open, ResolveCheck, Return, ResolveRead, table, vars
    <2> QED
        BY <2>1, SameStage
<1> QED
    BY <1>1, <1>2, <1>3, <1>4, <1>5, <1>6 DEF Next, Operation, Consent!Next

(* Whatever the callers do, a card's consent goes only the promised way:   *)
(* no yes is spent twice, and nothing comes back from a no or a spend.     *)
THEOREM ConsentKept == Spec => KeepsConsent
<1>1. IInv /\ [Next]_vars =>
        [Consent!Next]_<<[a \in Cards |-> ConsentStage(row[a])], [a \in Cards |-> FALSE]>>
    BY StepPromises DEF stage, acted
<1> QED
    BY <1>1, InitPromises, Invariant, PTL DEF Spec, KeepsConsent, Consent!Spec, Consent!vars

=============================================================================
