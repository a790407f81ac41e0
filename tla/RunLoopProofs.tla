---------------------------- MODULE RunLoopProofs ----------------------------
(***************************************************************************)
(* The run loop of the window, for any handlers, lines, messages, calls    *)
(* and bounds.                                                             *)
(*                                                                         *)
(* The inductive invariant has one part for each question:                 *)
(*   Typed     what each variable and each handler's locals may hold       *)
(*   Flight    whose request a stop would abort                            *)
(*   Fresh     no call a page may still answer has an answer already, and  *)
(*             no two handlers hold the same call                          *)
(*   Grants    a card is granted to one handler, once                      *)
(*   Kept      where the answers of the page are                           *)
(*   Stopped   what a stop ended is proposed to nobody any more            *)
(*   Owed      who will carry what is outstanding                          *)
(*   Drained   until a first stop, who will look at what waits             *)
(***************************************************************************)
EXTENDS RunLoop, SequenceTheorems, FiniteSetTheorems, TLAPS

Walk == {"row", "resolve", "granted", "acting", "accept"}
Running == {"granted", "acting", "accept"}
Requesting == {"capture", "sent", "busy"}
Places == {"free", "drain", "halting"} \cup InExchange \cup Walk
Walkers == {"answer", "sheet", "reask", "decided"}

Answers == [call : Calls, asked : BOOLEAN]

Locals == [at : Places, kind : {"none", "send", "remote"} \cup Walkers, mine : Nat, began : Nat,
           carried : SUBSET Answers, aborted : BOOLEAN, step : 0 .. MaxContinuations,
           tries : 0 .. BusyRetries, offered : SUBSET Calls, coming : SUBSET Calls,
           todo : SUBSET Calls, on : Calls \cup {None}, under : Remotes \cup {None},
           rows : Seq(Calls), yes : SUBSET Calls, took : BOOLEAN]

(* The handler will carry on when its walk is over, unless it was stopped. *)
Carries(m) == m.kind \in {"sheet", "decided"} \/ (m.kind = "answer" /\ m.took)

(* What the locals of a handler hold, given where it waits.                *)
Shape(m) ==
    /\ m.at \notin Requesting => m.carried = {}
    /\ m.at # "page" => m.todo = {}
    /\ m.at = "page" => m.on \in Calls /\ m.on \notin m.todo
    /\ m.at \in Walk \ {"row"} => m.rows # <<>>
    /\ m.at \in Walk => m.kind \in Walkers
    /\ m.at \in Walk /\ m.kind = "reask" => m.yes = {}
    /\ m.at \in Walk /\ m.kind = "answer" =>
           /\ Len(m.rows) <= 1
           /\ m.took => m.at \in Running \/ m.rows = <<>>
    /\ m.at \in Running => Carries(m)

StoreOK ==
    /\ working \in BOOLEAN /\ excused \in BOOLEAN
    /\ generation \in 0 .. MaxStops
    /\ waiting \in Seq([what : Lines \cup Remotes, lined : BOOLEAN])
    /\ via \in Remotes \cup {None} /\ viaOf \in [Calls -> Remotes \cup {None}]
    /\ queued \subseteq Lines /\ said \subseteq Lines \cup Remotes
    /\ cards \subseteq Calls /\ answering \subseteq Calls /\ answered \subseteq Calls
    /\ proposed \subseteq Calls /\ bus \subseteq Calls /\ listed \subseteq Calls /\ ended \subseteq Calls
    /\ decision \in [Calls -> {"unknown", "proposed", "pending", "done", "approved", "declined"}]
    /\ outstanding \subseteq Answers

MeOK == me \in [Handlers -> Locals] /\ \A h \in Handlers : Shape(me[h])

Typed == StoreOK /\ MeOK

Flight == inFlight # None => /\ inFlight \in Handlers
                             /\ me[inFlight].at \in Requesting \cup {"stream"}

(* The calls a page will still be sent, or answer, for a handler.          *)
PageCalls(m) == IF m.at = "page" THEN {m.on} \cup m.todo ELSE {}

Fresh ==
    /\ \A c \in Calls : Result(c, FALSE) \in pushed \/ c \in proposed => decision[c] # "unknown"
    /\ \A c \in proposed : Result(c, FALSE) \notin pushed
    /\ \A h \in Handlers : \A c \in PageCalls(me[h]) :
          decision[c] # "unknown" /\ Result(c, FALSE) \notin pushed /\ c \notin proposed
    /\ \A g, h \in Handlers : g # h => PageCalls(me[g]) \cap PageCalls(me[h]) = {}

(* The card whose action a handler is about to run, or runs.               *)
GrantOf(m) == IF m.at \in {"granted", "acting"} THEN {Head(m.rows)} ELSE {}

Grants ==
    /\ \A c \in bus : decision[c] \in {"approved", "declined"}
    /\ \A c \in Calls : Result(c, TRUE) \in pushed => decision[c] = "approved" /\ c \notin bus
    /\ \A h \in Handlers : \A c \in GrantOf(me[h]) :
          decision[c] = "approved" /\ c \notin bus /\ Result(c, TRUE) \notin pushed
    /\ \A g, h \in Handlers : g # h => GrantOf(me[g]) \cap GrantOf(me[h]) = {}

Kept ==
    /\ ResultsKept
    /\ \A h \in Handlers : me[h].at \in {"sent", "busy"} => me[h].carried \subseteq rode
    /\ \A g, h \in Handlers : g # h => me[g].carried \cap me[h].carried = {}

Stopped ==
    /\ \A c \in ended : decision[c] # "unknown" /\ c \notin proposed
    /\ \A h \in Handlers : me[h].at = "page" =>
          /\ me[h].on \notin ended
          /\ me[h].began <= generation
          /\ me[h].began = generation => me[h].todo \cap ended = {}

Bearer(m) == m.at \in InExchange \/ (m.at \in Walk /\ Carries(m))

Owed == ~excused /\ outstanding # {} => \E h \in Handlers : Bearer(me[h])

Drained ==
    /\ \A h \in Handlers : me[h].mine <= generation /\ (me[h].at = "halting" => generation > 0)
    /\ generation = 0 =>
          /\ \A h \in Exchanging : working /\ \A g \in Exchanging : g = h
          /\ via # None => \E h \in Exchanging : me[h].kind # "send"
          /\ Runnable # {} => working \/ \E h \in Handlers : me[h].at = "drain"

IInv == Typed /\ Flight /\ Fresh /\ Grants /\ Kept /\ Stopped /\ Owed /\ Drained

------------------------------------------------------------------------------
(* What a step that leaves a part alone has to keep of it. *)

OnlyMoves(h) == \A g \in Handlers \ {h} : me'[g] = me[g]

LEMMA Moved ==
    ASSUME MeOK, NEW h \in Handlers, NEW r \in Locals, Shape(r), me' = [me EXCEPT ![h] = r]
    PROVE  MeOK' /\ OnlyMoves(h) /\ me'[h] = r
BY DEF MeOK, OnlyMoves

LEMMA FlightStep ==
    ASSUME Flight, NEW h \in Handlers, OnlyMoves(h), inFlight' \in {None, inFlight, h},
           inFlight' = h => me'[h].at \in Requesting \cup {"stream"}
    PROVE  Flight'
BY DEF Flight, OnlyMoves

DecisionsKept == \A c \in Calls :
    /\ decision[c] # "unknown" => decision'[c] # "unknown"
    /\ decision[c] \in {"approved", "declined"} => decision'[c] = decision[c]

LEMMA FreshStays ==
    ASSUME Fresh, StoreOK, MeOK, DecisionsKept, proposed' \subseteq proposed,
           \A c \in Calls : Result(c, FALSE) \in pushed' => Result(c, FALSE) \in pushed,
           \A g \in Handlers : PageCalls(me'[g]) \subseteq PageCalls(me[g])
    PROVE  Fresh'
<1>1. \A h \in Handlers : PageCalls(me[h]) \subseteq Calls
    BY DEF PageCalls, MeOK, Shape, Locals
<1>2. \A h \in Handlers : \A c \in PageCalls(me'[h]) :
          decision'[c] # "unknown" /\ Result(c, FALSE) \notin pushed' /\ c \notin proposed'
    BY <1>1 DEF Fresh, DecisionsKept
<1>3. \A g, h \in Handlers : g # h => PageCalls(me'[g]) \cap PageCalls(me'[h]) = {}
    BY DEF Fresh
<1>4. \A c \in Calls : Result(c, FALSE) \in pushed' \/ c \in proposed' => decision'[c] # "unknown"
    BY DEF Fresh, DecisionsKept
<1>5. \A c \in proposed' : Result(c, FALSE) \notin pushed'
    BY DEF Fresh, StoreOK
<1>6. \A h \in Handlers : PageCalls(me[h])' = PageCalls(me'[h])
    BY DEF PageCalls
<1>7. \A c : Result(c, FALSE)' = Result(c, FALSE)
    BY DEF Result
<1> QED
    BY <1>2, <1>3, <1>4, <1>5, <1>6, <1>7 DEF Fresh

LEMMA GrantsStay ==
    ASSUME Grants, StoreOK, MeOK, DecisionsKept, bus' \subseteq bus,
           \A c \in Calls : Result(c, TRUE) \in pushed' => Result(c, TRUE) \in pushed,
           \A g \in Handlers : GrantOf(me'[g]) \subseteq GrantOf(me[g])
    PROVE  Grants'
<1>1. \A h \in Handlers : GrantOf(me[h]) \subseteq Calls
    BY HeadTailProperties DEF GrantOf, MeOK, Shape, Locals, Walk
<1>2. \A h \in Handlers : \A c \in GrantOf(me'[h]) :
          decision'[c] = "approved" /\ c \notin bus' /\ Result(c, TRUE) \notin pushed'
    BY <1>1 DEF Grants, DecisionsKept
<1>3. \A g, h \in Handlers : g # h => GrantOf(me'[g]) \cap GrantOf(me'[h]) = {}
    BY DEF Grants
<1>4. \A c \in Calls : Result(c, TRUE) \in pushed' => decision'[c] = "approved" /\ c \notin bus'
    BY DEF Grants, DecisionsKept
<1>5. \A c \in bus' : decision'[c] \in {"approved", "declined"}
    BY DEF Grants, DecisionsKept, StoreOK
<1>6. \A h \in Handlers : GrantOf(me[h])' = GrantOf(me'[h])
    BY DEF GrantOf
<1>7. \A c : Result(c, TRUE)' = Result(c, TRUE)
    BY DEF Result
<1> QED
    BY <1>2, <1>3, <1>4, <1>5, <1>6, <1>7 DEF Grants

(* The answers a handler carries stay, or are forgotten after they left.   *)
CarriesOn(h) ==
    \/ /\ me'[h].carried = me[h].carried
       /\ me'[h].at = "capture" <=> me[h].at = "capture"
       /\ me'[h].at \in {"sent", "busy"} => me[h].at \in {"sent", "busy"}
    \/ me'[h].carried = {} /\ "capture" \notin {me[h].at, me'[h].at}

LEMMA KeptStays ==
    ASSUME Kept, UNCHANGED <<outstanding, pushed, rode>>, \A g \in Handlers : CarriesOn(g)
    PROVE  Kept'
<1>1. /\ Carrying' = Carrying
      /\ \A g \in Carrying : me'[g].carried = me[g].carried
      /\ \A g \in Handlers : me'[g].carried \subseteq me[g].carried
    BY DEF Carrying, CarriesOn
<1>2. UNION {me'[h].carried : h \in Carrying} = UNION {me[h].carried : h \in Carrying}
    BY <1>1
<1>3. ResultsKept'
    BY <1>1, <1>2 DEF Kept, ResultsKept
<1>4. \A h \in Handlers : me'[h].at \in {"sent", "busy"} => me'[h].carried \subseteq rode
    BY DEF CarriesOn, Kept
<1> QED
    BY <1>1, <1>3, <1>4 DEF Kept

(* What no page sees: nothing is proposed, stopped or given a page.        *)
LEMMA StoppedStays ==
    ASSUME Stopped, StoreOK, DecisionsKept, proposed' \subseteq proposed,
           UNCHANGED <<generation, ended>>,
           \A g \in Handlers : me'[g].at = "page" =>
               /\ me[g].at = "page" /\ me'[g].on = me[g].on
               /\ me'[g].began = me[g].began /\ me'[g].todo = me[g].todo
    PROVE  Stopped'
BY DEF Stopped, StoreOK, DecisionsKept

LEMMA OwedStays ==
    ASSUME Owed, excused' = excused, outstanding' = outstanding,
           \A g \in Handlers : Bearer(me[g]) => Bearer(me'[g])
    PROVE  Owed'
<1>1. \A g : Bearer(me[g])' = Bearer(me'[g])
    BY DEF Bearer, Carries
<1> QED
    BY <1>1 DEF Owed

LEMMA DrainedStays ==
    ASSUME Drained, UNCHANGED <<generation, waiting, queued, via>>, working => working',
           \A g \in Handlers :
              /\ me'[g].mine <= generation
              /\ me'[g].at \in InExchange <=> me[g].at \in InExchange
              /\ me'[g].at \in InExchange => me'[g].kind = me[g].kind
              /\ me[g].at = "drain" => me'[g].at = "drain"
              /\ me'[g].at = "halting" => me[g].at = "halting"
    PROVE  Drained'
<1>1. Exchanging' = Exchanging /\ \A h \in Exchanging : me'[h].kind = me[h].kind
    BY DEF Exchanging
<1>2. Runnable' = Runnable
    BY DEF Runnable
<1>3. \A h \in Handlers : me'[h].mine <= generation' /\ (me'[h].at = "halting" => generation' > 0)
    BY DEF Drained
<1>4. ASSUME generation' = 0
      PROVE  /\ \A h \in Exchanging' : working' /\ \A g \in Exchanging' : g = h
             /\ via' # None => \E h \in Exchanging' : me'[h].kind # "send"
             /\ Runnable' # {} => working' \/ \E h \in Handlers : me'[h].at = "drain"
    <2>1. generation = 0
        BY <1>4
    <2>2. \A h \in Exchanging' : working' /\ \A g \in Exchanging' : g = h
        BY <1>1, <2>1 DEF Drained
    <2>3. via' # None => \E h \in Exchanging' : me'[h].kind # "send"
        BY <1>1, <2>1 DEF Drained
    <2>4. Runnable' # {} => working' \/ \E h \in Handlers : me'[h].at = "drain"
        BY <1>2, <2>1 DEF Drained
    <2> QED
        BY <2>2, <2>3, <2>4
<1> QED
    BY <1>3, <1>4 DEF Drained

(* A step of one handler that has no call on a page, nor a grant, after it. *)
LEMMA NoCalls ==
    ASSUME IInv, NEW h \in Handlers, OnlyMoves(h),
           me'[h].at \notin {"page", "granted", "acting"},
           UNCHANGED <<decision, pushed, bus, ended, generation>>, proposed' \subseteq proposed
    PROVE  Fresh' /\ Grants' /\ Stopped'
<1>1. DecisionsKept
    BY DEF DecisionsKept
<1>2. \A g \in Handlers : /\ PageCalls(me'[g]) \subseteq PageCalls(me[g])
                          /\ GrantOf(me'[g]) \subseteq GrantOf(me[g])
    BY DEF OnlyMoves, PageCalls, GrantOf
<1>3. \A g \in Handlers : me'[g].at = "page" => me'[g] = me[g]
    BY DEF OnlyMoves
<1>4. Fresh'
    BY <1>1, <1>2, FreshStays DEF IInv, Typed
<1>5. Grants'
    BY <1>1, <1>2, GrantsStay DEF IInv, Typed
<1> QED
    BY <1>1, <1>3, <1>4, <1>5, StoppedStays DEF IInv, Typed

(* Nobody moves, and no answer of a page is added. *)
LEMMA StillKeeps ==
    ASSUME IInv, StoreOK', Grants', DecisionsKept, UNCHANGED <<working, turn, talk, answers, me>>
    PROVE  IInv'
<1>1. UNCHANGED <<generation, ended, inFlight, proposed, waiting, queued, via, outstanding,
                  pushed, rode, excused>>
    BY DEF turn, stops, talk, answers
<1>2. MeOK' /\ Flight'
    BY <1>1 DEF IInv, Typed, MeOK, Flight
<1>3. Fresh'
    BY <1>1, FreshStays DEF IInv, Typed
<1>4. Stopped'
    BY <1>1, StoppedStays DEF IInv, Typed
<1>5. Kept'
    BY <1>1, KeptStays DEF IInv, CarriesOn
<1>6. Owed'
    BY <1>1, OwedStays DEF IInv
<1>7. Drained'
    <2>1. \A g \in Handlers : me[g].mine <= generation
        BY DEF IInv, Drained
    <2> QED
        BY <1>1, <2>1, DrainedStays DEF IInv
<1> QED
    BY <1>2, <1>3, <1>4, <1>5, <1>6, <1>7 DEF IInv, Typed

------------------------------------------------------------------------------
(* The ways an exchange begins, goes on and ends *)

LEMMA HandlerNow ==
    ASSUME IInv, NEW h \in Handlers
    PROVE  me[h] \in Locals /\ Shape(me[h]) /\ StoreOK /\ MeOK
BY DEF IInv, Typed, MeOK

LEMMA FreeLocals == Free \in Locals
BY RunLoopAssumption, EmptySeq DEF Free, Locals, Places

LEMMA PlainShape ==
    ASSUME NEW r, r.at \in {"free", "drain", "halting", "publish", "stream", "called"},
           r.carried = {}, r.todo = {}
    PROVE  Shape(r)
BY DEF Shape, Requesting, Walk, Running

(* After End, PublishFails and their like. *)
LEMMA Ending ==
    ASSUME IInv, NEW h \in Handlers, End(h)
    PROVE  /\ MeOK' /\ OnlyMoves(h)
           /\ me'[h].at = "drain" /\ me'[h].mine = 0 /\ me'[h].carried = {}
           /\ via' \in Remotes \cup {None}
<1> DEFINE r == [Free EXCEPT !.at = "drain"]
<1>1. r \in Locals
    BY FreeLocals DEF Locals, Places
<1>2. r.at = "drain" /\ r.mine = 0 /\ r.carried = {} /\ r.todo = {}
    BY DEF Free
<1>3. me' = [me EXCEPT ![h] = r]
    BY DEF End
<1> HIDE DEF r
<1>4. Shape(r)
    BY <1>2, PlainShape
<1>5. MeOK' /\ OnlyMoves(h) /\ me'[h] = r
    BY <1>1, <1>3, <1>4, Moved, HandlerNow
<1> QED
    BY <1>2, <1>5, HandlerNow DEF End, StoreOK

LEMMA EndDrains ==
    ASSUME IInv, NEW h \in Handlers, me[h].at \in InExchange, End(h),
           UNCHANGED <<generation, waiting, queued>>
    PROVE  Drained'
<1>1. /\ OnlyMoves(h) /\ me'[h].at = "drain" /\ me'[h].mine = 0
    BY Ending
<1>2. \A g \in Handlers : me'[g].mine <= generation' /\ (me'[g].at = "halting" => generation' > 0)
    BY <1>1, HandlerNow DEF IInv, Drained, OnlyMoves, StoreOK
<1>3. h \in Exchanging /\ Exchanging' = Exchanging \ {h}
    BY <1>1 DEF Exchanging, OnlyMoves, InExchange
<1>4. ASSUME generation' = 0
      PROVE  /\ Exchanging' = {}
             /\ via' = None
    <2>1. generation = 0
        BY <1>4
    <2>2. Exchanging' = {}
        BY <1>3, <2>1 DEF IInv, Drained
    <2>3. via # None => me[h].kind # "send"
        BY <1>3, <2>1 DEF IInv, Drained
    <2> QED
        BY <2>2, <2>3 DEF End
<1> QED
    BY <1>1, <1>2, <1>4 DEF Drained

(* An exchange ends, excused or with nothing outstanding.                  *)
LEMMA EndKeeps ==
    ASSUME IInv, NEW h \in Handlers, me[h].at \in InExchange, End(h),
           inFlight' \in {None, inFlight}, inFlight' # h, proposed' \subseteq proposed,
           UNCHANGED <<stops, waiting, queued, said, stack, world, pushed>>,
           working' \in BOOLEAN, excused' \in BOOLEAN, outstanding' \subseteq Answers,
           excused' \/ outstanding' = {}, Kept'
    PROVE  IInv'
<1>1. /\ MeOK' /\ OnlyMoves(h) /\ me'[h].at = "drain" /\ via' \in Remotes \cup {None}
    BY Ending
<1>2. /\ UNCHANGED <<generation, ended, waiting, queued, said, viaOf, cards, answering,
                     answered, decision, bus, listed, pushed>>
    BY DEF stops, stack, world
<1>3. StoreOK'
    BY <1>1, <1>2, HandlerNow DEF StoreOK
<1>4. Flight'
    BY <1>1, FlightStep DEF IInv
<1>5. Fresh' /\ Grants' /\ Stopped'
    BY <1>1, <1>2, NoCalls
<1>6. Owed'
    BY DEF Owed
<1>7. Drained'
    BY <1>2, EndDrains
<1> QED
    BY <1>1, <1>3, <1>4, <1>5, <1>6, <1>7 DEF IInv, Typed

(* A request takes what is outstanding.                                    *)
LEMMA RequestKeeps ==
    ASSUME IInv, NEW h \in Handlers, me[h].at \in {"publish", "called"},
           NEW step \in 0 .. MaxContinuations, Request(h, step),
           UNCHANGED <<working, via, stops, proposed, waiting, queued, said, stack, world>>
    PROVE  IInv'
<1> DEFINE r == [Free EXCEPT !.at = "capture", !.kind = me[h].kind, !.mine = me[h].mine,
                             !.step = step, !.carried = outstanding]
<1>1. me' = [me EXCEPT ![h] = r]
    BY DEF Request
<1>2. /\ r.at = "capture" /\ r.kind = me[h].kind /\ r.mine = me[h].mine
      /\ r.carried = outstanding /\ r.todo = {}
    BY DEF Free
<1>3. r \in Locals
    <2>1. me[h].kind \in {"none", "send", "remote"} \cup Walkers /\ me[h].mine \in Nat
        BY HandlerNow DEF Locals
    <2>2. outstanding \in SUBSET Answers
        BY HandlerNow DEF StoreOK
    <2> QED
        BY <2>1, <2>2, FreeLocals DEF Locals, Places, InExchange
<1> HIDE DEF r
<1>4. Shape(r)
    BY <1>2 DEF Shape, Requesting, Walk, Running
<1>5. MeOK' /\ OnlyMoves(h) /\ me'[h] = r
    BY <1>1, <1>3, <1>4, Moved, HandlerNow
<1>6. UNCHANGED <<working, via, generation, ended, proposed, waiting, queued, said, viaOf,
                  cards, answering, answered, decision, bus, listed, pushed, rode>>
    BY DEF stops, stack, world, Request
<1>7. StoreOK'
    BY <1>6, HandlerNow DEF StoreOK, Request
<1>8. Flight'
    BY <1>2, <1>5, FlightStep DEF IInv, Request, Requesting
<1>9. Fresh' /\ Grants' /\ Stopped'
    BY <1>2, <1>5, <1>6, NoCalls
<1>10. Kept'
    <2>1. me[h].carried = {} /\ me[h].at # "capture"
        BY HandlerNow DEF Shape, Requesting
    <2>2. Carrying' = Carrying \cup {h} /\ h \notin Carrying
        BY <1>2, <1>5, <2>1 DEF Carrying, OnlyMoves
    <2>3. /\ \A g \in Carrying : me'[g].carried = me[g].carried
          /\ me'[h].carried = outstanding /\ outstanding' = {}
        BY <1>2, <1>5, <2>2 DEF OnlyMoves, Request, Carrying
    <2>4. UNION {me'[g].carried : g \in Carrying'}
            = outstanding \cup UNION {me[g].carried : g \in Carrying}
        BY <2>2, <2>3
    <2>5. /\ \A g \in Carrying' : me'[g].carried \cap (outstanding' \cup rode') = {}
          /\ \A g \in Carrying' : \A f \in Carrying' \ {g} : me'[f].carried \cap me'[g].carried = {}
        BY <1>6, <2>2, <2>3 DEF IInv, Kept, ResultsKept
    <2>6. ResultsKept'
        BY <1>6, <2>3, <2>4, <2>5 DEF IInv, Kept, ResultsKept
    <2>7. \A g \in Handlers \ {h} : outstanding \cap me[g].carried = {}
        BY HandlerNow DEF IInv, Kept, ResultsKept, Carrying, Shape, Requesting
    <2>8. \A f, g \in Handlers : f # g => me'[f].carried \cap me'[g].carried = {}
        BY <1>5, <2>3, <2>7 DEF IInv, Kept, OnlyMoves
    <2> QED
        BY <1>2, <1>5, <1>6, <2>6, <2>8 DEF IInv, Kept, OnlyMoves
<1>11. Owed'
    BY DEF Owed, Request
<1>12. Drained'
    <2>1. \A g \in Handlers :
              /\ me'[g].mine <= generation
              /\ me'[g].at \in InExchange <=> me[g].at \in InExchange
              /\ me'[g].at \in InExchange => me'[g].kind = me[g].kind
              /\ me[g].at = "drain" => me'[g].at = "drain"
              /\ me'[g].at = "halting" => me[g].at = "halting"
        BY <1>2, <1>5 DEF IInv, Drained, OnlyMoves, InExchange
    <2> QED
        BY <1>6, <2>1, DrainedStays DEF IInv
<1> QED
    BY <1>5, <1>7, <1>8, <1>9, <1>10, <1>11, <1>12 DEF IInv, Typed

------------------------------------------------------------------------------
(* Exchanges *)

LEMMA PublishedKeeps == ASSUME IInv, NEW h \in Handlers, Published(h) PROVE IInv'
<1>1. CASE Request(h, 0) /\ UNCHANGED via
    BY <1>1, RequestKeeps, RunLoopAssumption DEF Published, stops
<1>2. CASE excused' = TRUE /\ End(h) /\ UNCHANGED <<inFlight, outstanding, pushed, rode>>
    <2>1. inFlight # h /\ me[h].at \in InExchange
        BY RunLoopAssumption DEF Published, IInv, Flight, Requesting, InExchange
    <2>2. Kept'
        BY <1>2, Ending, KeptStays DEF Published, IInv, CarriesOn, OnlyMoves
    <2> QED
        BY <1>2, <2>1, <2>2, EndKeeps, HandlerNow DEF Published, StoreOK
<1> QED
    BY <1>1, <1>2 DEF Published

LEMMA PublishFailsKeeps == ASSUME IInv, NEW h \in Handlers, PublishFails(h) PROVE IInv'
<1>1. inFlight # h /\ me[h].at \in InExchange
    BY RunLoopAssumption DEF PublishFails, IInv, Flight, Requesting, InExchange
<1>2. Kept'
    BY Ending, KeptStays DEF PublishFails, IInv, CarriesOn, OnlyMoves
<1> QED
    BY <1>1, <1>2, EndKeeps, HandlerNow DEF PublishFails, StoreOK, turn

(* What a handler carried is outstanding again, unheard.                   *)
LEMMA PutBack ==
    ASSUME IInv, NEW h \in Handlers, me[h].at \in Requesting, OnlyMoves(h),
           me'[h].at = "drain", me'[h].carried = {},
           outstanding' = me[h].carried \cup outstanding, pushed' = pushed,
           rode' = rode \ me[h].carried
    PROVE  Kept'
<1>1. /\ Carrying' = Carrying \ {h} /\ Carrying \subseteq Handlers
      /\ \A g \in Handlers \ {h} : me'[g].carried = me[g].carried
    BY DEF Carrying, OnlyMoves
<1>2. me[h].carried \subseteq pushed
    BY DEF IInv, Kept, ResultsKept, Carrying, Requesting
<1>3. \A g \in Handlers \ {h} : me[g].carried \cap me[h].carried = {}
    BY DEF IInv, Kept
<1>4. UNION {me[g].carried : g \in Carrying} \subseteq
        me[h].carried \cup UNION {me'[g].carried : g \in Carrying'}
    BY <1>1
<1>5. UNION {me'[g].carried : g \in Carrying'} \subseteq UNION {me[g].carried : g \in Carrying}
    BY <1>1
<1>6. pushed' = outstanding' \cup rode' \cup UNION {me'[g].carried : g \in Carrying'}
    BY <1>2, <1>4, <1>5 DEF IInv, Kept, ResultsKept
<1>7. /\ outstanding' \cap rode' = {}
      /\ \A g \in Carrying' :
            /\ me'[g].carried \cap (outstanding' \cup rode') = {}
            /\ \A f \in Carrying' \ {g} : me'[f].carried \cap me'[g].carried = {}
    BY <1>1, <1>3 DEF IInv, Kept, ResultsKept, Carrying
<1>8. \A g \in Handlers : me'[g].at \in {"sent", "busy"} => me'[g].carried \subseteq rode'
    BY <1>1, <1>3 DEF IInv, Kept, OnlyMoves
<1>9. \A f, g \in Handlers : f # g => me'[f].carried \cap me'[g].carried = {}
    BY <1>1 DEF IInv, Kept
<1>10. ResultsKept'
    BY <1>6, <1>7 DEF ResultsKept
<1> QED
    BY <1>8, <1>9, <1>10 DEF Kept

LEMMA LandKeeps ==
    ASSUME NEW h \in Handlers, Land(h)
    PROVE  inFlight' \in {None, inFlight} /\ inFlight' # h
BY RunLoopAssumption DEF Land

LEMMA AbortedKeeps == ASSUME IInv, NEW h \in Handlers, Aborted(h) PROVE IInv'
<1>1. me[h].at = "capture" /\ me[h].at \in InExchange \cap Requesting
    BY DEF Aborted, InExchange, Requesting
<1>2. rode \ me[h].carried = rode
    BY <1>1 DEF IInv, Kept, ResultsKept, Carrying
<1>3. Kept'
    BY <1>1, <1>2, PutBack, Ending DEF Aborted
<1>4. outstanding' \subseteq Answers
    BY HandlerNow DEF Aborted, StoreOK, Locals
<1> QED
    BY <1>1, <1>3, <1>4, EndKeeps, LandKeeps, HandlerNow DEF Aborted, StoreOK

LEMMA RefusedKeeps == ASSUME IInv, NEW h \in Handlers, Refused(h) PROVE IInv'
<1>1. me[h].at \in InExchange \cap Requesting
    BY DEF Refused, InExchange, Requesting
<1>2. Kept'
    BY <1>1, PutBack, Ending DEF Refused, Failed
<1>3. outstanding' \subseteq Answers
    BY HandlerNow DEF Refused, StoreOK, Locals
<1>4. working' \in BOOLEAN
    BY HandlerNow DEF Refused, Failed, StoreOK
<1> QED
    BY <1>1, <1>2, <1>3, <1>4, EndKeeps, LandKeeps, HandlerNow DEF Refused, Failed, StoreOK

LEMMA BrokenKeeps == ASSUME IInv, NEW h \in Handlers, Broken(h) PROVE IInv'
<1>1. me[h].at \in InExchange /\ me[h].at # "capture"
    BY DEF Broken, InExchange
<1>2. Kept'
    BY <1>1, Ending, KeptStays DEF Broken, Failed, IInv, CarriesOn, OnlyMoves
<1>3. working' \in BOOLEAN
    BY HandlerNow DEF Broken, Failed, StoreOK
<1> QED
    BY <1>1, <1>2, <1>3, EndKeeps, LandKeeps, HandlerNow DEF Broken, Failed, StoreOK

LEMMA TurnErrorKeeps == ASSUME IInv, NEW h \in Handlers, TurnError(h) PROVE IInv'
<1>1. me[h].at = "stream" /\ me[h].at \in InExchange
    BY DEF TurnError, Streams, InExchange
<1>2. Kept'
    BY <1>1, Ending, KeptStays DEF TurnError, IInv, CarriesOn, OnlyMoves
<1> QED
    BY <1>1, <1>2, EndKeeps, LandKeeps, HandlerNow DEF TurnError, StoreOK

LEMMA CalledKeeps == ASSUME IInv, NEW h \in Handlers, Called(h) PROVE IInv'
<1>1. me[h].at = "called" /\ me[h].at \in InExchange
    BY DEF Called, InExchange
<1>2. CASE Request(h, me[h].step + 1) /\ me[h].step < MaxContinuations /\ UNCHANGED <<working, via>>
    <2>1. me[h].step + 1 \in 0 .. MaxContinuations
        BY <1>2, HandlerNow, RunLoopAssumption DEF Locals
    <2> QED
        BY <1>1, <1>2, <2>1, RequestKeeps DEF Called, stops
<1>3. CASE /\ End(h) /\ UNCHANGED <<inFlight, outstanding, pushed, rode>>
           /\ \/ excused' = TRUE /\ working' = working
              \/ excused' = (excused \/ outstanding # {}) /\ working' = FALSE
              \/ excused' = TRUE /\ working' = FALSE
    <2>1. excused' \in BOOLEAN /\ working' \in BOOLEAN /\ (excused' \/ outstanding' = {})
        BY <1>3, HandlerNow DEF StoreOK
    <2>2. inFlight # h
        BY <1>1, RunLoopAssumption DEF IInv, Flight, Requesting
    <2>3. Kept'
        BY <1>1, <1>3, Ending, KeptStays DEF IInv, CarriesOn, OnlyMoves
    <2> QED
        BY <1>1, <1>3, <2>1, <2>2, <2>3, EndKeeps, HandlerNow DEF Called, StoreOK
<1> QED
    BY <1>2, <1>3 DEF Called

(* A step of an exchange in which no call and no answer takes part.        *)
LEMMA WithinKeeps ==
    ASSUME IInv, NEW h \in Handlers, NEW r \in Locals, Shape(r), me' = [me EXCEPT ![h] = r],
           me[h].at \in InExchange, r.at \in InExchange \ {"page"},
           r.kind = me[h].kind, r.mine = me[h].mine, Flight', Kept',
           UNCHANGED <<working, stops, proposed, talk, stack, world, outstanding, pushed, excused>>
    PROVE  IInv'
<1>1. MeOK' /\ OnlyMoves(h) /\ me'[h] = r
    BY Moved, HandlerNow
<1>2. UNCHANGED <<via, generation, ended, waiting, queued, said, viaOf, cards, answering,
                  answered, decision, bus, listed>>
    BY DEF stops, talk, stack, world
<1>3. StoreOK'
    BY <1>2, HandlerNow DEF StoreOK
<1>4. Fresh' /\ Grants' /\ Stopped'
    BY <1>1, <1>2, NoCalls DEF InExchange
<1>5. Owed'
    BY <1>1, OwedStays DEF IInv, Bearer, OnlyMoves
<1>6. Drained'
    <2>1. \A g \in Handlers :
              /\ me'[g].mine <= generation
              /\ me'[g].at \in InExchange <=> me[g].at \in InExchange
              /\ me'[g].at \in InExchange => me'[g].kind = me[g].kind
              /\ me[g].at = "drain" => me'[g].at = "drain"
              /\ me'[g].at = "halting" => me[g].at = "halting"
        BY <1>1 DEF IInv, Drained, OnlyMoves, InExchange
    <2> QED
        BY <1>2, <2>1, DrainedStays DEF IInv
<1> QED
    BY <1>1, <1>3, <1>4, <1>5, <1>6 DEF IInv, Typed

LEMMA CapturedKeeps == ASSUME IInv, NEW h \in Handlers, Captured(h) PROVE IInv'
<1> DEFINE r == [me[h] EXCEPT !.at = "sent"]
<1>1. me' = [me EXCEPT ![h] = r] /\ me[h].at = "capture"
    BY HandlerNow DEF Captured, MeOK
<1>2. r \in Locals
    BY HandlerNow DEF Locals, Places, InExchange
<1>3. /\ r.at = "sent" /\ r.carried = me[h].carried /\ r.todo = me[h].todo
      /\ r.kind = me[h].kind /\ r.mine = me[h].mine
    BY HandlerNow DEF Locals
<1> HIDE DEF r
<1>4. Shape(r)
    BY <1>1, <1>3, HandlerNow DEF Shape, Requesting, Walk, Running
<1>5. OnlyMoves(h) /\ me'[h] = r
    BY <1>1, <1>2, <1>4, Moved, HandlerNow
<1>6. Flight'
    BY <1>3, <1>5, FlightStep DEF Captured, turn, IInv, Requesting
<1>7. Kept'
    <2>1. /\ Carrying' = Carrying \ {h} /\ Carrying \subseteq Handlers /\ h \in Carrying
          /\ \A g \in Handlers : me'[g].carried = me[g].carried
        BY <1>1, <1>3, <1>5 DEF Carrying, OnlyMoves
    <2>2. /\ rode' = rode \cup me[h].carried /\ outstanding' = outstanding /\ pushed' = pushed
        BY DEF Captured
    <2>3. me[h].carried \cup UNION {me'[g].carried : g \in Carrying'}
            = UNION {me[g].carried : g \in Carrying}
        BY <2>1
    <2>4. /\ outstanding' \cap rode' = {}
          /\ \A g \in Carrying' :
                /\ me'[g].carried \cap (outstanding' \cup rode') = {}
                /\ \A f \in Carrying' \ {g} : me'[f].carried \cap me'[g].carried = {}
        BY <2>1, <2>2 DEF IInv, Kept, ResultsKept
    <2>5. ResultsKept'
        BY <2>2, <2>3, <2>4 DEF IInv, Kept, ResultsKept
    <2>6. \A g \in Handlers : me'[g].at \in {"sent", "busy"} => me'[g].carried \subseteq rode'
        BY <1>5, <2>1, <2>2 DEF IInv, Kept, OnlyMoves
    <2> QED
        BY <2>1, <2>5, <2>6 DEF IInv, Kept
<1> QED
    BY <1>1, <1>2, <1>3, <1>4, <1>6, <1>7, WithinKeeps
    DEF Captured, InExchange, turn, talk, stack, world

LEMMA AcceptedKeeps == ASSUME IInv, NEW h \in Handlers, Accepted(h) PROVE IInv'
<1> DEFINE r == [me[h] EXCEPT !.at = "stream", !.carried = {}, !.tries = 0]
<1>1. me' = [me EXCEPT ![h] = r] /\ me[h].at = "sent"
    BY HandlerNow DEF Accepted, MeOK
<1>2. r \in Locals
    <2>1. me[h] \in Locals /\ 0 \in 0 .. BusyRetries
        BY HandlerNow, RunLoopAssumption
    <2> QED
        BY <2>1 DEF Locals, Places, InExchange
<1>3. /\ r.at = "stream" /\ r.carried = {} /\ r.todo = me[h].todo
      /\ r.kind = me[h].kind /\ r.mine = me[h].mine
    BY HandlerNow DEF Locals
<1> HIDE DEF r
<1>4. Shape(r)
    BY <1>1, <1>3, HandlerNow, PlainShape DEF Shape
<1>5. OnlyMoves(h) /\ me'[h] = r
    BY <1>1, <1>2, <1>4, Moved, HandlerNow
<1>6. Flight'
    BY <1>3, <1>5, FlightStep DEF Accepted, turn, IInv
<1>7. Kept'
    BY <1>1, <1>3, <1>5, KeptStays DEF Accepted, answers, IInv, CarriesOn, OnlyMoves
<1> QED
    BY <1>1, <1>2, <1>3, <1>4, <1>6, <1>7, WithinKeeps
    DEF Accepted, InExchange, turn, talk, stack, world, answers

(* The request is on its way, or waits to be sent again.                   *)
LEMMA ResendKeeps ==
    ASSUME IInv, NEW h \in Handlers, NEW r \in Locals, me' = [me EXCEPT ![h] = r],
           me[h].at \in {"sent", "busy"}, r.at \in {"sent", "busy"},
           r.carried = me[h].carried, r.todo = me[h].todo,
           r.kind = me[h].kind, r.mine = me[h].mine,
           UNCHANGED <<working, turn, talk, stack, world, answers>>
    PROVE  IInv'
<1>1. Shape(r)
    BY HandlerNow DEF Shape, Requesting, Walk, Running
<1>2. OnlyMoves(h) /\ me'[h] = r
    BY <1>1, Moved, HandlerNow
<1>3. Flight'
    BY <1>2, FlightStep DEF turn, IInv, Requesting
<1>4. Kept'
    BY <1>2, KeptStays DEF answers, IInv, CarriesOn, OnlyMoves
<1> QED
    BY <1>1, <1>3, <1>4, WithinKeeps DEF InExchange, turn, talk, stack, world, answers

LEMMA ThreadBusyKeeps == ASSUME IInv, NEW h \in Handlers, ThreadBusy(h) PROVE IInv'
<1> DEFINE r == [me[h] EXCEPT !.at = "busy", !.tries = @ + 1]
<1>1. me' = [me EXCEPT ![h] = r] /\ me[h].at = "sent" /\ me[h] \in Locals
    BY HandlerNow DEF ThreadBusy, MeOK
<1>2. r \in Locals
    <2>1. me[h].tries + 1 \in 0 .. BusyRetries
        BY <1>1, RunLoopAssumption DEF ThreadBusy, Locals
    <2> QED
        BY <1>1, <2>1 DEF Locals, Places, InExchange
<1>3. /\ r.at = "busy" /\ r.carried = me[h].carried /\ r.todo = me[h].todo
      /\ r.kind = me[h].kind /\ r.mine = me[h].mine
    BY <1>1 DEF Locals
<1> QED
    BY <1>1, <1>2, <1>3, ResendKeeps DEF ThreadBusy

LEMMA RetryKeeps == ASSUME IInv, NEW h \in Handlers, Retry(h) PROVE IInv'
<1> DEFINE r == [me[h] EXCEPT !.at = "sent"]
<1>1. me' = [me EXCEPT ![h] = r] /\ me[h].at = "busy" /\ me[h] \in Locals
    BY HandlerNow DEF Retry, MeOK
<1>2. r \in Locals
    BY <1>1 DEF Locals, Places, InExchange
<1>3. /\ r.at = "sent" /\ r.carried = me[h].carried /\ r.todo = me[h].todo
      /\ r.kind = me[h].kind /\ r.mine = me[h].mine
    BY <1>1 DEF Locals
<1> QED
    BY <1>1, <1>2, <1>3, ResendKeeps DEF Retry

(* The locals of a handler whose turn is over. *)
LEMMA CalledNow ==
    ASSUME IInv, NEW h \in Handlers, me' = ToCalled(h)
    PROVE  LET r == [Free EXCEPT !.at = "called", !.kind = me[h].kind,
                                 !.mine = me[h].mine, !.step = me[h].step]
           IN  /\ r \in Locals /\ Shape(r) /\ me' = [me EXCEPT ![h] = r]
               /\ r.at = "called" /\ r.carried = {} /\ r.kind = me[h].kind /\ r.mine = me[h].mine
<1> DEFINE r == [Free EXCEPT !.at = "called", !.kind = me[h].kind,
                             !.mine = me[h].mine, !.step = me[h].step]
<1>1. r \in Locals
    <2>1. /\ me[h].kind \in {"none", "send", "remote"} \cup Walkers /\ me[h].mine \in Nat
          /\ me[h].step \in 0 .. MaxContinuations
        BY HandlerNow DEF Locals
    <2> QED
        BY <2>1, FreeLocals DEF Locals, Places, InExchange
<1>2. /\ r.at = "called" /\ r.carried = {} /\ r.kind = me[h].kind /\ r.mine = me[h].mine
      /\ r.todo = {}
    BY DEF Free
<1>3. me' = [me EXCEPT ![h] = r]
    BY DEF ToCalled
<1> HIDE DEF r
<1>4. Shape(r)
    BY <1>2, PlainShape
<1> QED
    BY <1>1, <1>2, <1>3, <1>4 DEF r

LEMMA EndOfBodyKeeps == ASSUME IInv, NEW h \in Handlers, EndOfBody(h) PROVE IInv'
<1>1. PICK r \in Locals : /\ Shape(r) /\ me' = [me EXCEPT ![h] = r] /\ r.at = "called"
                          /\ r.carried = {} /\ r.kind = me[h].kind /\ r.mine = me[h].mine
    BY CalledNow DEF EndOfBody
<1>2. OnlyMoves(h) /\ me'[h] = r
    BY <1>1, Moved, HandlerNow
<1>3. Flight'
    BY <1>2, FlightStep, LandKeeps DEF EndOfBody, IInv
<1>4. Kept'
    BY <1>1, <1>2, KeptStays DEF EndOfBody, answers, IInv, CarriesOn, OnlyMoves
<1> QED
    BY <1>1, <1>3, <1>4, WithinKeeps DEF EndOfBody, InExchange, answers

------------------------------------------------------------------------------
(* The frames of a turn *)

(* A frame that tells of a call changes what the stream has to come, and   *)
(* what the window has on record of the call.                              *)
LEMMA FrameKeeps ==
    ASSUME IInv, NEW h \in Handlers, Streams(h),
           NEW offered \in SUBSET Calls, NEW coming \in SUBSET Calls,
           me' = [me EXCEPT ![h] = [me[h] EXCEPT !.offered = offered, !.coming = coming]],
           UNCHANGED <<working, stops, inFlight, talk, bus, answers>>,
           StoreOK', DecisionsKept, Fresh', \A c \in ended : c \notin proposed'
    PROVE  IInv'
<1> DEFINE r == [me[h] EXCEPT !.offered = offered, !.coming = coming]
<1>1. me[h] \in Locals /\ Shape(me[h]) /\ me[h].at = "stream"
    BY HandlerNow DEF Streams
<1>2. r \in Locals
    BY <1>1 DEF Locals
<1>3. /\ r.at = "stream" /\ r.carried = me[h].carried /\ r.todo = me[h].todo
      /\ r.kind = me[h].kind /\ r.mine = me[h].mine
    BY <1>1 DEF Locals
<1> HIDE DEF r
<1>4. Shape(r)
    BY <1>1, <1>3, PlainShape DEF Shape, Requesting
<1>5. MeOK' /\ OnlyMoves(h) /\ me'[h] = r
    BY <1>2, <1>4, Moved, HandlerNow DEF r
<1>6. /\ UNCHANGED <<generation, ended, waiting, queued, via, outstanding, pushed, rode, excused>>
    BY DEF stops, talk, answers
<1>7. Flight'
    BY <1>3, <1>5, FlightStep DEF IInv
<1>8. Grants'
    <2>1. \A g \in Handlers : GrantOf(me'[g]) \subseteq GrantOf(me[g])
        BY <1>3, <1>5 DEF GrantOf, OnlyMoves
    <2> QED
        BY <1>6, <2>1, GrantsStay, HandlerNow DEF IInv
<1>9. Kept'
    BY <1>1, <1>3, <1>5, <1>6, KeptStays DEF IInv, CarriesOn, OnlyMoves
<1>10. Stopped'
    <2>1. \A c \in ended' : decision'[c] # "unknown" /\ c \notin proposed'
        BY <1>6, HandlerNow DEF IInv, Stopped, DecisionsKept, StoreOK
    <2>2. \A g \in Handlers : me'[g].at = "page" => me'[g] = me[g]
        BY <1>3, <1>5 DEF OnlyMoves
    <2> QED
        BY <1>6, <2>1, <2>2 DEF IInv, Stopped
<1>11. Owed'
    BY <1>1, <1>3, <1>5, <1>6, OwedStays DEF IInv, Bearer, OnlyMoves, InExchange
<1>12. Drained'
    <2>1. \A g \in Handlers :
              /\ me'[g].mine <= generation
              /\ me'[g].at \in InExchange <=> me[g].at \in InExchange
              /\ me'[g].at \in InExchange => me'[g].kind = me[g].kind
              /\ me[g].at = "drain" => me'[g].at = "drain"
              /\ me'[g].at = "halting" => me[g].at = "halting"
        BY <1>1, <1>3, <1>5 DEF IInv, Drained, OnlyMoves, InExchange
    <2> QED
        BY <1>6, <2>1, DrainedStays DEF IInv
<1> QED
    BY <1>5, <1>7, <1>8, <1>9, <1>10, <1>11, <1>12 DEF IInv, Typed

(* The stream has not changed, as far as a page is concerned.              *)
LEMMA FrameFresh ==
    ASSUME IInv, NEW h \in Handlers, Streams(h),
           me' \in [Handlers -> Locals], OnlyMoves(h), me'[h].at = "stream",
           UNCHANGED pushed, DecisionsKept, proposed' \subseteq proposed
    PROVE  Fresh'
<1>1. \A g \in Handlers : PageCalls(me'[g]) \subseteq PageCalls(me[g])
    BY DEF OnlyMoves, PageCalls
<1> QED
    BY <1>1, FreshStays, HandlerNow DEF IInv

(* The handler whose stream it is stays at it. *)
LEMMA StreamMoves ==
    ASSUME IInv, NEW h \in Handlers, Streams(h),
           NEW offered \in SUBSET Calls, NEW coming \in SUBSET Calls,
           me' = [me EXCEPT ![h] = [me[h] EXCEPT !.offered = offered, !.coming = coming]]
    PROVE  me' \in [Handlers -> Locals] /\ OnlyMoves(h) /\ me'[h].at = "stream"
<1> DEFINE r == [me[h] EXCEPT !.offered = offered, !.coming = coming]
<1>1. me[h] \in Locals /\ me[h].at = "stream"
    BY HandlerNow DEF Streams
<1>2. r \in Locals /\ r.at = "stream"
    BY <1>1 DEF Locals
<1> QED
    BY <1>2, HandlerNow DEF MeOK, OnlyMoves

LEMMA ToolCallKeeps ==
    ASSUME IInv, NEW h \in Handlers, NEW c \in Calls, ToolCall(h, c) PROVE IInv'
<1> DEFINE r == [me[h] EXCEPT !.offered = me[h].offered \cup {c}, !.coming = me[h].coming]
<1>1. me[h] \in Locals
    BY HandlerNow
<1>2. me' = [me EXCEPT ![h] = r]
    <2>1. r = [me[h] EXCEPT !.offered = @ \cup {c}]
        BY <1>1 DEF Locals
    <2> QED
        BY <2>1, HandlerNow DEF ToolCall, MeOK
<1>3. me[h].offered \cup {c} \in SUBSET Calls /\ me[h].coming \in SUBSET Calls
    BY <1>1 DEF Locals
<1>4. me' \in [Handlers -> Locals] /\ OnlyMoves(h) /\ me'[h].at = "stream"
    BY <1>2, <1>3, StreamMoves DEF ToolCall
<1>5. StoreOK' /\ DecisionsKept
    BY HandlerNow DEF ToolCall, StoreOK, stops, talk, stack, answers, DecisionsKept
<1>6. Fresh' /\ \A d \in ended : d \notin proposed'
    <2>1. decision[c] = "unknown" /\ proposed' = proposed \cup {c} /\ pushed' = pushed
        BY DEF ToolCall, answers
    <2>2. /\ Result(c, FALSE) \notin pushed /\ c \notin ended
          /\ \A g \in Handlers : c \notin PageCalls(me[g])
        BY <2>1 DEF IInv, Fresh, Stopped
    <2>3. \A g \in Handlers : PageCalls(me[g])' = PageCalls(me'[g])
              /\ PageCalls(me'[g]) \subseteq PageCalls(me[g])
        BY <1>4 DEF PageCalls, OnlyMoves
    <2>4. \A g \in Handlers : PageCalls(me[g]) \subseteq Calls
        BY HandlerNow DEF PageCalls, MeOK, Shape, Locals
    <2>5. \A d : Result(d, FALSE)' = Result(d, FALSE)
        BY DEF Result
    <2>6. \A d \in Calls : Result(d, FALSE) \in pushed' \/ d \in proposed' => decision'[d] # "unknown"
        BY <1>5, <2>1, HandlerNow DEF IInv, Fresh, DecisionsKept, ToolCall, StoreOK
    <2>7. \A g \in Handlers : \A d \in PageCalls(me'[g]) :
              decision'[d] # "unknown" /\ Result(d, FALSE) \notin pushed' /\ d \notin proposed'
        BY <1>5, <2>1, <2>2, <2>3, <2>4 DEF IInv, Fresh, DecisionsKept
    <2>8. \A f, g \in Handlers : f # g => PageCalls(me'[f]) \cap PageCalls(me'[g]) = {}
        BY <2>3 DEF IInv, Fresh
    <2>9. \A d \in proposed' : Result(d, FALSE) \notin pushed'
        BY <2>1, <2>2 DEF IInv, Fresh
    <2>10. \A d \in ended : d \notin proposed'
        BY <2>1, <2>2 DEF IInv, Stopped
    <2> QED
        BY <2>3, <2>5, <2>6, <2>7, <2>8, <2>9, <2>10 DEF Fresh
<1> QED
    BY <1>2, <1>3, <1>5, <1>6, FrameKeeps DEF ToolCall

(* Frames after which no more is proposed than before. *)
LEMMA LaterFrameKeeps ==
    ASSUME IInv, NEW h \in Handlers, Streams(h),
           NEW offered \in SUBSET Calls, NEW coming \in SUBSET Calls,
           me' = [me EXCEPT ![h] = [me[h] EXCEPT !.offered = offered, !.coming = coming]],
           UNCHANGED <<working, stops, inFlight, talk, bus, answers>>,
           StoreOK', DecisionsKept, proposed' \subseteq proposed
    PROVE  IInv'
<1>1. me' \in [Handlers -> Locals] /\ OnlyMoves(h) /\ me'[h].at = "stream"
    BY StreamMoves
<1>2. Fresh'
    BY <1>1, FrameFresh DEF answers
<1>3. \A c \in ended : c \notin proposed'
    BY DEF IInv, Stopped
<1> QED
    BY <1>2, <1>3, FrameKeeps

LEMMA GateKeeps == ASSUME IInv, NEW h \in Handlers, NEW c \in Calls, Gate(h, c) PROVE IInv'
<1>1. me[h] \in Locals
    BY HandlerNow
<1>2. me[h].offered \ {c} \in SUBSET Calls /\ me[h].coming \cup {c} \in SUBSET Calls
    BY <1>1 DEF Locals
<1>3. me' = [me EXCEPT ![h] = [me[h] EXCEPT !.offered = me[h].offered \ {c},
                                            !.coming = me[h].coming \cup {c}]]
    BY HandlerNow DEF Gate, MeOK
<1>4. StoreOK' /\ DecisionsKept
    BY HandlerNow DEF Gate, StoreOK, turn, stops, talk, stack, answers, DecisionsKept
<1> QED
    BY <1>2, <1>3, <1>4, LaterFrameKeeps DEF Gate, turn

LEMMA DecisionRequestedKeeps ==
    ASSUME IInv, NEW h \in Handlers, NEW c \in Calls, DecisionRequested(h, c) PROVE IInv'
<1> DEFINE r == [me[h] EXCEPT !.offered = me[h].offered, !.coming = me[h].coming \ {c}]
<1>1. me[h] \in Locals
    BY HandlerNow
<1>2. me[h].offered \in SUBSET Calls /\ me[h].coming \ {c} \in SUBSET Calls
    BY <1>1 DEF Locals
<1>3. me' = [me EXCEPT ![h] = r]
    <2>1. r = [me[h] EXCEPT !.coming = @ \ {c}]
        BY <1>1 DEF Locals
    <2> QED
        BY <2>1, HandlerNow DEF DecisionRequested, MeOK
<1>4. StoreOK'
    BY HandlerNow DEF DecisionRequested, StoreOK, stops, talk, world, answers
<1>5. DecisionsKept /\ UNCHANGED bus
    BY DEF DecisionRequested, world, DecisionsKept
<1> QED
    BY <1>2, <1>3, <1>4, <1>5, LaterFrameKeeps DEF DecisionRequested

LEMMA ToolResultKeeps ==
    ASSUME IInv, NEW h \in Handlers, NEW c \in Calls, ToolResult(h, c) PROVE IInv'
<1> DEFINE r == [me[h] EXCEPT !.offered = me[h].offered \ {c}, !.coming = me[h].coming]
<1>1. me[h] \in Locals
    BY HandlerNow
<1>2. me[h].offered \ {c} \in SUBSET Calls /\ me[h].coming \in SUBSET Calls
    BY <1>1 DEF Locals
<1>3. me' = [me EXCEPT ![h] = r]
    <2>1. r = [me[h] EXCEPT !.offered = @ \ {c}]
        BY <1>1 DEF Locals
    <2> QED
        BY <2>1, HandlerNow DEF ToolResult, MeOK
<1>4. StoreOK' /\ DecisionsKept
    BY HandlerNow DEF ToolResult, StoreOK, stops, talk, stack, answers, DecisionsKept
<1> QED
    BY <1>2, <1>3, <1>4, LaterFrameKeeps DEF ToolResult

(* The page answers for calls that had no answer yet.                      *)
LEMMA PushKeeps ==
    ASSUME IInv, NEW results \in SUBSET Answers, results \cap pushed = {}, Push(results),
           UNCHANGED rode, \A g \in Handlers : CarriesOn(g)
    PROVE  Kept'
<1>1. /\ Carrying' = Carrying /\ Carrying \subseteq Handlers
      /\ \A g \in Carrying : me'[g].carried = me[g].carried
      /\ \A g \in Handlers : me'[g].carried \subseteq me[g].carried
    BY DEF Carrying, CarriesOn
<1>2. outstanding' = outstanding \cup results /\ pushed' = pushed \cup results
    BY DEF Push
<1>3. \A g \in Carrying : me[g].carried \cap results = {}
    BY DEF IInv, Kept, ResultsKept
<1>4. UNION {me'[g].carried : g \in Carrying} = UNION {me[g].carried : g \in Carrying}
    BY <1>1
<1>5. /\ pushed' = outstanding' \cup rode' \cup UNION {me'[g].carried : g \in Carrying'}
      /\ outstanding' \cap rode' = {}
    BY <1>1, <1>2, <1>4 DEF IInv, Kept, ResultsKept
<1>6. \A g \in Carrying' :
         /\ me'[g].carried \cap (outstanding' \cup rode') = {}
         /\ \A f \in Carrying' \ {g} : me'[f].carried \cap me'[g].carried = {}
    BY <1>1, <1>2, <1>3 DEF IInv, Kept, ResultsKept
<1>7. ResultsKept'
    BY <1>5, <1>6 DEF ResultsKept
<1>8. \A g \in Handlers : me'[g].at \in {"sent", "busy"} => me'[g].carried \subseteq rode'
    BY DEF CarriesOn, IInv, Kept
<1> QED
    BY <1>1, <1>7, <1>8 DEF IInv, Kept

(* onPage, for the calls of a turn: some are answered, and the rest is     *)
(* left to the page, or none is.                                           *)
NextCall(h, left) == \E c \in left :
    me' = [me EXCEPT ![h] = [me[h] EXCEPT !.at = "page", !.on = c, !.began = generation,
                                          !.offered = {}, !.todo = left \ {c}]]

LEMMA NextCallNow ==
    ASSUME IInv, NEW h \in Handlers, me[h].at \in {"stream", "page"},
           NEW left \in SUBSET Calls, NextCall(h, left)
    PROVE  /\ MeOK' /\ OnlyMoves(h) /\ me'[h].at = "page" /\ me'[h].carried = {}
           /\ me'[h].kind = me[h].kind /\ me'[h].mine = me[h].mine
           /\ me'[h].on \in left /\ me'[h].todo \subseteq left /\ me'[h].began = generation
           /\ PageCalls(me'[h]) \subseteq left
<1>1. PICK c \in left :
         me' = [me EXCEPT ![h] = [me[h] EXCEPT !.at = "page", !.on = c, !.began = generation,
                                               !.offered = {}, !.todo = left \ {c}]]
    BY DEF NextCall
<1> DEFINE r == [me[h] EXCEPT !.at = "page", !.on = c, !.began = generation,
                              !.offered = {}, !.todo = left \ {c}]
<1>2. me[h] \in Locals /\ generation \in Nat /\ c \in Calls /\ left \ {c} \in SUBSET Calls
    BY HandlerNow, RunLoopAssumption DEF StoreOK
<1>3. r \in Locals
    BY <1>2 DEF Locals, Places, InExchange
<1>4. /\ r.at = "page" /\ r.on = c /\ r.todo = left \ {c} /\ r.carried = me[h].carried
      /\ r.kind = me[h].kind /\ r.mine = me[h].mine /\ r.began = generation
    BY <1>2 DEF Locals
<1>5. me[h].carried = {}
    BY HandlerNow DEF Shape, Requesting
<1>6. me' = [me EXCEPT ![h] = r]
    BY <1>1
<1> HIDE DEF r
<1>7. Shape(r)
    BY <1>2, <1>4, <1>5 DEF Shape, Requesting, Walk, Running
<1>8. MeOK' /\ OnlyMoves(h) /\ me'[h] = r
    BY <1>3, <1>6, <1>7, Moved, HandlerNow
<1>9. PageCalls(r) \subseteq left
    BY <1>4 DEF PageCalls
<1> QED
    BY <1>4, <1>5, <1>8, <1>9

(* Answers of calls that ran without a card. *)
Unasked(cs) == {Result(c, FALSE) : c \in cs}

LEMMA UnaskedUnion == ASSUME NEW A, NEW B PROVE Unasked(A) \cup Unasked(B) = Unasked(A \cup B)
BY DEF Unasked

LEMMA UnaskedAre ==
    ASSUME NEW cs \in SUBSET Calls
    PROVE  /\ Unasked(cs) \in SUBSET Answers
           /\ \A c : Result(c, TRUE) \notin Unasked(cs)
           /\ \A c : Result(c, FALSE) \in Unasked(cs) => c \in cs
<1>1. \A c \in cs : Result(c, FALSE) \in Answers
    BY DEF Result, Answers
<1>2. \A c, d : Result(c, TRUE) # Result(d, FALSE)
    BY DEF Result
<1>3. \A c, d : Result(c, FALSE) = Result(d, FALSE) => c = d
    BY DEF Result
<1>4. Unasked(cs) \in SUBSET Answers
    BY <1>1 DEF Unasked
<1>5. \A c : Result(c, TRUE) \notin Unasked(cs)
    BY <1>2 DEF Unasked
<1>6. \A c : Result(c, FALSE) \in Unasked(cs) => c \in cs
    BY <1>3 DEF Unasked
<1> QED
    BY <1>4, <1>5, <1>6

LEMMA PageKeeps ==
    ASSUME IInv, NEW h \in Handlers, me[h].at \in {"stream", "page"},
           NEW told \in SUBSET Calls, NEW left \in SUBSET Calls, told \cap left = {},
           \A c \in told \cup left :
               /\ decision[c] # "unknown" /\ Result(c, FALSE) \notin pushed /\ c \notin proposed'
               /\ \A g \in Handlers \ {h} : c \notin PageCalls(me[g]),
           proposed' \subseteq proposed,
           Push(Unasked(told)),
           \/ me' = ToCalled(h)
           \/ left \cap ended = {} /\ NextCall(h, left),
           inFlight' \in {None, inFlight}, inFlight' # h, working => working', working' \in BOOLEAN,
           UNCHANGED <<stops, talk, stack, world, rode, excused>>
    PROVE  IInv'
<1>1. /\ MeOK' /\ OnlyMoves(h) /\ me'[h].at \in {"called", "page"} /\ me'[h].carried = {}
      /\ me'[h].kind = me[h].kind /\ me'[h].mine = me[h].mine
    <2>1. CASE me' = ToCalled(h)
        <3>1. PICK r \in Locals : /\ Shape(r) /\ me' = [me EXCEPT ![h] = r] /\ r.at = "called"
                                  /\ r.carried = {} /\ r.kind = me[h].kind /\ r.mine = me[h].mine
            BY <2>1, CalledNow
        <3> QED
            BY <3>1, Moved, HandlerNow
    <2>2. CASE NextCall(h, left)
        BY <2>2, NextCallNow
    <2> QED
        BY <2>1, <2>2
<1>2. /\ PageCalls(me'[h]) \subseteq left
      /\ me'[h].at = "page" => /\ left \cap ended = {} /\ me'[h].began = generation
                               /\ me'[h].on \in left /\ me'[h].todo \subseteq left
    <2>1. CASE me' = ToCalled(h)
        <3>1. PICK r \in Locals : me' = [me EXCEPT ![h] = r] /\ r.at = "called"
            BY <2>1, CalledNow
        <3>2. me'[h].at = "called"
            BY <3>1, HandlerNow DEF MeOK
        <3> QED
            BY <3>2 DEF PageCalls
    <2>2. CASE left \cap ended = {} /\ NextCall(h, left)
        BY <2>2, NextCallNow
    <2> QED
        BY <2>1, <2>2
<1>3. UNCHANGED <<generation, ended, waiting, queued, via, said, viaOf, cards, answering,
                  answered, decision, bus, listed>>
    BY DEF stops, talk, stack, world
<1> DEFINE results == Unasked(told)
<1>4. /\ results \in SUBSET Answers /\ results \cap pushed = {}
      /\ \A x : Result(x, TRUE) \notin results
      /\ \A x : Result(x, FALSE) \in results => x \in told
    <2>1. results \cap pushed = {}
        BY DEF Unasked
    <2> QED
        BY <2>1, UnaskedAre
<1>5. outstanding' = outstanding \cup results /\ pushed' = pushed \cup results
    BY DEF Push
<1> HIDE DEF results
<1>6. StoreOK'
    BY <1>3, <1>4, <1>5, HandlerNow DEF StoreOK
<1>7. Flight'
    BY <1>1, FlightStep DEF IInv
<1>8. Fresh'
    <2>1. \A g \in Handlers : PageCalls(me[g])' = PageCalls(me'[g])
        BY DEF PageCalls
    <2>2. \A c : Result(c, FALSE)' = Result(c, FALSE)
        BY DEF Result
    <2>3. \A g \in Handlers \ {h} : PageCalls(me'[g]) = PageCalls(me[g])
        BY <1>1 DEF OnlyMoves
    <2>4. \A c \in Calls : Result(c, FALSE) \in pushed' \/ c \in proposed' => decision'[c] # "unknown"
        BY <1>3, <1>4, <1>5 DEF IInv, Fresh
    <2>5. \A c \in proposed' : Result(c, FALSE) \notin pushed'
        BY <1>4, <1>5 DEF IInv, Fresh
    <2>6. \A g \in Handlers : \A c \in PageCalls(me'[g]) :
              decision'[c] # "unknown" /\ Result(c, FALSE) \notin pushed' /\ c \notin proposed'
        <3>1. \A c \in left : decision'[c] # "unknown" /\ Result(c, FALSE) \notin pushed'
                              /\ c \notin proposed'
            BY <1>3, <1>4, <1>5
        <3>2. ASSUME NEW g \in Handlers \ {h}, NEW c \in PageCalls(me[g])
              PROVE  decision'[c] # "unknown" /\ Result(c, FALSE) \notin pushed'
                     /\ c \notin proposed'
            <4>1. decision[c] # "unknown" /\ Result(c, FALSE) \notin pushed /\ c \notin proposed
                BY DEF IInv, Fresh
            <4> QED
                BY <1>3, <1>4, <1>5, <4>1
        <3> QED
            BY <1>2, <2>3, <3>1, <3>2
    <2>7. \A f, g \in Handlers : f # g => PageCalls(me'[f]) \cap PageCalls(me'[g]) = {}
        BY <1>2, <2>3 DEF IInv, Fresh
    <2> QED
        BY <2>1, <2>2, <2>4, <2>5, <2>6, <2>7 DEF Fresh
<1>9. DecisionsKept
    BY <1>3 DEF DecisionsKept
<1>10. Grants'
    <2>1. \A g \in Handlers : GrantOf(me'[g]) \subseteq GrantOf(me[g])
        BY <1>1 DEF GrantOf, OnlyMoves
    <2> QED
        BY <1>3, <1>4, <1>5, <1>9, <2>1, GrantsStay, HandlerNow DEF IInv
<1>11. Kept'
    <2>1. \A g \in Handlers : CarriesOn(g)
        BY <1>1 DEF CarriesOn, OnlyMoves
    <2> QED
        BY <1>4, <2>1, PushKeeps DEF results
<1>12. Stopped'
    <2>1. \A c \in ended' : decision'[c] # "unknown" /\ c \notin proposed'
        BY <1>3 DEF IInv, Stopped
    <2>2. generation' \in Nat
        BY <1>3, HandlerNow, RunLoopAssumption DEF StoreOK
    <2>3. ASSUME NEW g \in Handlers, me'[g].at = "page"
          PROVE  /\ me'[g].on \notin ended'
                 /\ me'[g].began <= generation'
                 /\ me'[g].began = generation' => me'[g].todo \cap ended' = {}
        <3>1. CASE g = h
            BY <1>2, <1>3, <2>2, <2>3, <3>1
        <3>2. CASE g # h
            BY <1>1, <1>3, <2>3, <3>2 DEF OnlyMoves, IInv, Stopped
        <3> QED
            BY <3>1, <3>2
    <2> QED
        BY <2>1, <2>3 DEF Stopped
<1>13. Owed'
    BY <1>1 DEF Owed, Bearer, InExchange
<1>14. Drained'
    <2>1. \A g \in Handlers :
              /\ me'[g].mine <= generation
              /\ me'[g].at \in InExchange <=> me[g].at \in InExchange
              /\ me'[g].at \in InExchange => me'[g].kind = me[g].kind
              /\ me[g].at = "drain" => me'[g].at = "drain"
              /\ me'[g].at = "halting" => me[g].at = "halting"
        BY <1>1 DEF IInv, Drained, OnlyMoves, InExchange
    <2> QED
        BY <1>3, <2>1, DrainedStays DEF IInv
<1> QED
    BY <1>1, <1>6, <1>7, <1>8, <1>10, <1>11, <1>12, <1>13, <1>14 DEF IInv, Typed

(* RunCalls, as PageKeeps wants it. *)
LEMMA RunCallsIs ==
    ASSUME IInv, NEW h \in Handlers, NEW cs \in SUBSET Calls, NEW R \in SUBSET Calls,
           RunCalls(h, cs, Unasked(R))
    PROVE  \E refused \in SUBSET cs :
              /\ Push(Unasked(R \cup refused))
              /\ me' = ToCalled(h) \/ NextCall(h, cs \ refused)
<1>1. PICK refused \in SUBSET cs :
         /\ Push(Unasked(R) \cup {Result(c, FALSE) : c \in refused})
         /\ \/ me' = ToCalled(h)
            \/ \E c \in cs \ refused :
                  me' = [me EXCEPT ![h].at = "page", ![h].on = c, ![h].began = generation,
                                   ![h].offered = {}, ![h].todo = cs \ (refused \cup {c})]
    BY DEF RunCalls
<1>2. Unasked(R) \cup {Result(c, FALSE) : c \in refused} = Unasked(R \cup refused)
    BY UnaskedUnion DEF Unasked
<1>3. ASSUME NEW c \in cs \ refused,
             me' = [me EXCEPT ![h].at = "page", ![h].on = c, ![h].began = generation,
                              ![h].offered = {}, ![h].todo = cs \ (refused \cup {c})]
      PROVE  NextCall(h, cs \ refused)
    <2>1. cs \ (refused \cup {c}) = (cs \ refused) \ {c}
        OBVIOUS
    <2>2. me' = [me EXCEPT ![h] = [me[h] EXCEPT !.at = "page", !.on = c, !.began = generation,
                                       !.offered = {}, !.todo = (cs \ refused) \ {c}]]
        BY <1>3, <2>1, HandlerNow DEF MeOK
    <2> QED
        BY <2>2 DEF NextCall
<1> QED
    BY <1>1, <1>2, <1>3

LEMMA FinishedKeeps == ASSUME IInv, NEW h \in Handlers, Finished(h) PROVE IInv'
<1>1. me[h].at = "stream" /\ proposed \in SUBSET Calls /\ {} \in SUBSET Calls
    BY HandlerNow DEF Finished, Streams, StoreOK
<1>2. Unasked({}) = {}
    BY DEF Unasked
<1>3. RunCalls(h, proposed, Unasked({}))
    BY <1>2 DEF Finished
<1>4. PICK refused \in SUBSET proposed :
         /\ Push(Unasked({} \cup refused))
         /\ me' = ToCalled(h) \/ NextCall(h, proposed \ refused)
    BY <1>1, <1>3, RunCallsIs
<1>5. {} \cup refused = refused
    OBVIOUS
<1>6. \A c \in refused \cup (proposed \ refused) :
         /\ decision[c] # "unknown" /\ Result(c, FALSE) \notin pushed /\ c \notin proposed'
         /\ \A g \in Handlers \ {h} : c \notin PageCalls(me[g])
    BY <1>1 DEF IInv, Fresh, Finished
<1>7. (proposed \ refused) \cap ended = {} /\ proposed' \subseteq proposed
    BY DEF IInv, Stopped, Finished
<1>8. working' \in BOOLEAN /\ (working => working')
    BY HandlerNow DEF Finished, StoreOK
<1>9. refused \in SUBSET Calls /\ proposed \ refused \in SUBSET Calls
    BY <1>1
<1>10. UNCHANGED <<stops, talk, stack, world, rode, excused>>
    BY DEF Finished
<1>11. inFlight' \in {None, inFlight} /\ inFlight' # h
    BY LandKeeps DEF Finished
<1>12. me' = ToCalled(h) \/ ((proposed \ refused) \cap ended = {} /\ NextCall(h, proposed \ refused))
    BY <1>4, <1>7
<1>13. Push(Unasked(refused)) /\ refused \cap (proposed \ refused) = {}
    BY <1>4, <1>5
<1>14. PICK told \in SUBSET Calls, left \in SUBSET Calls : told = refused /\ left = proposed \ refused
    BY <1>9
<1> QED
    BY <1>1, <1>6, <1>7, <1>8, <1>10, <1>11, <1>12, <1>13, <1>14, PageKeeps

LEMMA PageAnswersKeeps == ASSUME IInv, NEW h \in Handlers, PageAnswers(h) PROVE IInv'
<1> DEFINE on == me[h].on
           todo == me[h].todo
<1>1. me[h].at = "page" /\ on \in Calls /\ todo \in SUBSET Calls /\ on \notin todo
    BY HandlerNow DEF PageAnswers, Shape, Locals
<1>2. PICK told \in SUBSET Calls, left \in SUBSET Calls :
         /\ told \cap left = {} /\ told \cup left = {on} \cup todo
         /\ Push(Unasked(told))
         /\ me' = ToCalled(h) \/ (left \cap ended = {} /\ NextCall(h, left))
    <2>1. CASE me[h].began = generation /\ RunCalls(h, todo, {Result(on, FALSE)})
        <3>1. {Result(on, FALSE)} = Unasked({on}) /\ {on} \in SUBSET Calls
            BY <1>1 DEF Unasked
        <3>5. RunCalls(h, todo, Unasked({on}))
            BY <2>1, <3>1
        <3>2. PICK refused \in SUBSET todo :
                 /\ Push(Unasked({on} \cup refused))
                 /\ me' = ToCalled(h) \/ NextCall(h, todo \ refused)
            BY <1>1, <3>1, <3>5, RunCallsIs
        <3>3. (todo \ refused) \cap ended = {}
            BY <1>1, <2>1 DEF IInv, Stopped
        <3>4. /\ ({on} \cup refused) \cap (todo \ refused) = {}
              /\ ({on} \cup refused) \cup (todo \ refused) = {on} \cup todo
              /\ {on} \cup refused \in SUBSET Calls /\ todo \ refused \in SUBSET Calls
            BY <1>1
        <3> QED
            BY <3>2, <3>3, <3>4
    <2>2. CASE Push({Result(c, FALSE) : c \in {on} \cup todo}) /\ me' = ToCalled(h)
        <3>1. /\ ({on} \cup todo) \cap {} = {} /\ ({on} \cup todo) \cup {} = {on} \cup todo
              /\ {on} \cup todo \in SUBSET Calls /\ {} \in SUBSET Calls
            BY <1>1
        <3>2. Push(Unasked({on} \cup todo))
            BY <2>2 DEF Unasked
        <3> QED
            BY <2>2, <3>1, <3>2
    <2> QED
        BY <2>1, <2>2 DEF PageAnswers
<1>3. UNCHANGED <<stops, inFlight, proposed, talk, stack, world, rode, excused>>
    BY DEF PageAnswers, turn
<1>4. \A c \in told \cup left :
         /\ decision[c] # "unknown" /\ Result(c, FALSE) \notin pushed /\ c \notin proposed'
         /\ \A g \in Handlers \ {h} : c \notin PageCalls(me[g])
    <2>1. told \cup left = PageCalls(me[h])
        BY <1>1, <1>2 DEF PageCalls
    <2> QED
        BY <1>3, <2>1 DEF IInv, Fresh
<1>5. inFlight' \in {None, inFlight} /\ inFlight' # h
    BY <1>1, <1>3, RunLoopAssumption DEF IInv, Flight, Requesting
<1>6. working' \in BOOLEAN /\ (working => working')
    <2>1. working' = TRUE \/ working' = working
        BY DEF PageAnswers
    <2>2. working' \in BOOLEAN
        BY <2>1, HandlerNow DEF StoreOK
    <2>3. working => working'
        BY <2>1
    <2> QED
        BY <2>2, <2>3
<1> QED
    BY <1>1, <1>2, <1>3, <1>4, <1>5, <1>6, PageKeeps

LEMMA DecisionResolvedKeeps ==
    ASSUME IInv, NEW h \in Handlers, NEW c \in Calls, DecisionResolved(h, c) PROVE IInv'
<1>1. /\ cards' \subseteq cards
      /\ UNCHANGED <<working, turn, talk, viaOf, answering, answered, world, answers, me>>
    BY DEF DecisionResolved
<1>2. StoreOK' /\ DecisionsKept
    BY <1>1, HandlerNow DEF StoreOK, turn, stops, talk, world, answers, DecisionsKept
<1>3. Grants'
    BY <1>1, <1>2, GrantsStay DEF IInv, Typed, world, answers
<1> QED
    BY <1>1, <1>2, <1>3, StillKeeps

LEMMA ExchangeKeeps == ASSUME IInv, NEW h \in Handlers, Exchange(h) PROVE IInv'
BY PublishedKeeps, PublishFailsKeeps, AbortedKeeps, CapturedKeeps, AcceptedKeeps,
   ThreadBusyKeeps, RetryKeeps, RefusedKeeps, BrokenKeeps, EndOfBodyKeeps, CalledKeeps,
   TurnErrorKeeps, FinishedKeeps, PageAnswersKeeps, ToolCallKeeps, GateKeeps,
   DecisionRequestedKeeps, DecisionResolvedKeeps, ToolResultKeeps DEF Exchange

------------------------------------------------------------------------------
(* Cards *)

(* A step of a walk.  An answer that it adds is carried when it is over.   *)
LEMMA WalkKeeps ==
    ASSUME IInv, NEW h \in Handlers, NEW r \in Locals, Shape(r), me' = [me EXCEPT ![h] = r],
           me[h].at \in Walk, r.at \in Walk, r.mine = me[h].mine,
           Carries(me[h]) => Carries(r), outstanding' = outstanding \/ Carries(r),
           \A c \in Calls : Result(c, FALSE) \in pushed' => Result(c, FALSE) \in pushed,
           StoreOK', Grants', Kept', DecisionsKept, working => working',
           UNCHANGED <<turn, talk, excused>>
    PROVE  IInv'
<1>1. MeOK' /\ OnlyMoves(h) /\ me'[h] = r
    BY Moved, HandlerNow
<1>2. UNCHANGED <<generation, ended, inFlight, proposed, waiting, queued, via>>
    BY DEF turn, stops, talk
<1>3. Flight'
    BY <1>1, <1>2, FlightStep, RunLoopAssumption DEF IInv, Flight, Walk, Requesting
<1>4. Fresh'
    <2>1. \A g \in Handlers : PageCalls(me'[g]) \subseteq PageCalls(me[g])
        BY <1>1 DEF OnlyMoves, PageCalls, Walk
    <2> QED
        BY <1>2, <2>1, FreshStays, HandlerNow DEF IInv
<1>5. Stopped'
    <2>1. \A g \in Handlers : me'[g].at = "page" => me'[g] = me[g]
        BY <1>1 DEF OnlyMoves, Walk
    <2> QED
        BY <1>2, <2>1, StoppedStays, HandlerNow DEF IInv
<1>6. Owed'
    <2>1. Bearer(me[h]) => Bearer(r)
        BY DEF Bearer, InExchange, Walk
    <2>2. Carries(r) => Bearer(r)
        BY DEF Bearer
    <2>3. \A g \in Handlers : Bearer(me[g]) => Bearer(me'[g])
        BY <1>1, <2>1 DEF OnlyMoves
    <2>4. \A g \in Handlers : Bearer(me[g])' = Bearer(me'[g])
        BY DEF Bearer, Carries
    <2> QED
        BY <1>1, <2>2, <2>3, <2>4 DEF IInv, Owed
<1>7. Drained'
    <2>1. \A g \in Handlers :
              /\ me'[g].mine <= generation
              /\ me'[g].at \in InExchange <=> me[g].at \in InExchange
              /\ me'[g].at \in InExchange => me'[g].kind = me[g].kind
              /\ me[g].at = "drain" => me'[g].at = "drain"
              /\ me'[g].at = "halting" => me[g].at = "halting"
        BY <1>1 DEF IInv, Drained, OnlyMoves, InExchange, Walk
    <2> QED
        BY <1>2, <2>1, DrainedStays DEF IInv
<1> QED
    BY <1>1, <1>3, <1>4, <1>5, <1>6, <1>7 DEF IInv, Typed

(* A handler at a row, after a row of its walk. *)
LEMMA RowBehind ==
    ASSUME IInv, NEW h \in Handlers, me[h].at \in Walk, me[h].rows # <<>>, NEW r,
           r.at = "row", r.carried = me[h].carried, r.todo = me[h].todo, r.kind = me[h].kind,
           r.rows \in {<<>>, Tail(me[h].rows)}, r.yes \subseteq me[h].yes
    PROVE  Shape(r) /\ r.rows \in Seq(Calls) /\ r.yes \subseteq Calls
<1>1. me[h] \in Locals /\ Shape(me[h]) /\ me[h].rows \in Seq(Calls) /\ me[h].yes \in SUBSET Calls
    BY HandlerNow DEF Locals
<1>2. r.rows \in Seq(Calls) /\ (Len(me[h].rows) <= 1 => r.rows = <<>>)
    <2>1. CASE r.rows = <<>>
        BY <2>1, EmptySeq
    <2>2. CASE r.rows = Tail(me[h].rows)
        <3>1. r.rows \in Seq(Calls) /\ Len(r.rows) = Len(me[h].rows) - 1
            BY <1>1, <2>2, HeadTailProperties
        <3> QED
            BY <1>1, <3>1, EmptySeq, LenProperties
    <2> QED
        BY <2>1, <2>2
<1>3. /\ me[h].carried = {} /\ me[h].todo = {} /\ me[h].kind \in Walkers
      /\ me[h].kind = "reask" => me[h].yes = {}
      /\ me[h].kind = "answer" => Len(me[h].rows) <= 1
    BY <1>1 DEF Shape, Walk, Requesting
<1>4. Shape(r)
    BY <1>2, <1>3 DEF Shape, Requesting, Walk, Running
<1> QED
    BY <1>1, <1>2, <1>4

(* Past *)
LEMMA PastNow ==
    ASSUME IInv, NEW h \in Handlers, me[h].at \in Walk, me[h].rows # <<>>,
           NEW ok \in BOOLEAN, me' = Past(h, ok)
    PROVE  \E r \in Locals :
              /\ Shape(r) /\ me' = [me EXCEPT ![h] = r] /\ r.at = "row" /\ r.carried = {}
              /\ r.mine = me[h].mine /\ (Carries(me[h]) <=> Carries(r))
<1>1. me[h] \in Locals
    BY HandlerNow
<1>2. PICK rows \in {<<>>, Tail(me[h].rows)}, yes \in SUBSET me[h].yes :
         /\ rows = IF ok THEN Tail(me[h].rows) ELSE <<>>
         /\ yes = IF ok THEN me[h].yes \ {Row(h)} ELSE {}
    OBVIOUS
<1> DEFINE r == [me[h] EXCEPT !.at = "row", !.began = 0, !.rows = rows, !.yes = yes]
<1>3. me' = [me EXCEPT ![h] = r]
    BY <1>2, HandlerNow DEF Past, MeOK
<1>4. /\ r.at = "row" /\ r.carried = me[h].carried /\ r.todo = me[h].todo
      /\ r.kind = me[h].kind /\ r.rows = rows /\ r.yes = yes
      /\ r.mine = me[h].mine /\ r.took = me[h].took
    BY <1>1 DEF Locals
<1>5. rows \in Seq(Calls) /\ yes \in SUBSET Calls => r \in Locals
    BY <1>1 DEF Locals, Places, Walk
<1> HIDE DEF r
<1>6. Shape(r) /\ r.rows \in Seq(Calls) /\ r.yes \subseteq Calls
    BY <1>4, RowBehind
<1>7. r.carried = {}
    BY <1>1, <1>4, HandlerNow DEF Shape, Walk, Requesting
<1>8. Carries(me[h]) <=> Carries(r)
    BY <1>4 DEF Carries
<1> QED
    BY <1>3, <1>4, <1>5, <1>6, <1>7, <1>8

LEMMA RowCall ==
    ASSUME IInv, NEW h \in Handlers, me[h].rows # <<>> PROVE Row(h) \in Calls
<1>1. me[h].rows \in Seq(Calls)
    BY HandlerNow DEF Locals
<1> QED
    BY <1>1, HeadTailProperties DEF Row

(* A step of a walk that adds no answer, and grants nothing.               *)
LEMMA WalkOn ==
    ASSUME IInv, NEW h \in Handlers, NEW r \in Locals, Shape(r), me' = [me EXCEPT ![h] = r],
           me[h].at \in Walk, r.at \in Walk, r.mine = me[h].mine, GrantOf(r) \subseteq GrantOf(me[h]),
           Carries(me[h]) => Carries(r), StoreOK', DecisionsKept, working => working',
           UNCHANGED <<turn, talk, bus, answers>>
    PROVE  IInv'
<1>1. MeOK' /\ OnlyMoves(h) /\ me'[h] = r
    BY Moved, HandlerNow
<1>2. UNCHANGED <<outstanding, pushed, rode, excused>>
    BY DEF answers
<1>3. Grants'
    <2>1. \A g \in Handlers : GrantOf(me'[g]) \subseteq GrantOf(me[g])
        BY <1>1 DEF OnlyMoves
    <2> QED
        BY <1>2, <2>1, GrantsStay, HandlerNow DEF IInv
<1>4. me[h].carried = {} /\ r.carried = {}
    BY HandlerNow DEF Shape, Walk, Requesting
<1>5. Kept'
    <2>1. \A g \in Handlers : CarriesOn(g)
        BY <1>1, <1>4 DEF CarriesOn, OnlyMoves, Walk
    <2> QED
        BY <1>2, <2>1, KeptStays DEF IInv
<1> QED
    BY <1>2, <1>3, <1>5, WalkKeeps

(* The walk passes a row that was not granted. *)
LEMMA PastKeeps ==
    ASSUME IInv, NEW h \in Handlers, me[h].at \in Walk, me[h].rows # <<>>,
           NEW ok \in BOOLEAN, me' = Past(h, ok), StoreOK', DecisionsKept, working => working',
           UNCHANGED <<turn, talk, bus, answers>>
    PROVE  IInv'
<1>1. PICK r \in Locals :
         /\ Shape(r) /\ me' = [me EXCEPT ![h] = r] /\ r.at = "row"
         /\ r.mine = me[h].mine /\ (Carries(me[h]) <=> Carries(r))
    BY PastNow
<1>2. GrantOf(r) \subseteq GrantOf(me[h]) /\ r.at \in Walk
    BY <1>1 DEF GrantOf, Walk
<1> QED
    BY <1>1, <1>2, WalkOn

LEMMA AskDaemonKeeps == ASSUME IInv, NEW h \in Handlers, AskDaemon(h) PROVE IInv'
<1>1. me[h].at = "row" /\ me[h].at \in Walk /\ me[h].rows # <<>> /\ Row(h) \in Calls
    BY RowCall DEF AskDaemon, Walking, Walk
<1>2. StoreOK'
    <2>1. answering' = answering \/ answering' = answering \cup {Row(h)}
        BY DEF AskDaemon
    <2> QED
        BY <1>1, <2>1, HandlerNow DEF AskDaemon, StoreOK, turn, stops, talk, world, answers
<1>3. DecisionsKept /\ UNCHANGED <<working, turn, talk, bus, answers>>
    BY DEF AskDaemon, world, DecisionsKept
<1>4. CASE me' = Past(h, Row(h) \notin me[h].yes)
    BY <1>1, <1>2, <1>3, <1>4, PastKeeps
<1>5. CASE me' = [me EXCEPT ![h].at = "resolve"]
    <2> DEFINE r == [me[h] EXCEPT !.at = "resolve"]
    <2>1. me[h] \in Locals /\ me' = [me EXCEPT ![h] = r]
        BY <1>5, HandlerNow DEF MeOK
    <2>2. r \in Locals
        BY <2>1 DEF Locals, Places, Walk
    <2>3. /\ r.at = "resolve" /\ r.carried = me[h].carried /\ r.todo = me[h].todo
          /\ r.kind = me[h].kind /\ r.rows = me[h].rows /\ r.yes = me[h].yes
          /\ r.mine = me[h].mine /\ r.took = me[h].took
        BY <2>1 DEF Locals
    <2> HIDE DEF r
    <2>4. Shape(r)
        BY <1>1, <2>3, HandlerNow DEF Shape, Requesting, Walk, Running
    <2>5. Carries(me[h]) => Carries(r)
        BY <2>3 DEF Carries
    <2>6. GrantOf(r) \subseteq GrantOf(me[h]) /\ r.at \in Walk
        BY <2>3 DEF GrantOf, Walk
    <2> QED
        BY <1>1, <1>2, <1>3, <2>1, <2>2, <2>3, <2>4, <2>5, <2>6, WalkOn
<1> QED
    BY <1>4, <1>5 DEF AskDaemon

(* What a decision may become when the daemon takes an answer. *)
LEMMA Decided ==
    ASSUME IInv, NEW c \in Calls, decision[c] = "pending", NEW status \in {"approved", "declined"},
           decision' = [decision EXCEPT ![c] = status]
    PROVE  /\ decision' \in [Calls -> {"unknown", "proposed", "pending", "done", "approved", "declined"}]
           /\ DecisionsKept /\ decision'[c] = status
BY DEF IInv, Typed, StoreOK, DecisionsKept

LEMMA NotResolvedKeeps == ASSUME IInv, NEW h \in Handlers, NotResolved(h) PROVE IInv'
<1>1. me[h].at = "resolve" /\ me[h].at \in Walk /\ me[h].rows # <<>>
    BY HandlerNow DEF NotResolved, Shape, Walk
<1> DEFINE c == Row(h)
<1>2. c \in Calls
    BY <1>1, RowCall
<1>3. \/ decision' = decision
      \/ \E status \in {"approved", "declined"} :
            decision[c] = "pending" /\ decision' = [decision EXCEPT ![c] = status]
    BY DEF NotResolved
<1> HIDE DEF c
<1>4. /\ decision' \in [Calls -> {"unknown", "proposed", "pending", "done", "approved", "declined"}]
      /\ DecisionsKept
    <2>1. CASE decision' = decision
        BY <2>1, HandlerNow DEF StoreOK, DecisionsKept
    <2>2. CASE \E status \in {"approved", "declined"} :
                  decision[c] = "pending" /\ decision' = [decision EXCEPT ![c] = status]
        BY <1>2, <2>2, Decided
    <2> QED
        BY <1>3, <2>1, <2>2
<1>5. cards' \subseteq cards /\ answering' \subseteq answering
    BY DEF NotResolved
<1>6. UNCHANGED <<working, turn, talk, viaOf, answered, bus, listed, answers>>
    BY DEF NotResolved
<1>7. StoreOK'
    BY <1>4, <1>5, <1>6, HandlerNow DEF StoreOK, turn, stops, talk, answers
<1>8. PICK ok \in BOOLEAN : me' = Past(h, ok)
    BY DEF NotResolved
<1> QED
    BY <1>1, <1>4, <1>6, <1>7, <1>8, PastKeeps

LEMMA ContractAcceptedKeeps == ASSUME IInv, NEW h \in Handlers, ContractAccepted(h) PROVE IInv'
<1>1. me[h].at \in Walk /\ me[h].rows # <<>>
    BY HandlerNow DEF ContractAccepted, Shape, Walk
<1>2. working' \in BOOLEAN /\ (working => working')
    BY HandlerNow DEF ContractAccepted, StoreOK
<1>3. UNCHANGED <<turn, talk, stack, world, answers>> /\ me' = Past(h, TRUE)
    BY DEF ContractAccepted
<1>4. StoreOK' /\ DecisionsKept
    BY <1>2, <1>3, HandlerNow DEF StoreOK, turn, stops, talk, stack, world, answers, DecisionsKept
<1> QED
    BY <1>1, <1>2, <1>3, <1>4, PastKeeps DEF world

(* A card is granted that nobody was granted before.                       *)
LEMMA GrantsTaken ==
    ASSUME IInv, NEW h \in Handlers, OnlyMoves(h), NEW c \in Calls, GrantOf(me'[h]) = {c},
           decision'[c] = "approved", c \notin bus', Result(c, TRUE) \notin pushed,
           \A g \in Handlers : c \notin GrantOf(me[g]),
           bus' \subseteq bus, UNCHANGED pushed, DecisionsKept
    PROVE  Grants'
<1>1. \A g \in Handlers : GrantOf(me[g])' = GrantOf(me'[g])
    BY DEF GrantOf
<1>2. \A d : Result(d, TRUE)' = Result(d, TRUE)
    BY DEF Result
<1>3. \A g \in Handlers \ {h} : GrantOf(me'[g]) = GrantOf(me[g])
    BY DEF OnlyMoves
<1>4. \A g \in Handlers : GrantOf(me[g]) \subseteq Calls
    BY HeadTailProperties, HandlerNow DEF GrantOf, MeOK, Shape, Locals, Walk
<1>5. \A d \in bus' : decision'[d] \in {"approved", "declined"}
    BY HandlerNow DEF IInv, Grants, DecisionsKept, StoreOK
<1>6. \A d \in Calls : Result(d, TRUE) \in pushed' => decision'[d] = "approved" /\ d \notin bus'
    BY DEF IInv, Grants, DecisionsKept
<1>7. ASSUME NEW g \in Handlers, NEW d \in GrantOf(me'[g])
      PROVE  decision'[d] = "approved" /\ d \notin bus' /\ Result(d, TRUE) \notin pushed'
    <2>1. CASE g = h
        BY <1>7, <2>1
    <2>2. CASE g # h
        <3>1. d \in GrantOf(me[g]) /\ d \in Calls
            BY <1>3, <1>4, <1>7, <2>2
        <3> QED
            BY <3>1 DEF IInv, Grants, DecisionsKept
    <2> QED
        BY <2>1, <2>2
<1>8. \A f, g \in Handlers : f # g => GrantOf(me'[f]) \cap GrantOf(me'[g]) = {}
    BY <1>3 DEF IInv, Grants
<1> QED
    BY <1>1, <1>2, <1>5, <1>6, <1>7, <1>8 DEF Grants

LEMMA ResolvedKeeps == ASSUME IInv, NEW h \in Handlers, Resolved(h) PROVE IInv'
<1>1. me[h].at = "resolve" /\ me[h].at \in Walk /\ me[h].rows # <<>> /\ me[h] \in Locals /\ Shape(me[h])
    BY HandlerNow DEF Resolved, Shape, Walk
<1>2. PICK c \in Calls : c = Row(h)
    BY <1>1, RowCall
<1>3. decision[c] = "pending" /\ UNCHANGED <<working, turn, talk, viaOf, bus, listed, answers>>
    BY <1>2 DEF Resolved
<1>4. PICK status \in {"approved", "declined"} :
         /\ decision' = [decision EXCEPT ![c] = status]
         /\ c \in me[h].yes <=> status = "approved"
    BY <1>2 DEF Resolved
<1>5. /\ decision' \in [Calls -> {"unknown", "proposed", "pending", "done", "approved", "declined"}]
      /\ DecisionsKept /\ decision'[c] = status
    BY <1>3, <1>4, Decided
<1>6. StoreOK'
    <2>1. cards' \subseteq cards /\ answering' \subseteq answering /\ answered' = answered \cup {c}
        BY <1>2 DEF Resolved
    <2> QED
        BY <1>3, <1>5, <2>1, HandlerNow DEF StoreOK, turn, stops, talk, answers
<1>7. Counts(h) \in BOOLEAN /\ (me[h].kind = "answer" /\ c \in me[h].yes => Counts(h))
    BY DEF Counts
<1>8. me[h].kind = "answer" => ~me[h].took
    BY <1>1 DEF Shape, Walk, Running
<1>9. CASE c \in me[h].yes /\ me' = [me EXCEPT ![h].at = "granted", ![h].took = Counts(h)]
    <2> DEFINE r == [me[h] EXCEPT !.at = "granted", !.took = Counts(h)]
    <2>1. me' = [me EXCEPT ![h] = r]
        BY <1>9, HandlerNow DEF MeOK
    <2>2. r \in Locals
        BY <1>1, <1>7 DEF Locals, Places, Walk
    <2>3. /\ r.at = "granted" /\ r.carried = me[h].carried /\ r.todo = me[h].todo
          /\ r.kind = me[h].kind /\ r.rows = me[h].rows /\ r.yes = me[h].yes
          /\ r.mine = me[h].mine /\ r.took = Counts(h)
        BY <1>1 DEF Locals
    <2> HIDE DEF r
    <2>4. me[h].kind # "reask" /\ me[h].kind \in Walkers
        BY <1>1, <1>9 DEF Shape
    <2>5. Carries(r)
        BY <1>7, <1>9, <2>3, <2>4 DEF Carries, Walkers
    <2>6. Shape(r)
        BY <1>1, <2>3, <2>4, <2>5 DEF Shape, Requesting, Walk, Running
    <2>7. MeOK' /\ OnlyMoves(h) /\ me'[h] = r
        BY <2>1, <2>2, <2>6, Moved, HandlerNow
    <2>8. UNCHANGED <<outstanding, pushed, rode, excused>>
        BY <1>3 DEF answers
    <2>9. Grants'
        <3>1. /\ c \notin bus /\ Result(c, TRUE) \notin pushed
              /\ \A g \in Handlers : c \notin GrantOf(me[g])
            BY <1>3 DEF IInv, Grants
        <3>2. GrantOf(me'[h]) = {c} /\ decision'[c] = "approved"
            BY <1>2, <1>4, <1>5, <1>9, <2>3, <2>7 DEF GrantOf, Row
        <3> QED
            BY <1>3, <1>5, <2>7, <2>8, <3>1, <3>2, GrantsTaken
    <2>10. me[h].carried = {} /\ r.carried = {}
        BY <1>1, <2>3 DEF Shape, Walk, Requesting
    <2>11. Kept'
        <3>1. \A g \in Handlers : CarriesOn(g)
            BY <1>1, <2>3, <2>7, <2>10 DEF CarriesOn, OnlyMoves
        <3> QED
            BY <2>8, <3>1, KeptStays DEF IInv
    <2>12. r.at \in Walk
        BY <2>3 DEF Walk
    <2> QED
        BY <1>1, <1>3, <1>5, <1>6, <2>1, <2>2, <2>3, <2>5, <2>6, <2>8, <2>9, <2>11, <2>12, WalkKeeps
<1>10. CASE c \notin me[h].yes /\ me' = [Past(h, TRUE) EXCEPT ![h].took = Counts(h)]
    <2> DEFINE rows == Tail(me[h].rows)
               yes == me[h].yes \ {c}
               r == [me[h] EXCEPT !.at = "row", !.began = 0, !.rows = rows, !.yes = yes,
                                  !.took = Counts(h)]
    <2>1. me' = [me EXCEPT ![h] = r]
        BY <1>2, <1>10, HandlerNow DEF MeOK, Past
    <2>2. rows \in Seq(Calls) /\ yes \in SUBSET Calls => r \in Locals
        BY <1>1, <1>7 DEF Locals, Places, Walk
    <2>3. /\ r.at = "row" /\ r.carried = me[h].carried /\ r.todo = me[h].todo
          /\ r.kind = me[h].kind /\ r.rows = rows /\ r.yes = yes
          /\ r.mine = me[h].mine /\ r.took = Counts(h)
        BY <1>1 DEF Locals
    <2>4. rows \in {<<>>, Tail(me[h].rows)} /\ yes \subseteq me[h].yes
        OBVIOUS
    <2> HIDE DEF r, rows, yes
    <2>5. Shape(r) /\ r.rows \in Seq(Calls) /\ r.yes \subseteq Calls
        BY <1>1, <2>3, <2>4, RowBehind
    <2>6. Carries(me[h]) => Carries(r)
        BY <1>8, <2>3 DEF Carries
    <2>7. GrantOf(r) \subseteq GrantOf(me[h]) /\ r.at \in Walk
        BY <2>3 DEF GrantOf, Walk
    <2> QED
        BY <1>1, <1>3, <1>5, <1>6, <2>1, <2>2, <2>3, <2>5, <2>6, <2>7, WalkOn
<1> QED
    BY <1>2, <1>9, <1>10 DEF Resolved

(* A handler whose action ran, or was refused, tells of it.                *)
LEMMA ToldKeeps ==
    ASSUME IInv, NEW h \in Handlers, me[h].at \in {"granted", "acting"},
           NEW r \in Locals, Shape(r), me' = [me EXCEPT ![h] = r], r.at \in {"row", "accept"},
           r.mine = me[h].mine, Carries(me[h]) => Carries(r), Push({Result(Row(h), TRUE)}),
           working' \in BOOLEAN, working => working',
           UNCHANGED <<turn, talk, stack, world, rode, excused>>
    PROVE  IInv'
<1>1. /\ me[h].at \in Walk /\ me[h].rows # <<>> /\ Carries(me[h]) /\ me[h].carried = {}
      /\ r.carried = {} /\ r.at \in Walk
    BY HandlerNow DEF Shape, Walk, Running, Requesting
<1>2. PICK c \in Calls : c = Row(h) /\ GrantOf(me[h]) = {c}
    BY <1>1, RowCall DEF GrantOf, Row
<1>3. PICK results \in SUBSET Answers : results = {Result(c, TRUE)}
    <2>1. Result(c, TRUE) \in Answers
        BY DEF Result, Answers
    <2> QED
        BY <2>1
<1>4. MeOK' /\ OnlyMoves(h) /\ me'[h] = r
    BY Moved, HandlerNow
<1>5. UNCHANGED <<generation, ended, proposed, waiting, queued, via, said, viaOf, cards,
                  answering, answered, decision, bus, listed>>
    BY DEF turn, stops, talk, stack, world
<1>6. outstanding' = outstanding \cup results /\ pushed' = pushed \cup results
    BY <1>2, <1>3 DEF Push
<1>7. /\ results \cap pushed = {}
      /\ \A d : Result(d, FALSE) \notin results
      /\ \A d : Result(d, TRUE) \in results => d = c
    <2>1. \A d : Result(d, FALSE) # Result(c, TRUE)
        BY DEF Result
    <2>2. \A d : Result(d, TRUE) = Result(c, TRUE) => d = c
        BY DEF Result
    <2>3. Result(c, TRUE) \notin pushed
        BY <1>2 DEF IInv, Grants
    <2> QED
        BY <1>3, <2>1, <2>2, <2>3
<1>8. StoreOK'
    BY <1>5, <1>6, HandlerNow DEF StoreOK
<1>9. DecisionsKept
    BY <1>5 DEF DecisionsKept
<1>10. Grants'
    <2>1. /\ \A g \in Handlers \ {h} : GrantOf(me'[g]) = GrantOf(me[g]) /\ c \notin GrantOf(me[g])
          /\ GrantOf(me'[h]) = {}
        BY <1>2, <1>4 DEF IInv, Grants, OnlyMoves, GrantOf
    <2>2. \A g \in Handlers : GrantOf(me[g])' = GrantOf(me'[g])
        BY DEF GrantOf
    <2>3. \A d : Result(d, TRUE)' = Result(d, TRUE)
        BY DEF Result
    <2>4. \A d \in bus' : decision'[d] \in {"approved", "declined"}
        BY <1>5 DEF IInv, Grants
    <2>5. \A d \in Calls : Result(d, TRUE) \in pushed' => decision'[d] = "approved" /\ d \notin bus'
        BY <1>2, <1>5, <1>6, <1>7 DEF IInv, Grants
    <2>6. \A g \in Handlers : \A d \in GrantOf(me'[g]) :
              decision'[d] = "approved" /\ d \notin bus' /\ Result(d, TRUE) \notin pushed'
        BY <1>5, <1>6, <1>7, <2>1 DEF IInv, Grants
    <2>7. \A f, g \in Handlers : f # g => GrantOf(me'[f]) \cap GrantOf(me'[g]) = {}
        BY <2>1 DEF IInv, Grants
    <2> QED
        BY <2>2, <2>3, <2>4, <2>5, <2>6, <2>7 DEF Grants
<1>11. Kept'
    <2>1. \A g \in Handlers : CarriesOn(g)
        BY <1>1, <1>4 DEF CarriesOn, OnlyMoves, Walk
    <2>2. Push(results)
        BY <1>2, <1>3
    <2> QED
        BY <1>7, <2>1, <2>2, PushKeeps
<1>12. \A d \in Calls : Result(d, FALSE) \in pushed' => Result(d, FALSE) \in pushed
    BY <1>6, <1>7
<1> QED
    BY <1>1, <1>8, <1>9, <1>10, <1>11, <1>12, WalkKeeps

(* A handler goes on to the next place of its action. *)
LEMMA GoesOn ==
    ASSUME IInv, NEW h \in Handlers, me[h].at \in {"granted", "acting"},
           NEW at \in {"acting", "accept"}, NEW began \in Nat,
           me' = [me EXCEPT ![h] = [me[h] EXCEPT !.at = at, !.began = began]]
    PROVE  \E r \in Locals :
              /\ Shape(r) /\ me' = [me EXCEPT ![h] = r] /\ r.at = at
              /\ r.mine = me[h].mine /\ r.rows = me[h].rows /\ (Carries(me[h]) => Carries(r))
<1> DEFINE r == [me[h] EXCEPT !.at = at, !.began = began]
<1>1. me[h] \in Locals /\ Shape(me[h])
    BY HandlerNow
<1>2. r \in Locals
    BY <1>1 DEF Locals, Places, Walk
<1>3. /\ r.at = at /\ r.carried = me[h].carried /\ r.todo = me[h].todo
      /\ r.kind = me[h].kind /\ r.rows = me[h].rows /\ r.yes = me[h].yes
      /\ r.mine = me[h].mine /\ r.took = me[h].took
    BY <1>1 DEF Locals
<1> HIDE DEF r
<1>4. Carries(me[h]) <=> Carries(r)
    BY <1>3 DEF Carries
<1>5. Shape(r)
    BY <1>1, <1>3, <1>4 DEF Shape, Requesting, Walk, Running
<1> QED
    BY <1>2, <1>3, <1>4, <1>5 DEF r

LEMMA GrantedKeeps == ASSUME IInv, NEW h \in Handlers, Granted(h) PROVE IInv'
<1>1. me[h].at = "granted" /\ me[h].at \in Walk /\ me[h].rows # <<>>
    BY HandlerNow DEF Granted, Shape, Walk
<1>2. UNCHANGED <<turn, talk, stack, world, rode, excused>>
    BY DEF Granted
<1>3. CASE /\ Push({Result(Row(h), TRUE)}) /\ UNCHANGED working
           /\ \E ok \in BOOLEAN : me' = Past(h, ok)
    <2>1. PICK r \in Locals :
             /\ Shape(r) /\ me' = [me EXCEPT ![h] = r] /\ r.at = "row"
             /\ r.mine = me[h].mine /\ (Carries(me[h]) <=> Carries(r))
        BY <1>1, <1>3, PastNow
    <2>2. working' \in BOOLEAN /\ (working => working')
        BY <1>3, HandlerNow DEF StoreOK
    <2> QED
        BY <1>1, <1>2, <1>3, <2>1, <2>2, ToldKeeps
<1>4. CASE /\ me' = [me EXCEPT ![h].at = "acting", ![h].began = generation]
           /\ working' = TRUE /\ UNCHANGED <<outstanding, pushed>>
    <2>1. me' = [me EXCEPT ![h] = [me[h] EXCEPT !.at = "acting", !.began = generation]]
        BY <1>4, HandlerNow DEF MeOK
    <2>2. generation \in Nat
        BY HandlerNow, RunLoopAssumption DEF StoreOK
    <2>3. PICK r \in Locals :
             /\ Shape(r) /\ me' = [me EXCEPT ![h] = r] /\ r.at = "acting" /\ r.mine = me[h].mine
             /\ r.rows = me[h].rows /\ (Carries(me[h]) => Carries(r))
        BY <1>1, <2>1, <2>2, GoesOn
    <2>4. GrantOf(r) \subseteq GrantOf(me[h]) /\ r.at \in Walk
        BY <1>1, <2>3 DEF GrantOf, Walk
    <2>5. StoreOK' /\ DecisionsKept
        BY <1>2, <1>4, HandlerNow DEF StoreOK, turn, stops, talk, stack, world, DecisionsKept
    <2> QED
        BY <1>1, <1>2, <1>4, <2>3, <2>4, <2>5, WalkOn DEF answers, world
<1> QED
    BY <1>3, <1>4 DEF Granted, RunApproved

LEMMA ActingAnswersKeeps == ASSUME IInv, NEW h \in Handlers, ActingAnswers(h) PROVE IInv'
<1>1. me[h].at = "acting" /\ me[h].at \in Walk /\ me[h].rows # <<>>
    BY HandlerNow DEF ActingAnswers, Shape, Walk
<1>2. UNCHANGED <<turn, talk, stack, world, rode, excused>> /\ Push({Result(Row(h), TRUE)})
    BY DEF ActingAnswers
<1>3. PICK r \in Locals :
         /\ Shape(r) /\ me' = [me EXCEPT ![h] = r] /\ r.at \in {"row", "accept"}
         /\ r.mine = me[h].mine /\ (Carries(me[h]) => Carries(r))
    <2>1. CASE me' = [me EXCEPT ![h].at = "accept"]
        <3>1. me[h].began \in Nat
            BY HandlerNow DEF Locals
        <3>2. me' = [me EXCEPT ![h] = [me[h] EXCEPT !.at = "accept", !.began = me[h].began]]
            <4>1. [me[h] EXCEPT !.at = "accept", !.began = me[h].began] = [me[h] EXCEPT !.at = "accept"]
                BY HandlerNow DEF Locals
            <4> QED
                BY <2>1, <4>1, HandlerNow DEF MeOK
        <3> QED
            BY <1>1, <3>1, <3>2, GoesOn
    <2>2. CASE me' = Past(h, FALSE)
        BY <1>1, <2>2, PastNow
    <2> QED
        BY <2>1, <2>2 DEF ActingAnswers
<1>4. working' \in BOOLEAN
    BY HandlerNow DEF ActingAnswers, StoreOK
<1>5. working => working'
    BY DEF ActingAnswers
<1> QED
    BY <1>1, <1>2, <1>3, <1>4, <1>5, ToldKeeps

------------------------------------------------------------------------------
(* Handlers that begin an exchange, and handlers that rest *)

LEMMA BeginNow ==
    ASSUME IInv, NEW h \in Handlers, NEW kind \in {"none", "send", "remote"} \cup Walkers,
           NEW gen \in Nat, Begin(h, kind, gen)
    PROVE  /\ MeOK' /\ OnlyMoves(h) /\ me'[h].at = "publish" /\ me'[h].kind = kind
           /\ me'[h].mine = gen /\ me'[h].carried = {}
<1> DEFINE r == [Free EXCEPT !.at = "publish", !.kind = kind, !.mine = gen]
<1>1. r \in Locals
    BY FreeLocals DEF Locals, Places, InExchange
<1>2. r.at = "publish" /\ r.kind = kind /\ r.mine = gen /\ r.carried = {} /\ r.todo = {}
    BY DEF Free
<1>3. me' = [me EXCEPT ![h] = r]
    BY DEF Begin
<1> HIDE DEF r
<1>4. Shape(r)
    BY <1>2, PlainShape
<1> QED
    BY <1>1, <1>2, <1>3, <1>4, Moved, HandlerNow

(* Until the first stop, an exchange begins only when there is none.       *)
LEMMA BeginKeeps ==
    ASSUME IInv, NEW h \in Handlers, me[h].at \notin InExchange, me[h].carried = {},
           NEW kind \in {"none", "send", "remote"} \cup Walkers, Begin(h, kind, generation),
           generation = 0 => Exchanging = {} /\ (via' # None => kind # "send"),
           UNCHANGED <<turn, stack, world, answers>>, StoreOK'
    PROVE  IInv'
<1>1. generation \in Nat
    BY HandlerNow, RunLoopAssumption DEF StoreOK
<1>2. /\ MeOK' /\ OnlyMoves(h) /\ me'[h].at = "publish" /\ me'[h].kind = kind
      /\ me'[h].mine = generation /\ me'[h].carried = {}
    BY <1>1, BeginNow
<1>3. UNCHANGED <<generation, ended, inFlight, proposed, outstanding, pushed, rode, excused,
                  decision, bus>>
    BY DEF turn, stops, answers, world
<1>4. Flight'
    BY <1>2, <1>3, FlightStep, RunLoopAssumption DEF IInv, Flight, Requesting, InExchange
<1>5. Fresh' /\ Grants' /\ Stopped'
    BY <1>2, <1>3, NoCalls
<1>6. Kept'
    <2>1. \A g \in Handlers : CarriesOn(g)
        BY <1>2 DEF CarriesOn, OnlyMoves, InExchange
    <2> QED
        BY <1>3, <2>1, KeptStays DEF IInv
<1>7. Owed'
    BY <1>2 DEF Owed, Bearer, InExchange
<1>8. Drained'
    <2>1. Exchanging' = Exchanging \cup {h}
        BY <1>2 DEF Exchanging, OnlyMoves, InExchange
    <2>2. \A g \in Handlers : me'[g].mine <= generation' /\ (me'[g].at = "halting" => generation' > 0)
        BY <1>1, <1>2, <1>3 DEF IInv, Drained, OnlyMoves
    <2>3. working'
        BY DEF Begin
    <2> QED
        BY <1>2, <1>3, <2>1, <2>2, <2>3 DEF Drained
<1> QED
    BY <1>2, <1>4, <1>5, <1>6, <1>7, <1>8 DEF IInv, Typed

LEMMA RestNow ==
    ASSUME IInv, NEW h \in Handlers, NEW at \in {"free", "drain", "halting"},
           me' = [me EXCEPT ![h] = [Free EXCEPT !.at = at]]
    PROVE  /\ MeOK' /\ OnlyMoves(h) /\ me'[h].at = at /\ me'[h].mine = 0 /\ me'[h].carried = {}
<1> DEFINE r == [Free EXCEPT !.at = at]
<1>1. r \in Locals
    BY FreeLocals DEF Locals, Places
<1>2. r.at = at /\ r.mine = 0 /\ r.carried = {} /\ r.todo = {}
    BY DEF Free
<1>3. me' = [me EXCEPT ![h] = r]
    OBVIOUS
<1> HIDE DEF r
<1>4. Shape(r)
    BY <1>2, PlainShape
<1> QED
    BY <1>1, <1>2, <1>3, <1>4, Moved, HandlerNow

LEMMA ReturnIsRest ==
    ASSUME NEW h \in Handlers, Return(h)
    PROVE  me' = [me EXCEPT ![h] = [Free EXCEPT !.at = "free"]]
BY DEF Return, Free

(* A handler that has nothing to carry returns, or looks at what waits.    *)
LEMMA RestKeeps ==
    ASSUME IInv, NEW h \in Handlers, me[h].at \notin InExchange, me[h].carried = {},
           NEW at \in {"free", "drain"}, me' = [me EXCEPT ![h] = [Free EXCEPT !.at = at]],
           StoreOK', excused => excused',
           Bearer(me[h]) => excused' \/ outstanding = {} \/ Exchanging # {},
           generation = 0 => /\ working => working'
                             /\ Runnable' # {} => working' \/ \E g \in Handlers : me'[g].at = "drain",
           UNCHANGED <<turn, via, stack, world, outstanding, pushed, rode>>
    PROVE  IInv'
<1>1. /\ MeOK' /\ OnlyMoves(h) /\ me'[h].at = at /\ me'[h].mine = 0 /\ me'[h].carried = {}
    BY RestNow
<1>2. UNCHANGED <<generation, ended, inFlight, proposed, decision, bus>>
    BY DEF turn, stops, world
<1>3. Flight'
    BY <1>1, <1>2, FlightStep, RunLoopAssumption DEF IInv, Flight, Requesting, InExchange
<1>4. Fresh' /\ Grants' /\ Stopped'
    BY <1>1, <1>2, NoCalls
<1>5. Kept'
    <2>1. \A g \in Handlers : CarriesOn(g)
        BY <1>1 DEF CarriesOn, OnlyMoves, InExchange
    <2> QED
        BY <2>1, KeptStays DEF IInv
<1>6. Exchanging' = Exchanging /\ \A g \in Exchanging : me'[g] = me[g]
    BY <1>1 DEF Exchanging, OnlyMoves, InExchange
<1>7. Owed'
    <2>1. \A g : Bearer(me[g])' = Bearer(me'[g])
        BY DEF Bearer, Carries
    <2>2. \A g \in Handlers \ {h} : Bearer(me'[g]) <=> Bearer(me[g])
        BY <1>1 DEF OnlyMoves
    <2>3. \A g \in Exchanging : g \in Handlers /\ Bearer(me'[g])
        BY <1>6 DEF Exchanging, Bearer
    <2> QED
        BY <2>1, <2>2, <2>3 DEF IInv, Owed
<1>8. Drained'
    <2>1. \A g \in Handlers : me'[g].mine <= generation' /\ (me'[g].at = "halting" => generation' > 0)
        BY <1>1, <1>2, HandlerNow, RunLoopAssumption DEF IInv, Drained, OnlyMoves, StoreOK
    <2> QED
        BY <1>2, <1>6, <2>1 DEF IInv, Drained
<1> QED
    BY <1>1, <1>3, <1>4, <1>5, <1>7, <1>8 DEF IInv, Typed

(* What waits has changed, or is not on record any more; nobody moves.     *)
LEMMA TalkKeeps ==
    ASSUME IInv, StoreOK', UNCHANGED <<working, turn, via, stack, world, answers, me>>,
           generation = 0 /\ Runnable' # {} => working \/ \E g \in Handlers : me[g].at = "drain"
    PROVE  IInv'
<1>1. UNCHANGED <<generation, ended, inFlight, proposed, decision, bus, listed, outstanding, pushed,
                  rode, excused>>
    BY DEF turn, stops, world, answers
<1>2. MeOK' /\ Flight'
    BY <1>1 DEF IInv, Typed, MeOK, Flight
<1>3. DecisionsKept
    BY <1>1 DEF DecisionsKept
<1>4. Fresh'
    BY <1>1, <1>3, FreshStays DEF IInv, Typed
<1>5. Grants'
    BY <1>1, <1>3, GrantsStay DEF IInv, Typed
<1>6. Stopped'
    BY <1>1 DEF IInv, Stopped
<1>7. Kept'
    BY <1>1, KeptStays DEF IInv, CarriesOn
<1>8. Owed'
    BY <1>1, OwedStays DEF IInv
<1>9. Drained'
    <2>1. Exchanging' = Exchanging
        BY DEF Exchanging
    <2> QED
        BY <1>1, <2>1 DEF IInv, Drained
<1> QED
    BY <1>2, <1>4, <1>5, <1>6, <1>7, <1>8, <1>9 DEF IInv, Typed

LEMMA WalkedKeeps == ASSUME IInv, NEW h \in Handlers, Walked(h) PROVE IInv'
<1>1. /\ me[h].at = "row" /\ me[h].at \notin InExchange /\ me[h].carried = {}
      /\ me[h].kind \in Walkers /\ me[h].mine \in Nat /\ me[h].under \in Remotes \cup {None}
    BY HandlerNow DEF Walked, InExchange, Shape, Walk, Requesting, Locals
<1>2. UNCHANGED <<turn, waiting, queued, said, stack, world, outstanding, pushed, rode>>
    BY DEF Walked
<1>3. excused' = (excused \/ ~Current(h))
    BY DEF Walked
<1>4. excused' \in BOOLEAN /\ (excused => excused') /\ generation \in Nat
    BY <1>3, HandlerNow, RunLoopAssumption DEF StoreOK, Current
<1>5. ~Current(h) => generation # 0
    BY <1>1, <1>4 DEF Current, IInv, Drained
<1>6. ASSUME NEW at \in {"free", "drain"}, me' = [me EXCEPT ![h] = [Free EXCEPT !.at = at]],
             working' = working \/ (~Current(h) /\ working' = FALSE), UNCHANGED via,
             Bearer(me[h]) => excused' \/ outstanding = {} \/ Exchanging # {}
      PROVE  IInv'
    <2>1. working' \in BOOLEAN
        BY <1>6, HandlerNow DEF StoreOK
    <2>2. StoreOK'
        BY <1>2, <1>4, <1>6, <2>1, HandlerNow DEF StoreOK, turn, stops, stack, world
    <2>3. Runnable' = Runnable
        BY <1>2 DEF Runnable
    <2>4. ASSUME generation = 0
          PROVE  /\ working => working'
                 /\ Runnable' # {} => working' \/ \E g \in Handlers : me'[g].at = "drain"
        <3>1. working' = working
            BY <1>5, <1>6, <2>4
        <3>2. Runnable # {} => working \/ \E g \in Handlers : me[g].at = "drain"
            BY <2>4 DEF IInv, Drained
        <3>3. \A g \in Handlers : me[g].at = "drain" => me'[g].at = "drain"
            BY <1>1, <1>6, RestNow DEF OnlyMoves
        <3> QED
            BY <2>3, <3>1, <3>2, <3>3
    <2> QED
        BY <1>1, <1>2, <1>4, <1>6, <2>2, <2>4, RestKeeps
<1>7. CASE /\ \/ me[h].kind = "answer" /\ ~me[h].took
              \/ me[h].kind = "reask"
           /\ Return(h) /\ UNCHANGED <<working, via>>
    <2>1. ~Bearer(me[h])
        BY <1>1, <1>7 DEF Bearer, Carries
    <2> QED
        BY <1>6, <1>7, <2>1, ReturnIsRest
<1>8. CASE ~Current(h) /\ working' = FALSE /\ Return(h) /\ UNCHANGED via
    BY <1>3, <1>6, <1>8, ReturnIsRest
<1>9. CASE /\ ~Current(h) /\ me' = [me EXCEPT ![h] = [Free EXCEPT !.at = "drain"]]
           /\ UNCHANGED <<working, via>>
    BY <1>3, <1>6, <1>9
<1>10. CASE Current(h) /\ CarryOn(h)
    <2>1. CASE /\ Exchanging # {} \/ (outstanding = {} /\ me[h].kind # "reask")
               /\ me' = [me EXCEPT ![h] = [Free EXCEPT !.at = "drain"]]
               /\ UNCHANGED <<working, via>>
        BY <1>6, <2>1
    <2>2. CASE /\ Exchanging = {} /\ Current(h) /\ Begin(h, me[h].kind, generation)
               /\ via' = IF me[h].under # None THEN me[h].under ELSE via
        <3>1. via' \in Remotes \cup {None}
            BY <1>1, <2>2, HandlerNow DEF StoreOK
        <3>2. working' \in BOOLEAN
            BY <2>2 DEF Begin
        <3>3. StoreOK'
            BY <1>2, <1>4, <3>1, <3>2, HandlerNow DEF StoreOK, turn, stops, stack, world
        <3>4. UNCHANGED answers
            BY <1>2, <1>3, <2>2, HandlerNow DEF answers, StoreOK
        <3>5. PICK kind \in {"none", "send", "remote"} \cup Walkers : kind = me[h].kind /\ kind # "send"
            BY <1>1 DEF Walkers
        <3>6. UNCHANGED <<turn, stack, world, answers>> /\ Begin(h, kind, generation)
            BY <1>2, <2>2, <3>4, <3>5
        <3> QED
            BY <1>1, <2>2, <3>3, <3>5, <3>6, BeginKeeps
    <2> QED
        BY <1>10, <2>1, <2>2 DEF CarryOn
<1> QED
    BY <1>7, <1>8, <1>9, <1>10 DEF Walked

(* A handler that was free starts a walk.                                  *)
LEMMA StartKeeps ==
    ASSUME IInv, NEW h \in Handlers, me[h].at = "free", NEW r \in Locals, Shape(r),
           me' = [me EXCEPT ![h] = r], r.at \in {"row", "granted"}, r.mine = generation,
           UNCHANGED <<working, turn, talk, answers>>, StoreOK', Grants', DecisionsKept
    PROVE  IInv'
<1>1. MeOK' /\ OnlyMoves(h) /\ me'[h] = r
    BY Moved, HandlerNow
<1>2. UNCHANGED <<generation, ended, inFlight, proposed, waiting, queued, via, outstanding,
                  pushed, rode, excused>>
    BY DEF turn, stops, talk, answers
<1>3. Flight'
    BY <1>1, <1>2, FlightStep, RunLoopAssumption DEF IInv, Flight, Requesting
<1>4. Fresh'
    <2>1. \A g \in Handlers : PageCalls(me'[g]) \subseteq PageCalls(me[g])
        BY <1>1 DEF OnlyMoves, PageCalls
    <2> QED
        BY <1>2, <2>1, FreshStays, HandlerNow DEF IInv
<1>5. Stopped'
    <2>1. \A g \in Handlers : me'[g].at = "page" => me'[g] = me[g]
        BY <1>1 DEF OnlyMoves
    <2> QED
        BY <1>2, <2>1, StoppedStays, HandlerNow DEF IInv
<1>6. Kept'
    <2>1. me[h].carried = {} /\ r.carried = {}
        BY HandlerNow DEF Shape, Requesting
    <2>2. \A g \in Handlers : CarriesOn(g)
        BY <1>1, <2>1 DEF CarriesOn, OnlyMoves
    <2> QED
        BY <1>2, <2>2, KeptStays DEF IInv
<1>7. Owed'
    <2>1. ~Bearer(me[h])
        BY DEF Bearer, InExchange, Walk
    <2> QED
        BY <1>1, <1>2, <2>1, OwedStays DEF IInv, OnlyMoves
<1>8. Drained'
    <2>1. generation \in Nat
        BY HandlerNow, RunLoopAssumption DEF StoreOK
    <2>2. \A g \in Handlers :
              /\ me'[g].mine <= generation
              /\ me'[g].at \in InExchange <=> me[g].at \in InExchange
              /\ me'[g].at \in InExchange => me'[g].kind = me[g].kind
              /\ me[g].at = "drain" => me'[g].at = "drain"
              /\ me'[g].at = "halting" => me[g].at = "halting"
        BY <1>1, <2>1 DEF IInv, Drained, OnlyMoves, InExchange
    <2> QED
        BY <1>2, <2>2, DrainedStays DEF IInv
<1> QED
    BY <1>1, <1>3, <1>4, <1>5, <1>6, <1>7, <1>8 DEF IInv, Typed

(* The locals of a handler that starts a walk. *)
Starting(at, kind, under, rows, yes) ==
    [Free EXCEPT !.at = at, !.kind = kind, !.mine = generation, !.under = under,
                 !.rows = rows, !.yes = yes]

LEMMA StartNow ==
    ASSUME IInv, NEW kind \in Walkers,
           NEW under \in Remotes \cup {None}, NEW rows \in Seq(Calls), NEW yes \in SUBSET Calls,
           rows # <<>>, kind = "answer" => Len(rows) <= 1, kind = "reask" => yes = {}
    PROVE  LET r == Starting("row", kind, under, rows, yes)
           IN  r \in Locals /\ Shape(r) /\ r.at = "row" /\ r.mine = generation
<1> DEFINE r == [Free EXCEPT !.at = "row", !.kind = kind, !.mine = generation, !.under = under,
                             !.rows = rows, !.yes = yes]
<1>1. generation \in Nat
    BY RunLoopAssumption DEF IInv, Typed, StoreOK
<1>2. r \in Locals
    BY <1>1, FreeLocals DEF Locals, Places, Walk
<1>3. /\ r.at = "row" /\ r.kind = kind /\ r.mine = generation /\ r.rows = rows /\ r.yes = yes
      /\ r.carried = {} /\ r.todo = {} /\ ~r.took
    BY DEF Free
<1> HIDE DEF r
<1>4. Shape(r)
    BY <1>3 DEF Shape, Requesting, Walk, Running, Carries
<1>5. r = Starting("row", kind, under, rows, yes)
    BY DEF Starting, r
<1> QED
    BY <1>2, <1>3, <1>4, <1>5

LEMMA PressKeeps ==
    ASSUME IInv, NEW h \in Handlers, NEW kind \in {"answer", "sheet", "reask"},
           NEW rows \in Seq(Calls), NEW yes \in SUBSET Calls, Press(h, kind, rows, yes),
           rows # <<>>, kind = "answer" => Len(rows) <= 1, kind = "reask" => yes = {}
    PROVE  IInv'
<1>1. PICK under \in Remotes \cup {None} : under = viaOf[rows[1]]
    <2>1. rows[1] \in Calls
        BY EmptySeq, LenProperties, ElementOfSeq
    <2> QED
        BY <2>1 DEF IInv, Typed, StoreOK
<1> DEFINE r == Starting("row", kind, under, rows, yes)
<1>2. r \in Locals /\ Shape(r) /\ r.at = "row" /\ r.mine = generation
    <2>1. kind \in Walkers
        BY DEF Walkers
    <2> QED
        BY <2>1, StartNow
<1>3. me[h].at = "free" /\ me' = [me EXCEPT ![h] = r]
    BY <1>1 DEF Press, Starting
<1>4. UNCHANGED <<working, turn, talk, stack, world, answers>>
    BY DEF Press
<1>5. StoreOK' /\ DecisionsKept
    BY <1>4, HandlerNow DEF StoreOK, turn, stops, talk, stack, world, answers, DecisionsKept
<1> HIDE DEF r
<1>6. Grants'
    <2>1. OnlyMoves(h) /\ me'[h] = r
        BY <1>2, <1>3, Moved, HandlerNow
    <2>2. \A g \in Handlers : GrantOf(me'[g]) \subseteq GrantOf(me[g])
        BY <1>2, <2>1 DEF GrantOf, OnlyMoves
    <2> QED
        BY <1>4, <1>5, <2>2, GrantsStay, HandlerNow DEF IInv, world, answers
<1> QED
    BY <1>2, <1>3, <1>4, <1>5, <1>6, StartKeeps

(* The rows of a sheet are calls, one at least. *)
LEMMA RowsAre == ASSUME NEW rows \in Rows PROVE rows \in Seq(Calls) /\ rows # <<>>
<1>1. PICK n \in 1 .. Cardinality(Calls) : rows \in [1 .. n -> Calls]
    BY DEF Rows
<1>2. Cardinality(Calls) \in Nat
    BY FS_CardinalityType, RunLoopAssumption
<1>3. n \in Nat /\ n > 0
    BY <1>1, <1>2
<1>4. rows \in Seq(Calls) /\ Len(rows) = n
    BY <1>1, <1>3, IsASeq, LenProperties
<1> QED
    BY <1>3, <1>4, EmptySeq

LEMMA OneRow ==
    ASSUME NEW c \in Calls
    PROVE  <<c>> \in Seq(Calls) /\ <<c>> # <<>> /\ Len(<<c>>) = 1 /\ Head(<<c>>) = c
<1>1. <<c>> \in Seq(Calls)
    OBVIOUS
<1>2. Len(<<c>>) = 1
    OBVIOUS
<1>3. Head(<<c>>) = c
    OBVIOUS
<1>4. <<c>> # <<>>
    BY <1>2
<1> QED
    BY <1>1, <1>2, <1>3, <1>4

LEMMA AnswerKeeps ==
    ASSUME IInv, NEW h \in Handlers, NEW c \in Calls, NEW ok \in BOOLEAN, Answer(h, c, ok) PROVE IInv'
<1>1. PICK rows \in Seq(Calls), yes \in SUBSET Calls :
         /\ rows = <<c>> /\ rows # <<>> /\ Len(rows) = 1
         /\ yes = IF ok THEN {c} ELSE {}
    BY OneRow
<1>2. Len(rows) <= 1
    BY <1>1
<1>3. Press(h, "answer", rows, yes)
    BY <1>1 DEF Answer
<1> QED
    BY <1>1, <1>2, <1>3, PressKeeps

LEMMA RemoteDecidedKeeps ==
    ASSUME IInv, NEW h \in Handlers, NEW c \in Calls, RemoteDecided(h, c) PROVE IInv'
<1>1. /\ me[h].at = "free" /\ c \in bus /\ bus' = bus \ {c}
      /\ UNCHANGED <<working, turn, talk, viaOf, answering, decision, listed, answers>>
    BY DEF RemoteDecided
<1>2. StoreOK' /\ DecisionsKept
    <2>1. cards' \subseteq cards /\ (answered' = answered \/ answered' = answered \cup {c})
        BY DEF RemoteDecided
    <2> QED
        BY <1>1, <2>1, HandlerNow DEF StoreOK, turn, stops, talk, answers, DecisionsKept
<1>3. CASE /\ decision[c] = "approved"
           /\ me' = [me EXCEPT ![h] = [Free EXCEPT !.at = "granted", !.kind = "decided",
                                                   !.mine = generation, !.under = viaOf[c],
                                                   !.rows = <<c>>, !.yes = {c}]]
    <2>1. PICK under \in Remotes \cup {None} : under = viaOf[c]
        BY HandlerNow DEF StoreOK
    <2>2. PICK rows \in Seq(Calls), yes \in SUBSET Calls :
             rows = <<c>> /\ rows # <<>> /\ Head(rows) = c /\ yes = {c}
        BY OneRow
    <2> DEFINE r == Starting("granted", "decided", under, rows, yes)
    <2>3. r \in Locals /\ Shape(r) /\ r.at = "granted" /\ r.mine = generation /\ r.rows = rows
        <3>1. generation \in Nat
            BY HandlerNow, RunLoopAssumption DEF StoreOK
        <3>2. r \in Locals
            BY <3>1, FreeLocals DEF Starting, Locals, Places, Walk, Walkers
        <3>3. /\ r.at = "granted" /\ r.kind = "decided" /\ r.mine = generation /\ r.rows = rows
              /\ r.carried = {} /\ r.todo = {}
            BY DEF Starting, Free
        <3> HIDE DEF r
        <3>4. Shape(r)
            BY <2>2, <3>3 DEF Shape, Requesting, Walk, Walkers, Running, Carries
        <3> QED
            BY <3>2, <3>3, <3>4
    <2>4. me' = [me EXCEPT ![h] = r]
        BY <1>3, <2>1, <2>2 DEF Starting
    <2> HIDE DEF r
    <2>5. OnlyMoves(h) /\ me'[h] = r
        BY <2>3, <2>4, Moved, HandlerNow
    <2>6. Grants'
        <3>1. GrantOf(me'[h]) = {c}
            BY <2>2, <2>3, <2>5 DEF GrantOf
        <3>2. Result(c, TRUE) \notin pushed /\ \A g \in Handlers : c \notin GrantOf(me[g])
            BY <1>1 DEF IInv, Grants
        <3>3. c \notin bus' /\ bus' \subseteq bus /\ decision'[c] = "approved" /\ UNCHANGED pushed
            BY <1>1, <1>3 DEF answers
        <3> QED
            BY <1>2, <2>5, <3>1, <3>2, <3>3, GrantsTaken
    <2> QED
        BY <1>1, <1>2, <2>3, <2>4, <2>6, StartKeeps
<1>4. CASE UNCHANGED me
    <2>1. Grants'
        BY <1>1, <1>2, <1>4, GrantsStay, HandlerNow DEF IInv, answers
    <2> QED
        BY <1>1, <1>2, <1>4, <2>1, StillKeeps
<1> QED
    BY <1>3, <1>4 DEF RemoteDecided

LEMMA CardKeeps == ASSUME IInv, NEW h \in Handlers, Card(h) PROVE IInv'
<1>1. ASSUME NEW rows \in Rows, Reask(h, rows)
      PROVE  IInv'
    BY <1>1, RowsAre, PressKeeps DEF Reask
<1>2. ASSUME NEW rows \in Rows, NEW yes \in SUBSET Calls, AnswerSheet(h, rows, yes)
      PROVE  IInv'
    BY <1>2, RowsAre, PressKeeps DEF AnswerSheet
<1> QED
    BY <1>1, <1>2, AskDaemonKeeps, ResolvedKeeps, NotResolvedKeeps, GrantedKeeps,
       ActingAnswersKeeps, ContractAcceptedKeeps, WalkedKeeps, RemoteDecidedKeeps, AnswerKeeps
    DEF Card

------------------------------------------------------------------------------
(* What is typed, stopped and sent *)

Entry == [what : Lines \cup Remotes, lined : BOOLEAN]

LEMMA WaitNow ==
    ASSUME IInv, NEW l \in Lines \cup Remotes, NEW lined \in BOOLEAN, Wait(l, lined)
    PROVE  waiting' \in Seq(Entry) /\ said' \subseteq Lines \cup Remotes
<1>1. waiting \in Seq(Entry) /\ said \subseteq Lines \cup Remotes
    BY DEF IInv, Typed, StoreOK, Entry
<1>2. [what |-> l, lined |-> lined] \in Entry
    BY DEF Entry
<1> QED
    BY <1>1, <1>2, AppendProperties DEF Wait

(* Until the first stop, she works while there is an exchange.             *)
LEMMA WorksNow ==
    ASSUME IInv, generation = 0, via # None \/ Busy
    PROVE  working
BY DEF IInv, Drained, Busy

LEMMA TypeAsideKeeps == ASSUME IInv, NEW l \in Lines, TypeAside(l) PROVE IInv'
<1>1. /\ waiting' \in Seq(Entry) /\ said' \subseteq Lines \cup Remotes
      /\ UNCHANGED <<working, turn, queued, via, stack, world, answers, me>>
    BY WaitNow DEF TypeAside
<1>2. StoreOK'
    BY <1>1 DEF IInv, Typed, StoreOK, Entry, turn, stops, stack, world, answers
<1>3. generation = 0 => working
    BY WorksNow DEF TypeAside
<1> QED
    BY <1>1, <1>2, <1>3, TalkKeeps

LEMMA TypeNextKeeps == ASSUME IInv, NEW l \in Lines, TypeNext(l) PROVE IInv'
<1>1. /\ waiting' \in Seq(Entry) /\ said' \subseteq Lines \cup Remotes
      /\ UNCHANGED <<working, turn, via, stack, world, answers, me>> /\ queued' = queued \cup {l}
    BY WaitNow DEF TypeNext
<1>2. StoreOK'
    BY <1>1 DEF IInv, Typed, StoreOK, Entry, turn, stops, stack, world, answers
<1>3. generation = 0 => working
    BY WorksNow DEF TypeNext
<1> QED
    BY <1>1, <1>2, <1>3, TalkKeeps

LEMMA UnqueueKeeps == ASSUME IInv, NEW l \in Lines, Unqueue(l) PROVE IInv'
<1>1. /\ queued' = queued \ {l}
      /\ UNCHANGED <<working, turn, waiting, via, said, stack, world, answers, me>>
    BY DEF Unqueue
<1>2. StoreOK'
    BY <1>1 DEF IInv, Typed, StoreOK, turn, stops, stack, world, answers
<1>3. Runnable' \subseteq Runnable
    BY <1>1 DEF Runnable
<1>4. generation = 0 /\ Runnable # {} => working \/ \E g \in Handlers : me[g].at = "drain"
    BY DEF IInv, Drained
<1> QED
    BY <1>1, <1>2, <1>3, <1>4, TalkKeeps

LEMMA TypeNowKeeps == ASSUME IInv, NEW h \in Handlers, NEW l \in Lines, TypeNow(h, l) PROVE IInv'
<1>1. /\ me[h].at = "free" /\ me[h].at \notin InExchange /\ me[h].carried = {}
      /\ via = None /\ Exchanging = {} /\ Begin(h, "send", generation)
      /\ UNCHANGED <<turn, waiting, queued, via, stack, world, answers>> /\ said' = said \cup {l}
    BY HandlerNow DEF TypeNow, Busy, InExchange, Shape, Requesting
<1>2. StoreOK'
    BY <1>1, HandlerNow DEF Begin, StoreOK, turn, stops, stack, world, answers
<1> QED
    BY <1>1, <1>2, BeginKeeps

(* After a stop, no handler has a call or a grant that it did not have.    *)
LEMMA HaltKeeps ==
    ASSUME IInv, Halt, MeOK', working' \in BOOLEAN, said' \subseteq Lines \cup Remotes,
           UNCHANGED <<waiting, queued, via, stack, world>>,
           \A g \in Handlers :
              /\ CarriesOn(g) /\ GrantOf(me'[g]) \subseteq GrantOf(me[g])
              /\ me'[g].mine <= generation'
              /\ me'[g].at = "page" => /\ me[g].at = "page" /\ me'[g].on = me[g].on
                                       /\ me'[g].began = me[g].began /\ me'[g].todo = me[g].todo
    PROVE  IInv'
<1>1. /\ generation \in Nat /\ generation' = generation + 1 /\ generation' \in 0 .. MaxStops
      /\ generation' > 0
    BY RunLoopAssumption DEF IInv, Typed, StoreOK, Halt
<1>2. /\ ended' = ended \cup proposed \cup UNION {me[g].todo : g \in Handlers}
      /\ proposed' = {} /\ inFlight' = None /\ excused' = TRUE
      /\ UNCHANGED <<viaOf, cards, answering, answered, decision, bus, listed,
                     outstanding, pushed, rode>>
    BY DEF Halt, stack, world
<1>3. \A g \in Handlers : me[g].todo \subseteq Calls /\ me[g].todo \subseteq PageCalls(me[g])
    BY DEF IInv, Typed, MeOK, Locals, Shape, PageCalls
<1>4. StoreOK'
    <2>1. ended' \subseteq Calls
        BY <1>2, <1>3 DEF IInv, Typed, StoreOK
    <2> QED
        BY <1>1, <1>2, <2>1 DEF IInv, Typed, StoreOK
<1>5. Flight'
    BY <1>2 DEF Flight
<1>6. DecisionsKept
    BY <1>2 DEF DecisionsKept
<1>7. Fresh'
    <2>1. \A g \in Handlers : PageCalls(me'[g]) \subseteq PageCalls(me[g])
        BY DEF PageCalls
    <2> QED
        BY <1>2, <1>6, <2>1, FreshStays DEF IInv, Typed
<1>8. Grants'
    BY <1>2, <1>6, GrantsStay DEF IInv, Typed
<1>9. Kept'
    BY <1>2, KeptStays DEF IInv
<1>10. Stopped'
    <2>1. ASSUME NEW c \in ended'
          PROVE  decision'[c] # "unknown"
        <3>1. CASE c \in ended
            BY <1>2, <3>1 DEF IInv, Stopped
        <3>2. CASE c \in proposed
            BY <1>2, <3>2 DEF IInv, Typed, StoreOK, Fresh
        <3>3. CASE c \in UNION {me[g].todo : g \in Handlers}
            <4>1. PICK g \in Handlers : c \in me[g].todo
                BY <3>3
            <4>2. c \in PageCalls(me[g])
                BY <1>3, <4>1
            <4> QED
                BY <1>2, <4>2 DEF IInv, Fresh
        <3> QED
            BY <1>2, <3>1, <3>2, <3>3
    <2>2. ASSUME NEW g \in Handlers, me'[g].at = "page"
          PROVE  me'[g].on \notin ended' /\ me'[g].began < generation'
        <3>1. /\ me[g].at = "page" /\ me'[g].on = me[g].on /\ me'[g].began = me[g].began
              /\ me[g].on \in PageCalls(me[g]) /\ me[g].on \notin me[g].todo
            BY <2>2 DEF PageCalls, IInv, Typed, MeOK, Shape
        <3>2. me[g].on \notin ended /\ me[g].on \notin proposed
            BY <3>1 DEF IInv, Stopped, Fresh
        <3>3. \A f \in Handlers : me[g].on \notin me[f].todo
            BY <1>3, <3>1 DEF IInv, Fresh
        <3>4. me[g].began \in Nat /\ me[g].began <= generation
            BY <3>1 DEF IInv, Typed, MeOK, Locals, Stopped
        <3> QED
            BY <1>1, <1>2, <3>1, <3>2, <3>3, <3>4
    <2>3. \A g \in Handlers : me'[g].at = "page" => me'[g].began \in Nat
        BY DEF MeOK, Locals
    <2> QED
        BY <1>1, <1>2, <2>1, <2>2, <2>3 DEF Stopped
<1>11. Owed'
    BY <1>2 DEF Owed
<1>12. Drained'
    BY <1>1 DEF Drained
<1> QED
    BY <1>4, <1>5, <1>7, <1>8, <1>9, <1>10, <1>11, <1>12 DEF IInv, Typed

(* What a stop tells the handlers. *)
LEMMA AbortingNow ==
    ASSUME IInv, NEW g \in Handlers
    PROVE  LET r == Aborting[g]
           IN  /\ r \in Locals /\ Shape(r)
               /\ r.at = me[g].at /\ r.carried = me[g].carried /\ r.on = me[g].on
               /\ r.began = me[g].began /\ r.todo = me[g].todo /\ r.mine = me[g].mine
               /\ r.rows = me[g].rows
<1> DEFINE r == [me[g] EXCEPT !.aborted = (me[g].aborted \/ g = inFlight)]
<1>1. me[g] \in Locals /\ Shape(me[g])
    BY HandlerNow
<1>2. Aborting[g] = r
    BY DEF Aborting
<1>3. (me[g].aborted \/ g = inFlight) \in BOOLEAN
    BY <1>1 DEF Locals
<1>4. r \in Locals
    BY <1>1, <1>3 DEF Locals
<1>5. /\ r.at = me[g].at /\ r.carried = me[g].carried /\ r.todo = me[g].todo /\ r.on = me[g].on
      /\ r.kind = me[g].kind /\ r.rows = me[g].rows /\ r.yes = me[g].yes
      /\ r.mine = me[g].mine /\ r.took = me[g].took /\ r.began = me[g].began
    BY <1>1 DEF Locals
<1> HIDE DEF r
<1>6. Carries(r) <=> Carries(me[g])
    BY <1>5 DEF Carries
<1>7. Shape(r)
    BY <1>1, <1>5, <1>6 DEF Shape
<1> QED
    BY <1>2, <1>4, <1>5, <1>7

LEMMA StopKeeps == ASSUME IInv, Stop PROVE IInv'
<1>1. me' = Aborting /\ Halt /\ working' = FALSE /\ UNCHANGED <<talk, stack, world>>
    BY DEF Stop
<1>2. MeOK'
    BY <1>1, AbortingNow DEF Aborting, MeOK
<1>3. generation \in Nat /\ generation' = generation + 1
    BY <1>1, RunLoopAssumption DEF IInv, Typed, StoreOK, Halt
<1>4. ASSUME NEW g \in Handlers
      PROVE  /\ CarriesOn(g) /\ GrantOf(me'[g]) \subseteq GrantOf(me[g])
             /\ me'[g].mine <= generation'
             /\ me'[g].at = "page" => /\ me[g].at = "page" /\ me'[g].on = me[g].on
                                      /\ me'[g].began = me[g].began /\ me'[g].todo = me[g].todo
    <2>1. /\ me'[g].at = me[g].at /\ me'[g].carried = me[g].carried /\ me'[g].on = me[g].on
          /\ me'[g].began = me[g].began /\ me'[g].todo = me[g].todo /\ me'[g].mine = me[g].mine
          /\ me'[g].rows = me[g].rows
        BY <1>1, AbortingNow
    <2>2. me[g].mine \in Nat /\ me[g].mine <= generation
        BY HandlerNow DEF IInv, Drained, Locals
    <2> QED
        BY <1>3, <2>1, <2>2 DEF CarriesOn, GrantOf
<1>5. said' \subseteq Lines \cup Remotes /\ UNCHANGED <<waiting, queued, via, stack, world>>
    BY <1>1 DEF IInv, Typed, StoreOK, talk
<1> QED
    BY <1>1, <1>2, <1>4, <1>5, HaltKeeps

LEMMA InterruptKeeps ==
    ASSUME IInv, NEW h \in Handlers, NEW l \in Lines, Interrupt(h, l) PROVE IInv'
<1>1. /\ me[h].at = "free" /\ me[h].at \notin InExchange /\ me[h].carried = {}
      /\ via = None /\ Busy /\ said' = said \cup {l} /\ said' \subseteq Lines \cup Remotes
      /\ UNCHANGED <<waiting, queued, via, stack, world>>
    BY HandlerNow DEF Interrupt, InExchange, Shape, Requesting, StoreOK
<1>2. generation \in Nat
    BY HandlerNow, RunLoopAssumption DEF StoreOK
<1>3. CASE Halt /\ working' = FALSE /\ me' = [Aborting EXCEPT ![h] = [Free EXCEPT !.at = "halting"]]
    <2> DEFINE r == [Free EXCEPT !.at = "halting"]
    <2>1. r \in Locals
        BY FreeLocals DEF Locals, Places
    <2>2. r.at = "halting" /\ r.mine = 0 /\ r.carried = {} /\ r.todo = {}
        BY DEF Free
    <2>3. /\ me' \in [Handlers -> Locals] /\ me'[h] = r
          /\ \A g \in Handlers \ {h} : me'[g] = Aborting[g]
        BY <1>3, <2>1, AbortingNow DEF Aborting
    <2> HIDE DEF r
    <2>4. Shape(r)
        BY <2>2, PlainShape
    <2>5. MeOK'
        BY <2>3, <2>4, AbortingNow DEF MeOK
    <2>6. generation' = generation + 1
        BY <1>3 DEF Halt
    <2>7. ASSUME NEW g \in Handlers
          PROVE  /\ CarriesOn(g) /\ GrantOf(me'[g]) \subseteq GrantOf(me[g])
                 /\ me'[g].mine <= generation'
                 /\ me'[g].at = "page" => /\ me[g].at = "page" /\ me'[g].on = me[g].on
                                          /\ me'[g].began = me[g].began /\ me'[g].todo = me[g].todo
        <3>1. CASE g = h
            BY <1>1, <1>2, <2>2, <2>3, <2>6, <3>1 DEF CarriesOn, GrantOf
        <3>2. CASE g # h
            <4>1. /\ me'[g].at = me[g].at /\ me'[g].carried = me[g].carried /\ me'[g].on = me[g].on
                  /\ me'[g].began = me[g].began /\ me'[g].todo = me[g].todo
                  /\ me'[g].mine = me[g].mine /\ me'[g].rows = me[g].rows
                BY <2>3, <3>2, AbortingNow
            <4>2. me[g].mine \in Nat /\ me[g].mine <= generation
                BY HandlerNow DEF IInv, Drained, Locals
            <4> QED
                BY <1>2, <2>6, <4>1, <4>2 DEF CarriesOn, GrantOf
        <3> QED
            BY <3>1, <3>2
    <2> QED
        BY <1>1, <1>3, <2>5, <2>7, HaltKeeps
<1>4. CASE Halt /\ Begin(h, "send", generation + 1)
    <2>1. /\ MeOK' /\ OnlyMoves(h) /\ me'[h].at = "publish"
          /\ me'[h].mine = generation + 1 /\ me'[h].carried = {}
        BY <1>2, <1>4, BeginNow
    <2>2. generation' = generation + 1 /\ working' = TRUE
        BY <1>4 DEF Halt, Begin
    <2>3. ASSUME NEW g \in Handlers
          PROVE  /\ CarriesOn(g) /\ GrantOf(me'[g]) \subseteq GrantOf(me[g])
                 /\ me'[g].mine <= generation'
                 /\ me'[g].at = "page" => /\ me[g].at = "page" /\ me'[g].on = me[g].on
                                          /\ me'[g].began = me[g].began /\ me'[g].todo = me[g].todo
        <3>1. CASE g = h
            BY <1>1, <1>2, <2>1, <2>2, <3>1 DEF CarriesOn, GrantOf
        <3>2. CASE g # h
            <4>1. me'[g] = me[g]
                BY <2>1, <3>2 DEF OnlyMoves
            <4>2. me[g].mine \in Nat /\ me[g].mine <= generation
                BY HandlerNow DEF IInv, Drained, Locals
            <4> QED
                BY <1>2, <2>2, <4>1, <4>2 DEF CarriesOn
        <3> QED
            BY <3>1, <3>2
    <2> QED
        BY <1>1, <1>4, <2>1, <2>2, <2>3, HaltKeeps
<1>5. CASE ~working /\ Begin(h, "send", generation) /\ UNCHANGED <<turn, answers>>
    <2>1. generation # 0
        BY <1>1, <1>5, WorksNow
    <2>2. StoreOK'
        BY <1>1, <1>5, HandlerNow DEF Begin, StoreOK, turn, stops, stack, world, answers
    <2> QED
        BY <1>1, <1>5, <2>1, <2>2, BeginKeeps
<1> QED
    BY <1>3, <1>4, <1>5 DEF Interrupt

LEMMA ResumeKeeps == ASSUME IInv, NEW h \in Handlers, Resume(h) PROVE IInv'
<1>1. /\ me[h].at = "halting" /\ me[h].at \notin InExchange /\ me[h].carried = {}
      /\ Begin(h, "send", generation) /\ UNCHANGED <<turn, talk, stack, world, answers>>
    BY HandlerNow DEF Resume, InExchange, Shape, Requesting
<1>2. generation # 0
    BY <1>1 DEF IInv, Drained
<1>3. StoreOK'
    BY <1>1, HandlerNow DEF Begin, StoreOK, turn, stops, talk, stack, world, answers
<1> QED
    BY <1>1, <1>2, <1>3, BeginKeeps

LEMMA RemoteMessageKeeps ==
    ASSUME IInv, NEW h \in Handlers, NEW m \in Remotes, RemoteMessage(h, m) PROVE IInv'
<1>1. /\ me[h].at = "free" /\ me[h].at \notin InExchange /\ me[h].carried = {}
      /\ me' = [me EXCEPT ![h] = [Free EXCEPT !.at = "drain"]]
      /\ UNCHANGED <<working, turn, queued, via, stack, world, answers>>
    BY HandlerNow DEF RemoteMessage, InExchange, Shape, Requesting
<1>2. waiting' \in Seq(Entry) /\ said' \subseteq Lines \cup Remotes
    BY WaitNow DEF RemoteMessage
<1>3. StoreOK'
    BY <1>1, <1>2, HandlerNow DEF StoreOK, Entry, turn, stops, stack, world, answers
<1>4. me'[h].at = "drain"
    BY <1>1, RestNow
<1>5. ~Bearer(me[h])
    BY <1>1 DEF Bearer, Walk
<1> QED
    BY <1>1, <1>3, <1>4, <1>5, RestKeeps DEF answers

LEMMA DrainKeeps == ASSUME IInv, NEW h \in Handlers, Drain(h) PROVE IInv'
<1>1. /\ me[h].at = "drain" /\ me[h].at \notin InExchange /\ me[h].carried = {} /\ ~Bearer(me[h])
      /\ UNCHANGED <<turn, said, stack, world, answers>>
    BY HandlerNow DEF Drain, InExchange, Shape, Requesting, Bearer, Walk
<1>2. CASE /\ Busy \/ via # None \/ waiting = <<>>
           /\ Return(h) /\ UNCHANGED <<working, waiting, queued, via>>
    <2>1. StoreOK'
        BY <1>1, <1>2, HandlerNow DEF StoreOK, turn, stops, stack, world, answers
    <2>2. waiting = <<>> => Runnable' = {}
        BY <1>2 DEF Runnable
    <2>3. generation = 0 => /\ working => working'
                            /\ Runnable' # {} => working'
        BY <1>2, <2>2, WorksNow
    <2>4. me' = [me EXCEPT ![h] = [Free EXCEPT !.at = "free"]]
        BY <1>2, ReturnIsRest
    <2>5. UNCHANGED <<outstanding, pushed, rode, excused>>
        BY <1>1 DEF answers
    <2> QED
        BY <1>1, <1>2, <2>1, <2>3, <2>4, <2>5, RestKeeps
<1>3. CASE ~(Busy \/ via # None \/ waiting = <<>>)
    <2>1. Exchanging = {} /\ via = None /\ waiting \in Seq(Entry) /\ waiting # <<>>
        BY <1>3, HandlerNow DEF Busy, StoreOK, Entry
    <2>2. PICK next \in Entry : next = Head(waiting)
        BY <2>1, HeadTailProperties
    <2>3. waiting' \in Seq(Entry) /\ queued' \subseteq queued
        <3>1. waiting' = Tail(waiting)
            BY <1>3 DEF Drain
        <3>2. queued' = queued \ {next.what}
            BY <1>3, <2>2 DEF Drain
        <3> QED
            BY <2>1, <3>1, <3>2, HeadTailProperties
    <2>4. CASE UNCHANGED <<working, via, me>>
        <3>1. StoreOK'
            BY <1>1, <2>3, <2>4, HandlerNow DEF StoreOK, Entry, turn, stops, stack, world, answers
        <3> QED
            BY <1>1, <2>4, <3>1, TalkKeeps
    <2>5. CASE next.what \in Remotes /\ via' = next.what /\ Begin(h, "remote", generation)
        <3>1. StoreOK'
            BY <1>1, <2>3, <2>5, HandlerNow
            DEF Begin, StoreOK, Entry, turn, stops, stack, world, answers
        <3> QED
            BY <1>1, <2>1, <2>5, <3>1, BeginKeeps
    <2>6. CASE Begin(h, "send", generation) /\ UNCHANGED via
        <3>1. StoreOK'
            BY <1>1, <2>3, <2>6, HandlerNow
            DEF Begin, StoreOK, Entry, turn, stops, stack, world, answers
        <3> QED
            BY <1>1, <2>1, <2>6, <3>1, BeginKeeps
    <2> QED
        BY <1>3, <2>2, <2>4, <2>5, <2>6 DEF Drain
<1> QED
    BY <1>2, <1>3 DEF Drain

------------------------------------------------------------------------------
(* The daemon, and every step *)

LEMMA ReconcileKeeps == ASSUME IInv, ReadDecisions \/ Merge PROVE IInv'
<1>1. UNCHANGED <<working, turn, talk, viaOf, answering, answered, decision, bus, answers, me>>
    BY DEF ReadDecisions, Merge, stack
<1>2. cards' \subseteq Calls /\ listed' \subseteq Calls
    BY DEF ReadDecisions, Merge, stack, IInv, Typed, StoreOK
<1>3. StoreOK' /\ DecisionsKept
    BY <1>1, <1>2 DEF IInv, Typed, StoreOK, turn, stops, talk, answers, DecisionsKept
<1>4. Grants'
    BY <1>1, <1>3, GrantsStay DEF IInv, Typed, answers
<1> QED
    BY <1>1, <1>3, <1>4, StillKeeps

LEMMA PeerDecidesKeeps == ASSUME IInv, NEW c \in Calls, PeerDecides(c) PROVE IInv'
<1>1. /\ decision[c] = "pending" /\ bus' = bus \cup {c}
      /\ UNCHANGED <<working, turn, talk, stack, listed, answers, me>>
    BY DEF PeerDecides
<1>2. PICK status \in {"approved", "declined"} : decision' = [decision EXCEPT ![c] = status]
    BY DEF PeerDecides
<1>3. /\ decision' \in [Calls -> {"unknown", "proposed", "pending", "done", "approved", "declined"}]
      /\ DecisionsKept /\ decision'[c] = status
    BY <1>1, <1>2, Decided
<1>4. StoreOK'
    BY <1>1, <1>3 DEF IInv, Typed, StoreOK, turn, stops, talk, stack, answers
<1>5. Grants'
    <2>1. Result(c, TRUE) \notin pushed /\ \A g \in Handlers : c \notin GrantOf(me[g])
        BY <1>1 DEF IInv, Grants
    <2>2. \A g \in Handlers : GrantOf(me[g]) \subseteq Calls
        BY HeadTailProperties, HandlerNow DEF GrantOf, MeOK, Shape, Locals, Walk
    <2>3. pushed' = pushed /\ bus \subseteq Calls
        BY <1>1 DEF answers, IInv, Typed, StoreOK
    <2>4. \A d \in bus' : decision'[d] \in {"approved", "declined"}
        BY <1>1, <1>3, <2>3 DEF IInv, Grants, DecisionsKept
    <2>5. \A d \in Calls : Result(d, TRUE) \in pushed' => decision'[d] = "approved" /\ d \notin bus'
        BY <1>1, <1>3, <2>1, <2>3 DEF IInv, Grants, DecisionsKept
    <2>6. \A g \in Handlers : \A d \in GrantOf(me[g]) :
              decision'[d] = "approved" /\ d \notin bus' /\ Result(d, TRUE) \notin pushed'
        BY <1>1, <1>3, <2>1, <2>2, <2>3 DEF IInv, Grants, DecisionsKept
    <2>7. \A d : Result(d, TRUE)' = Result(d, TRUE)
        BY DEF Result
    <2>8. \A g \in Handlers : GrantOf(me[g])' = GrantOf(me[g])
        BY <1>1 DEF GrantOf
    <2> QED
        BY <2>4, <2>5, <2>6, <2>7, <2>8 DEF IInv, Grants
<1> QED
    BY <1>1, <1>3, <1>4, <1>5, StillKeeps

LEMMA MessageKeeps == ASSUME IInv, NEW h \in Handlers, Message(h) PROVE IInv'
BY TypeNowKeeps, InterruptKeeps, RemoteMessageKeeps, ResumeKeeps, DrainKeeps DEF Message

LEMMA NextKeeps == ASSUME IInv, [Next]_vars PROVE IInv'
<1>1. CASE Next
    BY <1>1, ExchangeKeeps, CardKeeps, MessageKeeps, TypeAsideKeeps, TypeNextKeeps, UnqueueKeeps,
       StopKeeps, ReconcileKeeps, PeerDecidesKeeps DEF Next
<1>2. CASE UNCHANGED vars
    <2>1. UNCHANGED <<working, turn, talk, stack, world, answers, me>>
        BY <1>2 DEF vars
    <2>2. StoreOK' /\ DecisionsKept
        BY <2>1 DEF IInv, Typed, StoreOK, turn, stops, talk, stack, world, answers, DecisionsKept
    <2>3. Grants'
        BY <2>1, <2>2, GrantsStay DEF IInv, Typed, world, answers
    <2> QED
        BY <2>1, <2>2, <2>3, StillKeeps
<1> QED
    BY <1>1, <1>2

LEMMA Opening == ASSUME Init PROVE IInv
<1>1. \A h \in Handlers : me[h] = Free
    BY DEF Init
<1>2. /\ Free.at = "free" /\ Free.mine = 0 /\ Free.carried = {} /\ Free.todo = {}
    BY DEF Free
<1>3. Free \in Locals /\ Shape(Free)
    BY <1>2, FreeLocals, PlainShape
<1>4. StoreOK
    <2>1. waiting \in Seq([what : Lines \cup Remotes, lined : BOOLEAN])
        BY EmptySeq DEF Init
    <2>2. /\ viaOf \in [Calls -> Remotes \cup {None}]
          /\ decision \in [Calls -> {"unknown", "proposed", "pending", "done", "approved", "declined"}]
        BY DEF Init
    <2>3. generation \in 0 .. MaxStops
        <3>1. generation = 0 /\ MaxStops \in Nat
            BY RunLoopAssumption DEF Init
        <3> QED
            BY <3>1
    <2>4. working \in BOOLEAN /\ excused \in BOOLEAN
        BY DEF Init
    <2>5. /\ via \in Remotes \cup {None}
          /\ queued = {} /\ said = {} /\ cards = {} /\ answering = {} /\ answered = {}
          /\ proposed = {} /\ bus = {} /\ listed = {} /\ ended = {} /\ outstanding = {}
        BY DEF Init
    <2> QED
        BY <2>1, <2>2, <2>3, <2>4, <2>5 DEF StoreOK
<1>5. MeOK
    <2>1. me \in [Handlers -> Locals]
        BY <1>3 DEF Init
    <2> QED
        BY <1>1, <1>3, <2>1 DEF MeOK
<1>6. Flight
    BY DEF Init, Flight
<1>7. \A h \in Handlers : /\ PageCalls(me[h]) = {} /\ GrantOf(me[h]) = {}
                          /\ me[h].at = "free" /\ me[h].mine = 0 /\ me[h].carried = {}
    BY <1>1, <1>2 DEF PageCalls, GrantOf
<1>8. pushed = {} /\ proposed = {} /\ bus = {} /\ ended = {} /\ outstanding = {} /\ rode = {}
      /\ generation = 0 /\ via = None /\ waiting = <<>>
    BY DEF Init
<1>9. Fresh /\ Grants
    BY <1>7, <1>8 DEF Fresh, Grants
<1>10. Kept
    BY <1>7, <1>8 DEF Kept, ResultsKept, Carrying
<1>11. Stopped /\ Owed
    BY <1>7, <1>8 DEF Stopped, Owed
<1>12. Drained
    <2>1. Exchanging = {} /\ Runnable = {}
        BY <1>7, <1>8 DEF Exchanging, InExchange, Runnable
    <2> QED
        BY <1>7, <1>8, <2>1 DEF Drained
<1> QED
    BY <1>4, <1>5, <1>6, <1>9, <1>10, <1>11, <1>12 DEF IInv, Typed

LEMMA Invariant == Spec => []IInv
<1>1. Init => IInv
    BY Opening
<1>2. IInv /\ [Next]_vars => IInv'
    BY NextKeeps
<1> QED
    BY <1>1, <1>2, PTL DEF Spec

------------------------------------------------------------------------------
(* What the window keeps to *)

(* Every variable of the store has its type, no handler sends a request    *)
(* again or continues a turn more often than it may (streamTurn,           *)
(* exchangeOnce), and a stop aborts a request that is on its way (halt).   *)
THEOREM TypeCorrect == Spec => []TypeOK
<1>1. IInv => TypeOK
    <2> SUFFICES ASSUME IInv PROVE TypeOK
        OBVIOUS
    <2>1. \A h \in Handlers : me[h].tries <= BusyRetries /\ me[h].step <= MaxContinuations
        BY HandlerNow, RunLoopAssumption DEF Locals
    <2>2. inFlight # None => me[inFlight].at \in {"capture", "sent", "busy", "stream"}
        BY DEF IInv, Flight, Requesting
    <2> QED
        BY <2>1, <2>2 DEF IInv, Typed, StoreOK, TypeOK
<1> QED
    BY <1>1, Invariant, PTL

(* An answer of the page is outstanding, or left with one request: it is   *)
(* neither lost nor told twice, whatever is stopped, refused or sent again *)
(* while the request is on its way (consume, streamTurn).                  *)
THEOREM ResultsAreKept == Spec => []ResultsKept
<1>1. IInv => ResultsKept
    BY DEF IInv, Kept
<1> QED
    BY <1>1, Invariant, PTL

(* A call that a turn left to the page, and that was still to run when the *)
(* person stopped her, is never sent there afterwards (halt drops what is  *)
(* proposed, and apply looks at the generation before each call of a turn).*)
(* It says nothing of the rows of a sheet: answerSheet does not look at it *)
(* between two rows.                                                       *)
THEOREM StopIsKept == Spec => []StopHolds
<1>1. IInv => StopHolds
    BY DEF IInv, Stopped, StopHolds
<1> QED
    BY <1>1, Invariant, PTL

(* A window at rest owes the daemon no answer of a page, unless she was    *)
(* stopped or the exchange failed (carryOn, exchangeOnce): whoever puts an *)
(* answer there is, or hands over to, the handler that carries it.         *)
THEOREM AnswersCarried == Spec => []AnswersAreCarried
<1>1. IInv => AnswersAreCarried
    BY DEF IInv, Owed, AnswersAreCarried, AtRest, Bearer, InExchange, Walk
<1> QED
    BY <1>1, Invariant, PTL

(* A window at rest that was never stopped leaves nothing waiting that was *)
(* typed or sent (drainRemote): until a first stop there is one exchange   *)
(* at most, and whoever ends it looks at what waits.                       *)
THEOREM QueueIsDrained == Spec => []QueueDrains
<1>1. IInv => QueueDrains
    BY DEF IInv, Drained, QueueDrains, AtRest
<1> QED
    BY <1>1, Invariant, PTL

(* The two parts of NoCardAstray. *)
LeavesAnswered == \A c \in cards \ cards' : decision'[c] # "pending" \/ Asked(c)
StaysAway == \A c \in cards' \ cards : c \in answered => \E h \in Handlers : c \in me[h].coming

LEMMA OneLeaves ==
    ASSUME NEW c, cards' = cards \ {c}, decision'[c] # "pending" \/ Asked(c)
    PROVE  LeavesAnswered /\ StaysAway
BY DEF LeavesAnswered, StaysAway

LEMMA ExchangeKeepsCards ==
    ASSUME NEW h \in Handlers, Exchange(h) PROVE LeavesAnswered /\ StaysAway
<1>1. CASE \E c \in Calls : DecisionRequested(h, c)
    <2>1. PICK c \in Calls : DecisionRequested(h, c)
        BY <1>1
    <2>2. cards' = cards \cup {c} /\ c \in me[h].coming
        BY <2>1 DEF DecisionRequested
    <2> QED
        BY <2>2 DEF LeavesAnswered, StaysAway
<1>2. CASE \E c \in Calls : DecisionResolved(h, c)
    <2>1. PICK c \in Calls : DecisionResolved(h, c)
        BY <1>2
    <2>2. cards' = cards \ {c} /\ decision[c] # "pending" /\ decision' = decision
        BY <2>1 DEF DecisionResolved, world
    <2> QED
        BY <2>2, OneLeaves
<1>3. CASE ~ \E c \in Calls : DecisionRequested(h, c) \/ DecisionResolved(h, c)
    <2>1. UNCHANGED stack
        BY <1>3 DEF Exchange, Published, PublishFails, Aborted, Captured, Accepted,
           ThreadBusy, Retry, Refused, Broken, Failed, EndOfBody, Called, TurnError, Finished,
           PageAnswers, ToolCall, Gate, ToolResult
    <2> QED
        BY <2>1 DEF stack, LeavesAnswered, StaysAway
<1> QED
    BY <1>1, <1>2, <1>3

LEMMA CardKeepsCards ==
    ASSUME IInv, NEW h \in Handlers, Card(h) PROVE LeavesAnswered /\ StaysAway
<1>1. CASE Resolved(h) \/ NotResolved(h)
    <2>1. PICK c : c = Row(h)
        OBVIOUS
    <2>2. me[h].at = "resolve" /\ (cards' = cards \/ cards' = cards \ {c})
        BY <1>1, <2>1 DEF Resolved, NotResolved
    <2>3. Asked(c)
        BY <2>1, <2>2 DEF Asked
    <2> QED
        BY <2>2, <2>3, OneLeaves DEF LeavesAnswered, StaysAway
<1>2. CASE \E c \in Calls : RemoteDecided(h, c)
    <2>1. PICK c \in Calls : RemoteDecided(h, c)
        BY <1>2
    <2>2. cards' = cards \ {c} /\ decision' = decision /\ c \in bus
        BY <2>1 DEF RemoteDecided
    <2>3. decision[c] # "pending"
        BY <2>2 DEF IInv, Grants
    <2> QED
        BY <2>2, <2>3, OneLeaves
<1>3. CASE ~Resolved(h) /\ ~NotResolved(h) /\ ~ \E c \in Calls : RemoteDecided(h, c)
    <2>1. UNCHANGED cards
        BY <1>3 DEF Card, AskDaemon, Granted, ActingAnswers, ContractAccepted, Walked, Answer,
           AnswerSheet, Reask, Press, stack
    <2> QED
        BY <2>1 DEF LeavesAnswered, StaysAway
<1> QED
    BY <1>1, <1>2, <1>3

LEMMA NextKeepsCards == ASSUME IInv, [Next]_vars PROVE LeavesAnswered /\ StaysAway
<1>1. ASSUME UNCHANGED stack
      PROVE  LeavesAnswered /\ StaysAway
    BY <1>1 DEF stack, LeavesAnswered, StaysAway
<1>2. ASSUME NEW h \in Handlers, Message(h)
      PROVE  UNCHANGED stack
    BY <1>2 DEF Message, TypeNow, Interrupt, RemoteMessage, Resume, Drain
<1>3. CASE Merge
    BY <1>3 DEF Merge, LeavesAnswered, StaysAway
<1>4. CASE \/ \E l \in Lines : TypeAside(l) \/ TypeNext(l) \/ Unqueue(l)
           \/ Stop \/ ReadDecisions \/ (\E c \in Calls : PeerDecides(c)) \/ UNCHANGED vars
    <2>1. UNCHANGED stack
        BY <1>4 DEF TypeAside, TypeNext, Unqueue, Stop, ReadDecisions, PeerDecides, vars
    <2> QED
        BY <1>1, <2>1
<1> QED
    BY <1>1, <1>2, <1>3, <1>4, ExchangeKeepsCards, CardKeepsCards DEF Next

(* A card leaves the screen when the daemon has its answer, or has just    *)
(* refused one (answerOne, remoteDecided, decision.resolved), never when   *)
(* it is only pressed or another device speaks too early; once answered,   *)
(* it is not put back by a list that was read before the answer (reconcile *)
(* asks who is answered when it merges, not when it reads).                *)
THEOREM CardsStay == Spec => NoCardAstray
<1>1. IInv /\ [Next]_vars =>
          [/\ \A c \in cards \ cards' : decision'[c] # "pending" \/ Asked(c)
           /\ \A c \in cards' \ cards : c \in answered => \E h \in Handlers : c \in me[h].coming]_vars
    BY NextKeepsCards DEF LeavesAnswered, StaysAway
<1> QED
    BY <1>1, Invariant, PTL DEF Spec, NoCardAstray

==============================================================================
