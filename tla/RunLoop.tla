------------------------------- MODULE RunLoop -------------------------------
(***************************************************************************)
(* The run loop of a window (apps/desktop/src/stores/run.ts): what the     *)
(* person types, stops and answers, what other devices send, and the turns *)
(* and page calls that follow.                                             *)
(*                                                                         *)
(* The store runs on one thread, so an action is what a handler does from  *)
(* one await to the next.  me[h] is where handler h waits and what its     *)
(* locals hold.  Left out: texts, captures, the snapshot of the tabs, the  *)
(* unsure set (it can only refuse a call, and any call may be refused),    *)
(* late answers, and delegated tasks' cards.                               *)
(***************************************************************************)
EXTENDS Naturals, Sequences, FiniteSets

CONSTANTS Handlers,           \* invocations of send, answer, remote, ...
          Lines, Remotes,     \* what is typed here, what other devices send
          Calls,              \* the page calls the turns propose
          MaxContinuations,   \* MAX_CONTINUATIONS
          BusyRetries,        \* THREAD_BUSY_RETRIES
          MaxStops,           \* how often the person stops her
          None

ASSUME RunLoopAssumption == /\ None \notin Handlers \cup Remotes \cup Calls
                            /\ Lines \cap Remotes = {}
                            /\ IsFiniteSet(Calls)
                            /\ MaxContinuations \in Nat
                            /\ BusyRetries \in Nat
                            /\ MaxStops \in Nat

VARIABLES
    (* the store *)
    working,      \* phase is "running" or "acting", and neither "idle" nor "error"
    generation,   \* counts the stops
    inFlight,     \* the handler whose request a stop aborts
    outstanding,  \* answers of the page that have still to be told
    proposed,     \* calls the daemon has not answered itself
    waiting,      \* messages that wait for the exchange in progress
    queued,       \* the lines among them the person can still take back
    via,          \* the remote message the exchange in progress belongs to
    viaOf,        \* ... and the one each card was filed under
    cards, answering, answered,
    (* the handlers *)
    me,
    (* the daemon, the pages and the people *)
    decision,     \* what became of each call at the daemon
    bus,          \* cards decided on another device and not yet heard of
    listed,       \* the waiting cards in a GET /decisions answer not yet merged
    said,         \* messages typed or sent
    (* kept for the properties *)
    pushed,       \* every answer the page gave
    rode,         \* answers that left with a request that was not refused
    excused,      \* the last exchange was stopped, or failed
    ended         \* calls of a turn that were still to run when she was stopped

talk == <<waiting, queued, via, said>>
stack == <<viaOf, cards, answering, answered>>
world == <<decision, bus, listed>>
stops == <<generation, ended>>
turn == <<stops, inFlight, proposed>>
answers == <<outstanding, pushed, rode, excused>>
vars == <<working, turn, talk, stack, world, answers, me>>

InExchange == {"publish", "capture", "sent", "busy", "stream", "page", "called"}

(* A handler that has returned. *)
Free == [at |-> "free", kind |-> "none", mine |-> 0, began |-> 0, carried |-> {},
         aborted |-> FALSE, step |-> 0, tries |-> 0, offered |-> {}, coming |-> {},
         todo |-> {}, on |-> None, under |-> None, rows |-> <<>>, yes |-> {}, took |-> FALSE]

Init == /\ working = FALSE
        /\ generation = 0
        /\ inFlight = None
        /\ proposed = {}
        /\ waiting = <<>> /\ queued = {} /\ via = None /\ said = {}
        /\ viaOf = [c \in Calls |-> None]
        /\ cards = {} /\ answering = {} /\ answered = {}
        /\ decision = [c \in Calls |-> "unknown"]
        /\ bus = {} /\ listed = {}
        /\ outstanding = {} /\ pushed = {} /\ rode = {}
        /\ excused = FALSE /\ ended = {}
        /\ me = [h \in Handlers |-> Free]

Exchanging == {h \in Handlers : me[h].at \in InExchange}
Busy == working \/ Exchanging # {}     \* mainBusy

(* The answer of a call that ran unasked, or because its card was approved. *)
Result(c, asked) == [call |-> c, asked |-> asked]

Current(h) == me[h].mine = generation
Return(h) == me' = [me EXCEPT ![h] = Free]
Land(h) == inFlight' = IF inFlight = h THEN None ELSE inFlight

Push(results) == /\ outstanding' = outstanding \cup results
                 /\ pushed' = pushed \cup results

------------------------------------------------------------------------------
(* Exchanges *)

(* exchange: her handler h starts one, for itself or for a message.        *)
Begin(h, kind, gen) ==
    /\ working' = TRUE
    /\ me' = [me EXCEPT ![h] = [Free EXCEPT !.at = "publish", !.kind = kind, !.mine = gen]]

(* Mutant: nobody looks at what waited. *)
EndAway(h) == /\ me' = [me EXCEPT ![h] = Free]
              /\ via' = IF me[h].kind = "send" THEN via ELSE None

(* An exchange is over; what waited is looked at next.                     *)
End(h) == /\ me' = [me EXCEPT ![h] = [Free EXCEPT !.at = "drain"]]
          /\ via' = IF me[h].kind = "send" THEN via ELSE None

(* The turn of h is over, and so are the calls that it released. *)
ToCalled(h) == [me EXCEPT ![h] = [Free EXCEPT !.at = "called", !.kind = me[h].kind,
                                              !.mine = me[h].mine, !.step = me[h].step]]

(* consume, up to the capture: the request takes what is outstanding.      *)
Request(h, step) ==
    /\ me' = [me EXCEPT ![h] = [Free EXCEPT !.at = "capture", !.kind = me[h].kind,
                                            !.mine = me[h].mine, !.step = step,
                                            !.carried = outstanding]]
    /\ inFlight' = h
    /\ outstanding' = {}
    /\ excused' = FALSE
    /\ UNCHANGED <<pushed, rode>>

Published(h) ==
    /\ me[h].at = "publish"
    /\ \/ /\ Current(h)
          /\ Request(h, 0)
          /\ UNCHANGED via
       \/ /\ ~Current(h)
          /\ excused' = TRUE
          /\ End(h)
          /\ UNCHANGED <<inFlight, outstanding, pushed, rode>>
    /\ UNCHANGED <<working, stops, proposed, waiting, queued, said, stack, world>>

(* publish fails, or consume, which has no daemon or no page to ask for.   *)
PublishFails(h) ==
    /\ me[h].at = "publish"
    /\ working' = FALSE
    /\ excused' = TRUE
    /\ End(h)
    /\ UNCHANGED <<turn, waiting, queued, said, stack, world, outstanding, pushed, rode>>

(* Mutant: a request that never left forgets what it carried. *)
AbortedForgets(h) ==
    /\ me[h].at = "capture"
    /\ me[h].aborted
    /\ Land(h)
    /\ End(h)
    /\ UNCHANGED <<working, stops, proposed, waiting, queued, said, stack, world, answers>>

(* Stopped while the screenshot was taken: the request never leaves.       *)
Aborted(h) ==
    /\ me[h].at = "capture"
    /\ me[h].aborted
    /\ outstanding' = me[h].carried \cup outstanding
    /\ excused' = TRUE
    /\ Land(h)
    /\ End(h)
    /\ UNCHANGED <<working, stops, proposed, waiting, queued, said, stack, world,
                   pushed, rode>>

Captured(h) ==
    /\ me[h].at = "capture"
    /\ ~me[h].aborted
    /\ rode' = rode \cup me[h].carried
    /\ me' = [me EXCEPT ![h].at = "sent"]
    /\ UNCHANGED <<working, turn, talk, stack, world, outstanding, pushed, excused>>

Accepted(h) ==
    /\ me[h].at = "sent"
    /\ ~me[h].aborted
    /\ me' = [me EXCEPT ![h].at = "stream", ![h].carried = {}, ![h].tries = 0]
    /\ UNCHANGED <<working, turn, talk, stack, world, answers>>

(* Mutant: the request is sent again for as long as the thread is busy. *)
ThreadBusyForever(h) ==
    /\ me[h].at = "sent"
    /\ Current(h)
    /\ me' = [me EXCEPT ![h].at = "busy", ![h].tries = @ + 1]
    /\ UNCHANGED <<working, turn, talk, stack, world, answers>>

(* thread_busy: the same request is sent again, a little later.            *)
ThreadBusy(h) ==
    /\ me[h].at = "sent"
    /\ me[h].tries < BusyRetries
    /\ Current(h)
    /\ me' = [me EXCEPT ![h].at = "busy", ![h].tries = @ + 1]
    /\ UNCHANGED <<working, turn, talk, stack, world, answers>>

Retry(h) ==
    /\ me[h].at = "busy"
    /\ Current(h)
    /\ me' = [me EXCEPT ![h].at = "sent"]
    /\ UNCHANGED <<working, turn, talk, stack, world, answers>>

(* fail, unless the person's own stop ended it. *)
Failed(h) == /\ working' = (working /\ ~Current(h))
             /\ excused' = TRUE
             /\ Land(h)
             /\ End(h)
             /\ UNCHANGED <<stops, proposed, waiting, queued, said, stack, world, pushed>>

(* A refusal comes before any stream: what the request carried is unheard. *)
Refused(h) ==
    /\ me[h].at = "sent" \/ (me[h].at = "busy" /\ ~Current(h))
    /\ outstanding' = me[h].carried \cup outstanding
    /\ rode' = rode \ me[h].carried
    /\ Failed(h)

(* The connection breaks, or a stop has aborted it. *)
Broken(h) ==
    /\ me[h].at \in {"sent", "stream"}
    /\ Failed(h)
    /\ UNCHANGED <<outstanding, rode>>

(* The body ends without a terminal frame: the loop takes the turn as over. *)
EndOfBody(h) ==
    /\ me[h].at = "stream"
    /\ ~me[h].aborted
    /\ Land(h)
    /\ me' = ToCalled(h)
    /\ UNCHANGED <<working, stops, proposed, talk, stack, world, answers>>

(* What exchangeOnce does when consume has returned.  A continuation finds *)
(* no daemon or no page to start from as a first request does: it fails.   *)
Called(h) ==
    /\ me[h].at = "called"
    /\ \/ /\ ~Current(h)
          /\ excused' = TRUE
          /\ End(h)
          /\ UNCHANGED <<working, inFlight, outstanding, pushed, rode>>
       \/ /\ Current(h)
          /\ outstanding = {} \/ me[h].step = MaxContinuations
          /\ working' = FALSE
          /\ excused' = (excused \/ outstanding # {})
          /\ End(h)
          /\ UNCHANGED <<inFlight, outstanding, pushed, rode>>
       \/ /\ Current(h)
          /\ outstanding # {} /\ me[h].step < MaxContinuations
          /\ \/ Request(h, me[h].step + 1) /\ UNCHANGED <<working, via>>
             \/ /\ working' = FALSE
                /\ excused' = TRUE
                /\ End(h)
                /\ UNCHANGED <<inFlight, outstanding, pushed, rode>>
    /\ UNCHANGED <<stops, proposed, waiting, queued, said, stack, world>>

------------------------------------------------------------------------------
(* The frames of a turn *)

Streams(h) == me[h].at = "stream" /\ ~me[h].aborted

ToolCall(h, c) ==
    /\ Streams(h)
    /\ decision[c] = "unknown"
    /\ decision' = [decision EXCEPT ![c] = "proposed"]
    /\ proposed' = proposed \cup {c}
    /\ me' = [me EXCEPT ![h].offered = @ \cup {c}]
    /\ UNCHANGED <<working, stops, inFlight, talk, stack, bus, listed, answers>>

(* The daemon's gate files a card; its frames are still to come.           *)
Gate(h, c) ==
    /\ Streams(h)
    /\ c \in me[h].offered
    /\ decision[c] = "proposed"
    /\ decision' = [decision EXCEPT ![c] = "pending"]
    /\ me' = [me EXCEPT ![h].offered = @ \ {c}, ![h].coming = @ \cup {c}]
    /\ UNCHANGED <<working, turn, talk, stack, bus, listed, answers>>

(* tool.result (pending_approval) and decision.requested                   *)
DecisionRequested(h, c) ==
    /\ Streams(h)
    /\ c \in me[h].coming
    /\ me' = [me EXCEPT ![h].coming = @ \ {c}]
    /\ proposed' = proposed \ {c}
    /\ cards' = cards \cup {c}
    /\ viaOf' = [viaOf EXCEPT ![c] = IF via # None THEN via ELSE @]
    /\ UNCHANGED <<working, stops, inFlight, talk, answering, answered, world, answers>>

(* decision.resolved: the card was answered while the turn runs.           *)
DecisionResolved(h, c) ==
    /\ Streams(h)
    /\ c \in cards
    /\ decision[c] \in {"approved", "declined"}
    /\ cards' = cards \ {c}
    /\ UNCHANGED <<working, turn, talk, viaOf, answering, answered, world, answers, me>>

(* tool.result of a call the daemon ran, or refused, itself                *)
ToolResult(h, c) ==
    /\ Streams(h)
    /\ c \in me[h].offered
    /\ decision[c] = "proposed"
    /\ decision' = [decision EXCEPT ![c] = "done"]
    /\ proposed' = proposed \ {c}
    /\ me' = [me EXCEPT ![h].offered = @ \ {c}]
    /\ UNCHANGED <<working, stops, inFlight, talk, stack, bus, listed, answers>>

TurnError(h) ==
    /\ Streams(h)
    /\ me[h].coming = {}
    /\ proposed' = {}
    /\ working' = FALSE
    /\ excused' = TRUE
    /\ Land(h)
    /\ End(h)
    /\ UNCHANGED <<stops, waiting, queued, said, stack, world, outstanding, pushed, rode>>

(* onPage, for the calls of a turn one after the other.  Any of them may   *)
(* be refused before it is sent; one is sent, or none is left.             *)
RunCalls(h, cs, results) == \E refused \in SUBSET cs :
    /\ Push(results \cup {Result(c, FALSE) : c \in refused})
    /\ \/ /\ refused = cs
          /\ me' = ToCalled(h)
       \/ \E c \in cs \ refused :
              me' = [me EXCEPT ![h].at = "page", ![h].on = c, ![h].began = generation,
                               ![h].offered = {}, ![h].todo = cs \ (refused \cup {c})]

Finished(h) ==
    /\ Streams(h)
    /\ me[h].coming = {}
    /\ proposed' = {}
    /\ Land(h)
    /\ RunCalls(h, proposed, {})
    /\ working' = (working \/ me'[h].at = "page")
    /\ UNCHANGED <<stops, talk, stack, world, rode, excused>>

PageAnswers(h) ==
    /\ me[h].at = "page"
    /\ \/ /\ me[h].began = generation
          /\ RunCalls(h, me[h].todo, {Result(me[h].on, FALSE)})
          /\ working' = TRUE
       \/ /\ me[h].began # generation
          /\ Push({Result(c, FALSE) : c \in {me[h].on} \cup me[h].todo})
          /\ me' = ToCalled(h)
          /\ UNCHANGED working
    /\ UNCHANGED <<turn, talk, stack, world, rode, excused>>

------------------------------------------------------------------------------
(* Cards *)

(* A press of the buttons of some cards, and the walk over its rows.       *)
Press(h, kind, rows, yes) ==
    /\ me[h].at = "free"
    /\ \A i \in DOMAIN rows : rows[i] \in cards \ answering
    /\ me' = [me EXCEPT ![h] = [Free EXCEPT !.at = "row", !.kind = kind, !.mine = generation,
                                            !.under = viaOf[rows[1]], !.rows = rows,
                                            !.yes = yes]]
    /\ UNCHANGED <<working, turn, talk, stack, world, answers>>

(* answer: one card, approved or declined *)
Answer(h, c, yes) == Press(h, "answer", <<c>>, IF yes THEN {c} ELSE {})

(* answerSheet: the unticked rows are declined first, in order.  A row of  *)
(* the sheet that is not among Calls can only end the walk early.          *)
AnswerSheet(h, rows, yes) ==
    /\ \A i, j \in DOMAIN rows : i < j /\ rows[j] \notin yes => rows[i] \notin yes
    /\ yes \subseteq {rows[i] : i \in DOMAIN rows}
    /\ Press(h, "sheet", rows, yes)

(* reask: cards whose page moved are declined, and asked for again.        *)
Reask(h, rows) ==
    /\ ~Busy
    /\ via = None
    /\ Press(h, "reask", rows, {})

Row(h) == Head(me[h].rows)
Walking(h) == me[h].at = "row" /\ me[h].rows # <<>>

(* The walk goes on, or stops at a row that was to be approved.            *)
Past(h, ok) == [me EXCEPT ![h].at = "row", ![h].began = 0,
                          ![h].rows = IF ok THEN Tail(@) ELSE <<>>,
                          ![h].yes = IF ok THEN @ \ {Row(h)} ELSE {}]

(* What an answer must come to for its handler to carry on. *)
Counts(h) == \/ me[h].kind = "answer" /\ me[h].yes # {}
             \/ me[h].kind = "reask"

(* answerOne, until it has asked the daemon.  A row that is answered, or   *)
(* on its way, is not answered twice; if its tab moved it is not approved. *)
AskDaemon(h) ==
    /\ Walking(h)
    /\ LET c == Row(h)
           busy == c \in answering \cup answered
       IN  \/ /\ busy \/ c \in me[h].yes
              /\ me' = Past(h, c \notin me[h].yes)
              /\ UNCHANGED answering
           \/ /\ ~busy
              /\ me' = [me EXCEPT ![h].at = "resolve"]
              /\ answering' = answering \cup {c}
    /\ UNCHANGED <<working, turn, talk, viaOf, cards, answered, world, answers>>

(* The daemon took the answer. *)
Resolved(h) ==
    /\ me[h].at = "resolve"
    /\ LET c == Row(h) IN
       /\ decision[c] = "pending"
       /\ decision' = [decision EXCEPT ![c] = IF c \in me[h].yes THEN "approved" ELSE "declined"]
       /\ cards' = cards \ {c}
       /\ answering' = answering \ {c}
       /\ answered' = answered \cup {c}
       /\ me' = IF c \in me[h].yes
                THEN [me EXCEPT ![h].at = "granted", ![h].took = Counts(h)]
                ELSE [Past(h, TRUE) EXCEPT ![h].took = Counts(h)]
    /\ UNCHANGED <<working, turn, talk, viaOf, bus, listed, answers>>

(* It was refused, or its reply was lost.  On unknown_ref the card goes,   *)
(* though the daemon says that, too, of a card whose project is gone or is *)
(* being erased while its row still waits (decide).                        *)
NotResolved(h) ==
    /\ me[h].at = "resolve"
    /\ LET c == Row(h) IN
       /\ \/ decision' = decision /\ cards' \in {cards, cards \ {c}}
          \/ /\ decision[c] = "pending"
             /\ decision' = [decision EXCEPT ![c] = IF c \in me[h].yes THEN "approved" ELSE "declined"]
             /\ UNCHANGED cards
       /\ answering' = answering \ {c}
       /\ me' = Past(h, c \notin me[h].yes)
    /\ UNCHANGED <<working, turn, talk, viaOf, answered, bus, listed, answers>>

(* onPage, for a call whose card was approved: it runs on the document it  *)
(* was proposed on, or not at all.  The daemon runs a tool of its own.     *)
RunApproved(h, c) ==
    \/ \E ok \in BOOLEAN :
       /\ Push({Result(c, TRUE)})
       /\ me' = Past(h, ok)
       /\ UNCHANGED working
    \/ /\ me' = [me EXCEPT ![h].at = "acting", ![h].began = generation]
       /\ working' = TRUE
       /\ UNCHANGED <<outstanding, pushed>>

Granted(h) ==
    /\ me[h].at = "granted"
    /\ RunApproved(h, Row(h))
    /\ UNCHANGED <<turn, talk, stack, world, rode, excused>>

(* The page answers; a contract the person approved is accepted next.      *)
ActingAnswers(h) ==
    /\ me[h].at = "acting"
    /\ Push({Result(Row(h), TRUE)})
    /\ \/ /\ me' = [me EXCEPT ![h].at = "accept"]
          /\ UNCHANGED working
       \/ /\ me' = Past(h, FALSE)
          /\ working' = (working \/ me[h].began = generation)
    /\ UNCHANGED <<turn, talk, stack, world, rode, excused>>

ContractAccepted(h) ==
    /\ me[h].at = "accept"
    /\ me' = Past(h, TRUE)
    /\ working' = (working \/ me[h].began = generation)
    /\ UNCHANGED <<turn, talk, stack, world, answers>>

(* Mutant: what ran is left to an exchange that may be over already. *)
CarryOnIfIdle(h) ==
    IF Busy \/ (outstanding = {} /\ me[h].kind # "reask")
    THEN /\ me' = [me EXCEPT ![h] = [Free EXCEPT !.at = "drain"]]
         /\ UNCHANGED <<working, via>>
    ELSE /\ Begin(h, me[h].kind, generation)
         /\ via' = IF me[h].under # None THEN me[h].under ELSE via

(* carryOn: an exchange in progress will carry what is outstanding itself. *)
CarryOn(h) ==
    IF Exchanging # {} \/ (outstanding = {} /\ me[h].kind # "reask")
    THEN /\ me' = [me EXCEPT ![h] = [Free EXCEPT !.at = "drain"]]
         /\ UNCHANGED <<working, via>>
    ELSE /\ Begin(h, me[h].kind, generation)
         /\ via' = IF me[h].under # None THEN me[h].under ELSE via

(* The walk is over.  Whether the handler carries on depends on what it    *)
(* was, and on whether the person stopped her meanwhile.                   *)
Walked(h) ==
    /\ me[h].at = "row"
    /\ me[h].rows = <<>>
    /\ LET kind == me[h].kind
           over == \/ kind = "answer" /\ ~me[h].took
                   \/ kind = "reask" /\ ~(me[h].took /\ Current(h))
           stopped == kind \in {"answer", "sheet"} /\ ~Current(h)
       IN \/ /\ over
             /\ Return(h)
             /\ UNCHANGED <<working, via>>
          \/ /\ ~over /\ stopped
             /\ working' = FALSE
             /\ Return(h)
             /\ UNCHANGED via
          \/ /\ ~over /\ kind = "decided" /\ ~Current(h)
             /\ me' = [me EXCEPT ![h] = [Free EXCEPT !.at = "drain"]]
             /\ UNCHANGED <<working, via>>
          \/ /\ ~over /\ Current(h)
             /\ CarryOn(h)
    /\ excused' = (excused \/ ~Current(h))
    /\ UNCHANGED <<turn, waiting, queued, said, stack, world, outstanding, pushed, rode>>

(* remoteDecided: the answer a card got on another device.                 *)
RemoteDecided(h, c) ==
    /\ me[h].at = "free"
    /\ c \in bus
    /\ bus' = bus \ {c}
    /\ cards' = cards \ {c}
    /\ answered' = IF c \in cards THEN answered \cup {c} ELSE answered
    /\ \/ /\ c \in cards
          /\ decision[c] = "approved"
          /\ me' = [me EXCEPT ![h] = [Free EXCEPT !.at = "granted", !.kind = "decided",
                                                  !.mine = generation, !.under = viaOf[c],
                                                  !.rows = <<c>>, !.yes = {c}]]
       \/ /\ ~(c \in cards /\ decision[c] = "approved")
          /\ UNCHANGED me
    /\ UNCHANGED <<working, turn, talk, viaOf, answering, decision, listed, answers>>

(* reconcile, until the daemon answered with the cards that wait there.    *)
ReadDecisions ==
    /\ listed = {}
    /\ listed' = {c \in Calls : decision[c] = "pending"}
    /\ listed' # {}
    /\ UNCHANGED <<working, turn, talk, stack, decision, bus, answers, me>>

(* Mutant: whatever the list holds is put on screen. *)
MergeAll ==
    /\ listed # {}
    /\ cards' = cards \cup listed
    /\ listed' = {}
    /\ UNCHANGED <<working, turn, talk, viaOf, answering, answered, decision, bus, answers, me>>

(* mergeCards, once its module is loaded: what is answered by then, or is  *)
(* being answered, is left out.                                            *)
Merge ==
    /\ listed # {}
    /\ cards' = cards \cup (listed \ (answering \cup answered))
    /\ listed' = {}
    /\ UNCHANGED <<working, turn, talk, viaOf, answering, answered, decision, bus, answers, me>>

------------------------------------------------------------------------------
(* What is typed, stopped and sent *)

Wait(l, lined) == /\ waiting' = Append(waiting, [what |-> l, lined |-> lined])
                  /\ said' = said \cup {l}

(* send, while another device's message runs: it waits for that exchange.  *)
TypeAside(l) ==
    /\ l \notin said
    /\ via # None
    /\ Wait(l, FALSE)
    /\ UNCHANGED <<working, turn, queued, via, stack, world, answers, me>>

(* send, while she works: it waits in line, and can be taken back.         *)
TypeNext(l) ==
    /\ l \notin said
    /\ via = None
    /\ Busy
    /\ Wait(l, TRUE)
    /\ queued' = queued \cup {l}
    /\ UNCHANGED <<working, turn, via, stack, world, answers, me>>

Unqueue(l) ==
    /\ l \in queued
    /\ queued' = queued \ {l}
    /\ UNCHANGED <<working, turn, waiting, via, said, stack, world, answers, me>>

TypeNow(h, l) ==
    /\ me[h].at = "free"
    /\ l \notin said
    /\ via = None
    /\ ~Busy
    /\ Begin(h, "send", generation)
    /\ said' = said \cup {l}
    /\ UNCHANGED <<turn, waiting, queued, via, stack, world, answers>>

(* Mutant: the calls she proposed are still to run after the stop. *)
HaltKeepsCalls ==
    /\ generation < MaxStops
    /\ generation' = generation + 1
    /\ ended' = ended \cup proposed \cup UNION {me[h].todo : h \in Handlers}
    /\ inFlight' = None
    /\ excused' = TRUE
    /\ UNCHANGED <<proposed, outstanding, pushed, rode>>

(* halt: the request in flight is aborted, what was to run is dropped.     *)
Halt == /\ generation < MaxStops
        /\ generation' = generation + 1
        /\ ended' = ended \cup proposed \cup UNION {me[h].todo : h \in Handlers}
        /\ proposed' = {}
        /\ inFlight' = None
        /\ excused' = TRUE
        /\ UNCHANGED <<outstanding, pushed, rode>>

Aborting == [h \in Handlers |-> [me[h] EXCEPT !.aborted = (@ \/ h = inFlight)]]

Stop ==
    /\ working
    /\ Halt
    /\ working' = FALSE
    /\ me' = Aborting
    /\ UNCHANGED <<talk, stack, world>>

(* send, when it interrupts her: it goes on once the daemon was told.      *)
Interrupt(h, l) ==
    /\ me[h].at = "free"
    /\ l \notin said
    /\ via = None
    /\ Busy
    /\ said' = said \cup {l}
    /\ \/ /\ working /\ inFlight # None
          /\ Halt
          /\ working' = FALSE
          /\ me' = [Aborting EXCEPT ![h] = [Free EXCEPT !.at = "halting"]]
       \/ /\ working /\ inFlight = None
          /\ Halt
          /\ Begin(h, "send", generation + 1)
       \/ /\ ~working
          /\ Begin(h, "send", generation)
          /\ UNCHANGED <<turn, answers>>
    /\ UNCHANGED <<waiting, queued, via, stack, world>>

Resume(h) ==
    /\ me[h].at = "halting"
    /\ Begin(h, "send", generation)
    /\ UNCHANGED <<turn, talk, stack, world, answers>>

(* remote, once the daemon has accepted the message for this window.       *)
RemoteMessage(h, m) ==
    /\ me[h].at = "free"
    /\ m \notin said
    /\ Wait(m, FALSE)
    /\ me' = [me EXCEPT ![h] = [Free EXCEPT !.at = "drain"]]
    /\ UNCHANGED <<working, turn, queued, via, stack, world, answers>>

(* drainRemote: one message that waited, if she is free to run it.         *)
Drain(h) ==
    /\ me[h].at = "drain"
    /\ IF Busy \/ via # None \/ waiting = <<>>
       THEN Return(h) /\ UNCHANGED <<working, waiting, queued, via>>
       ELSE LET next == Head(waiting) IN
            /\ waiting' = Tail(waiting)
            /\ queued' = queued \ {next.what}
            /\ \/ /\ next.lined /\ next.what \notin queued   \* taken back
                  /\ UNCHANGED <<working, via, me>>
               \/ /\ next.what \in Remotes                   \* the app is not open here
                  /\ UNCHANGED <<working, via, me>>
               \/ /\ next.what \in Remotes
                  /\ via' = next.what
                  /\ Begin(h, "remote", generation)
               \/ /\ next.what \in Lines
                  /\ next.lined => next.what \in queued
                  /\ Begin(h, "send", generation)
                  /\ UNCHANGED via
    /\ UNCHANGED <<turn, said, stack, world, answers>>

------------------------------------------------------------------------------
(* The daemon's other windows, and the pages *)

PeerDecides(c) ==
    /\ decision[c] = "pending"
    /\ \E status \in {"approved", "declined"} : decision' = [decision EXCEPT ![c] = status]
    /\ bus' = bus \cup {c}
    /\ UNCHANGED <<working, turn, talk, stack, listed, answers, me>>

------------------------------------------------------------------------------
Rows == UNION {[1 .. n -> Calls] : n \in 1 .. Cardinality(Calls)}
Distinct(rows) == \A i, j \in DOMAIN rows : rows[i] = rows[j] => i = j

Exchange(h) ==
    \/ Published(h) \/ PublishFails(h) \/ Aborted(h) \/ Captured(h) \/ Accepted(h)
    \/ ThreadBusy(h) \/ Retry(h) \/ Refused(h) \/ Broken(h) \/ EndOfBody(h) \/ Called(h)
    \/ TurnError(h) \/ Finished(h) \/ PageAnswers(h)
    \/ \E c \in Calls : ToolCall(h, c) \/ Gate(h, c) \/ DecisionRequested(h, c) \/ DecisionResolved(h, c)
                        \/ ToolResult(h, c)

Card(h) ==
    \/ AskDaemon(h) \/ Resolved(h) \/ NotResolved(h) \/ Granted(h)
    \/ ActingAnswers(h) \/ ContractAccepted(h) \/ Walked(h)
    \/ \E c \in Calls : RemoteDecided(h, c) \/ Answer(h, c, TRUE) \/ Answer(h, c, FALSE)
    \/ \E rows \in Rows : /\ Distinct(rows)
                          /\ \/ Reask(h, rows)
                             \/ \E yes \in SUBSET Calls : AnswerSheet(h, rows, yes)

Message(h) == \/ \E l \in Lines : TypeNow(h, l) \/ Interrupt(h, l)
              \/ \E m \in Remotes : RemoteMessage(h, m)
              \/ Resume(h) \/ Drain(h)

Next == \/ \E h \in Handlers : Exchange(h) \/ Card(h) \/ Message(h)
        \/ \E l \in Lines : TypeAside(l) \/ TypeNext(l) \/ Unqueue(l)
        \/ Stop \/ ReadDecisions \/ Merge
        \/ \E c \in Calls : PeerDecides(c)

Spec == Init /\ [][Next]_vars

------------------------------------------------------------------------------
(* Every variable has its type; retries and continuations stay within      *)
(* their bounds, and a stop only ever aborts a request that is on its way. *)
TypeOK ==
    /\ working \in BOOLEAN /\ excused \in BOOLEAN
    /\ generation \in 0 .. MaxStops
    /\ via \in Remotes \cup {None}
    /\ viaOf \in [Calls -> Remotes \cup {None}]
    /\ queued \subseteq Lines /\ said \subseteq Lines \cup Remotes
    /\ cards \cup answering \cup answered \cup proposed \cup bus \cup listed \cup ended
           \subseteq Calls
    /\ decision \in [Calls -> {"unknown", "proposed", "pending", "done", "approved", "declined"}]
    /\ \A h \in Handlers : me[h].tries <= BusyRetries /\ me[h].step <= MaxContinuations
    /\ inFlight # None => me[inFlight].at \in {"capture", "sent", "busy", "stream"}

(* An answer of the page is told to her exactly once: it waits, or goes    *)
(* with one request, whatever is stopped, refused or sent again meanwhile. *)
Carrying == {h \in Handlers : me[h].at = "capture"}
ResultsKept ==
    /\ pushed = outstanding \cup rode \cup UNION {me[h].carried : h \in Carrying}
    /\ outstanding \cap rode = {}
    /\ \A h \in Carrying :
          /\ me[h].carried \cap (outstanding \cup rode) = {}
          /\ \A g \in Carrying \ {h} : me[g].carried \cap me[h].carried = {}

(* No call that a turn left to a page, and that was still to run when the  *)
(* person stopped her, is sent there afterwards, through this turn or a    *)
(* later one.  Cards are another matter: answerSheet does not look at the  *)
(* generation, so rows ticked before a stop are approved and run after it. *)
StopHolds == \A h \in Handlers : me[h].at = "page" => me[h].on \notin ended

(* A card leaves the screen when its answer is known to the daemon, or was *)
(* just refused there, and for no other reason; and once it was answered,  *)
(* here or elsewhere, no list read before brings it back.  Only the frame  *)
(* that first files it may come later than its answer.                     *)
Asked(c) == \E h \in Handlers : me[h].at = "resolve" /\ Row(h) = c
NoCardAstray ==
    [][/\ \A c \in cards \ cards' : decision'[c] # "pending" \/ Asked(c)
       /\ \A c \in cards' \ cards : c \in answered => \E h \in Handlers : c \in me[h].coming]_vars

(* When the window has come to rest, what the page answered has been told, *)
(* unless the person stopped her or the exchange failed.                   *)
AtRest == \A h \in Handlers : me[h].at = "free"
AnswersAreCarried == AtRest /\ ~excused => outstanding = {}

(* When the window has come to rest, idle and never stopped, nothing that  *)
(* was typed or sent is left waiting.                                      *)
Runnable == {i \in DOMAIN waiting : waiting[i].lined => waiting[i].what \in queued}
QueueDrains == AtRest /\ ~working /\ generation = 0 => Runnable = {}

(* A call the daemon holds a card for runs on a page only after the answer. *)
NoneUnasked == \A h \in Handlers : me[h].at = "page" => decision[me[h].on] \notin {"pending", "declined"}

==============================================================================
