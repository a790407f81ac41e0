------------------------- MODULE ProjectSpacesProofs -------------------------
(***************************************************************************)
(* Projects and their erase, for any projects and memories and any finite  *)
(* number of request threads.                                              *)
(*                                                                         *)
(* The books of a project balance because a counter and a mark follow two  *)
(* sets of threads, so the inductive invariant has the balance itself, one *)
(* eraser per project (OneEraser), and what a thread knows while it is     *)
(* under way (ThreadOK): where it is, and how far its erase has come.      *)
(***************************************************************************)
EXTENDS ProjectSpaces, FiniteSetTheorems, TLAPS

Removing == {"told", "unfiled", "unrowed"}
Emptied == {"unfiled", "unrowed"}

ThreadOK(t) ==
    /\ pc[t] = "idle" <=> at[t] = NoSpace
    /\ pc[t] \in {"filing", "adding"} => writing[t] \in Memories
    /\ pc[t] \in Removing => at[t] \in erasures
    /\ pc[t] \in Emptied => doomed[at[t]] \cap disk[at[t]] = {}

ThreadsOK == \A t \in Threads : ThreadOK(t)

OneEraser == \A t, u \in Threads :
    pc[t] \in Erasing /\ pc[u] \in Erasing /\ at[t] = at[u] => t = u

IInv == TypeOK /\ ThreadsOK /\ OneEraser /\ BooksBalance

------------------------------------------------------------------------------
(* The two books *)

LEMMA TurnsFinite ==
    ASSUME NEW s
    PROVE  IsFiniteSet(TurnsIn(s)) /\ Cardinality(TurnsIn(s)) \in Nat
<1>1. IsFiniteSet(TurnsIn(s))
    BY SpacesAssumption, FS_Subset DEF TurnsIn
<1> QED
    BY <1>1, FS_CardinalityType

(* A project with a count of zero has no turn in it. *)
LEMMA NobodyInside ==
    ASSUME BooksBalance, NEW s \in Spaces, turns[s] = 0
    PROVE  TurnsIn(s) = {}
<1>1. Cardinality(TurnsIn(s)) = 0
    BY DEF BooksBalance
<1> QED
    BY <1>1, TurnsFinite, FS_EmptySet

(* A step that moves no thread in or out keeps the books. *)
LEMMA QuietBooks ==
    ASSUME BooksBalance, turns' = turns, erasing' = erasing,
           \A s \in Spaces : TurnsIn(s)' = TurnsIn(s) /\ ErasesOf(s)' = ErasesOf(s)
    PROVE  BooksBalance'
BY DEF BooksBalance

(* A thread that is where it was, or goes from one place outside both      *)
(* books to another, is in the same books as before.                       *)
LEMMA Elsewhere ==
    ASSUME NEW t \in Threads,
           \A u \in Threads \ {t} : pc'[u] = pc[u] /\ at'[u] = at[u],
           \/ pc[t] \notin Inside /\ pc'[t] \notin Inside
           \/ pc[t] \in Inside /\ pc'[t] \in Inside /\ at'[t] = at[t],
           \/ pc[t] \notin Erasing /\ pc'[t] \notin Erasing
           \/ pc[t] \in Erasing /\ pc'[t] \in Erasing /\ at'[t] = at[t]
    PROVE  \A s \in Spaces : TurnsIn(s)' = TurnsIn(s) /\ ErasesOf(s)' = ErasesOf(s)
<1> SUFFICES ASSUME NEW s \in Spaces
             PROVE  TurnsIn(s)' = TurnsIn(s) /\ ErasesOf(s)' = ErasesOf(s)
    OBVIOUS
<1>1. \A u \in Threads : u \in TurnsIn(s)' <=> u \in TurnsIn(s)
    BY DEF TurnsIn
<1>2. \A u \in Threads : u \in ErasesOf(s)' <=> u \in ErasesOf(s)
    BY DEF ErasesOf
<1> QED
    BY <1>1, <1>2 DEF TurnsIn, ErasesOf

LEMMA UnderWay ==
    ASSUME IInv, NEW t \in Threads, pc[t] # "idle"
    PROVE  at[t] \in Spaces
BY DEF IInv, TypeOK, ThreadsOK, ThreadOK

LEMMA Initially == Init => IInv
<1> SUFFICES ASSUME Init PROVE IInv
    OBVIOUS
<1>1. TypeOK
    BY DEF Init, TypeOK, Stages, Inside, Erasing
<1>2. ThreadsOK /\ OneEraser
    BY DEF Init, ThreadsOK, ThreadOK, OneEraser, Removing, Emptied, Erasing
<1>3. \A s \in Spaces : TurnsIn(s) = {} /\ ErasesOf(s) = {}
    BY DEF Init, TurnsIn, ErasesOf, Inside, Erasing
<1>4. BooksBalance
    BY <1>3, FS_EmptySet DEF Init, BooksBalance
<1> QED
    BY <1>1, <1>2, <1>4 DEF IInv

------------------------------------------------------------------------------
(* Every action keeps the inductive invariant: a lemma for each.           *)

LEMMA CreateSpaceStep == ASSUME IInv, NEW s \in Spaces, CreateSpace(s) PROVE IInv'
<1> USE DEF CreateSpace, memory, locals
<1>1. TypeOK'
    BY DEF IInv, TypeOK
<1>2. ThreadsOK'
    BY DEF IInv, ThreadsOK, ThreadOK
<1>3. OneEraser'
    BY DEF IInv, OneEraser
<1>4. BooksBalance'
    BY DEF IInv, BooksBalance, TurnsIn, ErasesOf
<1> QED
    BY <1>1, <1>2, <1>3, <1>4 DEF IInv

LEMMA AskStep == ASSUME IInv, NEW t \in Threads, NEW s \in Spaces, Ask(t, s) PROVE IInv'
<1> USE DEF Ask, Arrive, Goto, durable, memory
<1>1. TypeOK'
    BY DEF IInv, TypeOK, Stages
<1>2. ThreadsOK'
    BY SpacesAssumption DEF IInv, TypeOK, ThreadsOK, ThreadOK, Removing, Emptied
<1>3. OneEraser'
    BY DEF IInv, TypeOK, OneEraser, Erasing
<1>4. BooksBalance'
    BY Elsewhere, QuietBooks DEF IInv, TypeOK, Inside, Erasing
<1> QED
    BY <1>1, <1>2, <1>3, <1>4 DEF IInv

LEMMA EnterStep == ASSUME IInv, NEW t \in Threads, Enter(t) PROVE IInv'
<1> DEFINE s == at[t]
<1>0. s \in Spaces /\ pc[t] = "asked" /\ pc' = [pc EXCEPT ![t] = "inside"]
    BY UnderWay DEF Enter, Goto
<1>1. TypeOK'
    BY <1>0 DEF IInv, TypeOK, Enter, durable, Stages, Inside
<1>2. ThreadsOK'
    BY <1>0 DEF IInv, TypeOK, ThreadsOK, ThreadOK, Enter, durable, Removing, Emptied
<1>3. OneEraser'
    BY <1>0 DEF IInv, TypeOK, OneEraser, Enter, Erasing
<1>4. BooksBalance'
    <2> SUFFICES ASSUME NEW r \in Spaces
                 PROVE  /\ turns'[r] = Cardinality(TurnsIn(r)')
                        /\ r \in erasing' <=> ErasesOf(r)' # {}
        BY DEF BooksBalance
    <2>1. ErasesOf(r)' = ErasesOf(r)
        BY <1>0 DEF IInv, TypeOK, Enter, ErasesOf, Erasing
    <2>2. turns[r] = Cardinality(TurnsIn(r)) /\ (r \in erasing <=> ErasesOf(r) # {})
        BY DEF IInv, BooksBalance
    <2>3. CASE r = s
        <3>1. TurnsIn(s)' = TurnsIn(s) \cup {t} /\ t \notin TurnsIn(s)
            BY <1>0 DEF IInv, TypeOK, Enter, TurnsIn, Inside
        <3>2. Cardinality(TurnsIn(s)') = Cardinality(TurnsIn(s)) + 1
            BY <3>1, TurnsFinite, FS_AddElement
        <3> QED
            BY <1>0, <2>1, <2>2, <2>3, <3>2 DEF IInv, TypeOK, Enter
    <2>4. CASE r # s
        <3>1. TurnsIn(r)' = TurnsIn(r)
            BY <1>0, <2>4 DEF IInv, TypeOK, Enter, TurnsIn, Inside
        <3> QED
            BY <1>0, <2>1, <2>2, <2>4, <3>1 DEF IInv, TypeOK, Enter
    <2> QED
        BY <2>3, <2>4
<1> QED
    BY <1>1, <1>2, <1>3, <1>4 DEF IInv

LEMMA TurnedAwayStep == ASSUME IInv, NEW t \in Threads, TurnedAway(t) PROVE IInv'
<1> USE DEF TurnedAway, Arrive, Goto, durable, memory
<1>1. TypeOK'
    BY DEF IInv, TypeOK, Stages, Inside, Erasing
<1>2. ThreadsOK'
    BY SpacesAssumption DEF IInv, TypeOK, ThreadsOK, ThreadOK, Removing, Emptied
<1>3. OneEraser'
    BY DEF IInv, TypeOK, OneEraser, Erasing
<1>4. BooksBalance'
    BY Elsewhere, QuietBooks DEF IInv, TypeOK, Inside, Erasing
<1> QED
    BY <1>1, <1>2, <1>3, <1>4 DEF IInv

LEMMA SayFileStep == ASSUME IInv, NEW t \in Threads, SayFile(t) PROVE IInv'
<1> USE DEF SayFile, AppendFile, Goto, memory
<1>1. at[t] \in Spaces /\ pc[t] = "inside" /\ pc' = [pc EXCEPT ![t] = "filing"]
    BY UnderWay
<1>2. PICK m \in Memories : /\ \A r \in Spaces : m \notin doomed[r]
                            /\ disk' = [disk EXCEPT ![at[t]] = @ \cup {m}]
                            /\ writing' = [writing EXCEPT ![t] = m]
    OBVIOUS
<1>3. TypeOK'
    BY <1>1, <1>2 DEF IInv, TypeOK, Stages, Inside
<1>4. ThreadsOK'
    <2> SUFFICES ASSUME NEW u \in Threads PROVE ThreadOK(u)'
        BY DEF ThreadsOK
    <2>1. ThreadOK(u) /\ (pc[u] # "idle" => at[u] \in Spaces)
        BY UnderWay DEF IInv, ThreadsOK
    <2>2. pc'[u] \in Emptied => doomed'[at'[u]] \cap disk'[at'[u]] = {}
        <3> SUFFICES ASSUME pc'[u] \in Emptied PROVE doomed[at[u]] \cap disk'[at[u]] = {}
            OBVIOUS
        <3>1. pc[u] \in Emptied
            BY <1>1 DEF IInv, TypeOK, Emptied
        <3>2. disk'[at[u]] \subseteq disk[at[u]] \cup {m} /\ m \notin doomed[at[u]]
            BY <1>2, <2>1, <3>1 DEF IInv, TypeOK, Emptied
        <3> QED
            BY <2>1, <3>1, <3>2 DEF ThreadOK
    <2> QED
        BY <1>1, <1>2, <2>1, <2>2 DEF IInv, TypeOK, ThreadOK, Removing, Emptied
<1>5. OneEraser'
    BY <1>1 DEF IInv, TypeOK, OneEraser, Erasing
<1>6. BooksBalance'
    BY <1>1, Elsewhere, QuietBooks DEF IInv, TypeOK, Inside, Erasing
<1> QED
    BY <1>3, <1>4, <1>5, <1>6 DEF IInv

LEMMA SayRowStep == ASSUME IInv, NEW t \in Threads, SayRow(t) PROVE IInv'
<1> USE DEF SayRow, AppendRow, Arrive, Goto, memory
<1>1. TypeOK'
    BY UnderWay DEF IInv, TypeOK, ThreadsOK, ThreadOK, Stages, Inside
<1>2. ThreadsOK'
    BY UnderWay, SpacesAssumption DEF IInv, TypeOK, ThreadsOK, ThreadOK, Removing, Emptied
<1>3. OneEraser'
    BY DEF IInv, TypeOK, OneEraser, Erasing
<1>4. BooksBalance'
    BY Elsewhere, QuietBooks DEF IInv, TypeOK, Inside, Erasing
<1> QED
    BY <1>1, <1>2, <1>3, <1>4 DEF IInv

LEMMA DelegateStep == ASSUME IInv, NEW t \in Threads, Delegate(t) PROVE IInv'
<1> USE DEF Delegate, memory, locals
<1>1. TypeOK'
    BY UnderWay DEF IInv, TypeOK, Stages, Inside, Erasing
<1>2. ThreadsOK'
    BY SpacesAssumption DEF IInv, TypeOK, ThreadsOK, ThreadOK, Removing, Emptied
<1>3. OneEraser'
    BY DEF IInv, TypeOK, OneEraser, Erasing
<1>4. BooksBalance'
    BY DEF IInv, BooksBalance, TurnsIn, ErasesOf
<1> QED
    BY <1>1, <1>2, <1>3, <1>4 DEF IInv

LEMMA LeaveStep == ASSUME IInv, NEW t \in Threads, Leave(t) PROVE IInv'
<1> DEFINE s == at[t]
<1>0. s \in Spaces /\ pc[t] \in Inside /\ pc' = [pc EXCEPT ![t] = "left"]
    BY UnderWay DEF Leave, Inside
<1>1. TypeOK'
    BY <1>0 DEF IInv, TypeOK, Leave, durable, Stages
<1>2. ThreadsOK'
    BY <1>0 DEF IInv, TypeOK, ThreadsOK, ThreadOK, Leave, durable, Inside, Removing, Emptied
<1>3. OneEraser'
    BY <1>0 DEF IInv, TypeOK, OneEraser, Leave, Erasing
<1>4. BooksBalance'
    <2> SUFFICES ASSUME NEW r \in Spaces
                 PROVE  /\ turns'[r] = Cardinality(TurnsIn(r)')
                        /\ r \in erasing' <=> ErasesOf(r)' # {}
        BY DEF BooksBalance
    <2>1. ErasesOf(r)' = ErasesOf(r)
        BY <1>0 DEF IInv, TypeOK, Leave, ErasesOf, Erasing, Inside
    <2>2. turns[r] = Cardinality(TurnsIn(r)) /\ (r \in erasing <=> ErasesOf(r) # {})
        BY DEF IInv, BooksBalance
    <2>3. CASE r = s
        <3>1. TurnsIn(s)' = TurnsIn(s) \ {t} /\ t \in TurnsIn(s)
            BY <1>0 DEF IInv, TypeOK, Leave, TurnsIn, Inside
        <3>2. Cardinality(TurnsIn(s)') = Cardinality(TurnsIn(s)) - 1
            BY <3>1, TurnsFinite, FS_RemoveElement
        <3>3. Cardinality(TurnsIn(s)') \in Nat
            BY <3>1, TurnsFinite, FS_RemoveElement, FS_CardinalityType
        <3>4. turns'[s] = IF turns[s] > 1 THEN turns[s] - 1 ELSE 0
            BY <1>0 DEF IInv, TypeOK, Leave
        <3> QED
            BY <1>0, <2>1, <2>2, <2>3, <3>2, <3>3, <3>4 DEF IInv, TypeOK, Leave
    <2>4. CASE r # s
        <3>1. TurnsIn(r)' = TurnsIn(r)
            BY <1>0, <2>4 DEF IInv, TypeOK, Leave, TurnsIn, Inside
        <3> QED
            BY <1>0, <2>1, <2>2, <2>4, <3>1 DEF IInv, TypeOK, Leave
    <2> QED
        BY <2>3, <2>4
<1> QED
    BY <1>1, <1>2, <1>3, <1>4 DEF IInv

LEMMA AddFileStep == ASSUME IInv, NEW t \in Threads, AddFile(t) PROVE IInv'
<1> USE DEF AddFile, AppendFile, Goto, memory
<1>1. at[t] \in Spaces /\ pc[t] = "left" /\ pc' = [pc EXCEPT ![t] = "adding"]
    BY UnderWay
<1>2. PICK m \in Memories : /\ \A r \in Spaces : m \notin doomed[r]
                            /\ disk' = [disk EXCEPT ![at[t]] = @ \cup {m}]
                            /\ writing' = [writing EXCEPT ![t] = m]
    OBVIOUS
<1>3. TypeOK'
    BY <1>1, <1>2 DEF IInv, TypeOK, Stages, Inside
<1>4. ThreadsOK'
    <2> SUFFICES ASSUME NEW u \in Threads PROVE ThreadOK(u)'
        BY DEF ThreadsOK
    <2>1. ThreadOK(u) /\ (pc[u] # "idle" => at[u] \in Spaces)
        BY UnderWay DEF IInv, ThreadsOK
    <2>2. pc'[u] \in Emptied => doomed'[at'[u]] \cap disk'[at'[u]] = {}
        <3> SUFFICES ASSUME pc'[u] \in Emptied PROVE doomed[at[u]] \cap disk'[at[u]] = {}
            OBVIOUS
        <3>1. pc[u] \in Emptied
            BY <1>1 DEF IInv, TypeOK, Emptied
        <3>2. disk'[at[u]] \subseteq disk[at[u]] \cup {m} /\ m \notin doomed[at[u]]
            BY <1>2, <2>1, <3>1 DEF IInv, TypeOK, Emptied
        <3> QED
            BY <2>1, <3>1, <3>2 DEF ThreadOK
    <2> QED
        BY <1>1, <1>2, <2>1, <2>2 DEF IInv, TypeOK, ThreadOK, Removing, Emptied
<1>5. OneEraser'
    BY <1>1 DEF IInv, TypeOK, OneEraser, Erasing
<1>6. BooksBalance'
    BY <1>1, Elsewhere, QuietBooks DEF IInv, TypeOK, Inside, Erasing
<1> QED
    BY <1>3, <1>4, <1>5, <1>6 DEF IInv

LEMMA AddRowStep == ASSUME IInv, NEW t \in Threads, AddRow(t) PROVE IInv'
<1> USE DEF AddRow, AppendRow, Arrive, Goto, memory
<1>1. TypeOK'
    BY UnderWay DEF IInv, TypeOK, ThreadsOK, ThreadOK, Stages, Inside
<1>2. ThreadsOK'
    BY UnderWay, SpacesAssumption DEF IInv, TypeOK, ThreadsOK, ThreadOK, Removing, Emptied
<1>3. OneEraser'
    BY DEF IInv, TypeOK, OneEraser, Erasing
<1>4. BooksBalance'
    BY Elsewhere, QuietBooks DEF IInv, TypeOK, Inside, Erasing
<1> QED
    BY <1>1, <1>2, <1>3, <1>4 DEF IInv

LEMMA DoneStep == ASSUME IInv, NEW t \in Threads, Done(t) PROVE IInv'
<1> USE DEF Done, Arrive, Goto, durable, memory
<1>1. TypeOK'
    BY DEF IInv, TypeOK, Stages, Inside, Erasing
<1>2. ThreadsOK'
    BY SpacesAssumption DEF IInv, TypeOK, ThreadsOK, ThreadOK, Removing, Emptied
<1>3. OneEraser'
    BY DEF IInv, TypeOK, OneEraser, Erasing
<1>4. BooksBalance'
    BY Elsewhere, QuietBooks DEF IInv, TypeOK, Inside, Erasing
<1> QED
    BY <1>1, <1>2, <1>3, <1>4 DEF IInv

LEMMA HarvestStep == ASSUME IInv, NEW t \in Threads, NEW s \in Spaces, Harvest(t, s) PROVE IInv'
<1> USE DEF Harvest, Arrive, Goto, memory
<1>1. TypeOK'
    BY DEF IInv, TypeOK, Stages, Inside, Erasing
<1>2. ThreadsOK'
    BY SpacesAssumption DEF IInv, TypeOK, ThreadsOK, ThreadOK, Removing, Emptied
<1>3. OneEraser'
    BY DEF IInv, TypeOK, OneEraser, Erasing
<1>4. BooksBalance'
    BY Elsewhere, QuietBooks DEF IInv, TypeOK, Inside, Erasing
<1> QED
    BY <1>1, <1>2, <1>3, <1>4 DEF IInv

LEMMA EraseAskStep == ASSUME IInv, NEW t \in Threads, NEW s \in Spaces, EraseAsk(t, s) PROVE IInv'
<1> USE DEF EraseAsk, Arrive, Goto, durable, memory
<1>1. TypeOK'
    BY DEF IInv, TypeOK, Stages, Inside, Erasing
<1>2. ThreadsOK'
    BY SpacesAssumption DEF IInv, TypeOK, ThreadsOK, ThreadOK, Removing, Emptied
<1>3. OneEraser'
    BY DEF IInv, TypeOK, OneEraser, Erasing
<1>4. BooksBalance'
    BY Elsewhere, QuietBooks DEF IInv, TypeOK, Inside, Erasing
<1> QED
    BY <1>1, <1>2, <1>3, <1>4 DEF IInv

LEMMA EraseRefusedStep == ASSUME IInv, NEW t \in Threads, EraseRefused(t) PROVE IInv'
<1> USE DEF EraseRefused, Arrive, Goto, durable, memory
<1>1. TypeOK'
    BY DEF IInv, TypeOK, Stages, Inside, Erasing
<1>2. ThreadsOK'
    BY SpacesAssumption DEF IInv, TypeOK, ThreadsOK, ThreadOK, Removing, Emptied
<1>3. OneEraser'
    BY DEF IInv, TypeOK, OneEraser, Erasing
<1>4. BooksBalance'
    BY Elsewhere, QuietBooks DEF IInv, TypeOK, Inside, Erasing
<1> QED
    BY <1>1, <1>2, <1>3, <1>4 DEF IInv

(* The project is marked by its only eraser, and what it must remove is    *)
(* what the disk holds now; nobody else is removing anything there.        *)
LEMMA BeginEraseStep == ASSUME IInv, NEW t \in Threads, BeginErase(t) PROVE IInv'
<1> DEFINE s == at[t]
<1> USE DEF BeginErase, Goto, durable
<1>0. /\ s \in Spaces /\ pc[t] = "found" /\ pc' = [pc EXCEPT ![t] = "marked"]
      /\ ErasesOf(s) = {}
    BY UnderWay DEF Busy, IInv, BooksBalance
<1>1. TypeOK'
    BY <1>0 DEF IInv, TypeOK, Stages, Erasing
<1>2. ThreadsOK'
    <2> SUFFICES ASSUME NEW u \in Threads PROVE ThreadOK(u)'
        BY DEF ThreadsOK
    <2>1. ThreadOK(u)
        BY DEF IInv, ThreadsOK
    <2>2. pc'[u] \in Emptied => pc[u] \in Emptied /\ at[u] # s
        BY <1>0 DEF IInv, TypeOK, ErasesOf, Emptied, Erasing
    <2>3. pc'[u] \in Emptied => doomed'[at'[u]] = doomed[at[u]]
        BY <2>2, UnderWay DEF IInv, TypeOK, Emptied
    <2> QED
        BY <1>0, <2>1, <2>2, <2>3 DEF IInv, TypeOK, ThreadOK, Removing
<1>3. OneEraser'
    BY <1>0 DEF IInv, TypeOK, OneEraser, ErasesOf, Erasing
<1>4. BooksBalance'
    <2> SUFFICES ASSUME NEW r \in Spaces
                 PROVE  /\ turns'[r] = Cardinality(TurnsIn(r)')
                        /\ r \in erasing' <=> ErasesOf(r)' # {}
        BY DEF BooksBalance
    <2>1. TurnsIn(r)' = TurnsIn(r)
        BY <1>0 DEF IInv, TypeOK, TurnsIn, Inside
    <2>2. ErasesOf(r)' = IF r = s THEN {t} ELSE ErasesOf(r)
        BY <1>0 DEF IInv, TypeOK, ErasesOf, Erasing
    <2> QED
        BY <2>1, <2>2 DEF IInv, BooksBalance
<1> QED
    BY <1>1, <1>2, <1>3, <1>4 DEF IInv

LEMMA TombstoneStep == ASSUME IInv, NEW t \in Threads, Tombstone(t) PROVE IInv'
<1> USE DEF Tombstone, Goto, memory
<1>1. TypeOK'
    BY UnderWay DEF IInv, TypeOK, Stages, Inside, Erasing
<1>2. ThreadsOK'
    BY UnderWay, SpacesAssumption DEF IInv, TypeOK, ThreadsOK, ThreadOK, Removing, Emptied
<1>3. OneEraser'
    BY DEF IInv, TypeOK, OneEraser, Erasing
<1>4. BooksBalance'
    BY Elsewhere, QuietBooks DEF IInv, TypeOK, Inside, Erasing
<1> QED
    BY <1>1, <1>2, <1>3, <1>4 DEF IInv

(* Nothing that the disk had when the erase began is there any more. *)
LEMMA EraseFilesStep == ASSUME IInv, NEW t \in Threads, EraseFiles(t) PROVE IInv'
<1> USE DEF EraseFiles, Goto, Unfile, memory
<1>0. /\ at[t] \in Spaces /\ pc[t] = "told" /\ pc' = [pc EXCEPT ![t] = "unfiled"]
      /\ Stamped(at[t]) \in SUBSET Memories
      /\ disk[at[t]] \ Stamped(at[t]) = {}
    BY UnderWay DEF IInv, TypeOK, Stamped
<1>1. TypeOK'
    BY <1>0 DEF IInv, TypeOK, Stages, Erasing
<1>2. ThreadsOK'
    <2> SUFFICES ASSUME NEW u \in Threads PROVE ThreadOK(u)'
        BY DEF ThreadsOK
    <2>1. ThreadOK(u)
        BY DEF IInv, ThreadsOK
    <2>2. u # t /\ pc'[u] \in Emptied => disk'[at[u]] \subseteq disk[at[u]]
        BY <1>0, UnderWay DEF IInv, TypeOK, Emptied
    <2>3. disk'[at[t]] = {}
        BY <1>0 DEF IInv, TypeOK
    <2>4. pc'[u] \in Emptied => doomed'[at'[u]] \cap disk'[at'[u]] = {}
        BY <1>0, <2>1, <2>2, <2>3 DEF IInv, TypeOK, ThreadOK
    <2>5. pc'[u] \in Removing => pc[u] \in Removing
        BY <1>0 DEF IInv, TypeOK, Removing
    <2> QED
        BY <1>0, <2>1, <2>4, <2>5 DEF IInv, TypeOK, ThreadOK
<1>3. OneEraser'
    BY <1>0 DEF IInv, TypeOK, OneEraser, Erasing
<1>4. BooksBalance'
    BY <1>0, Elsewhere, QuietBooks DEF IInv, TypeOK, Inside, Erasing
<1> QED
    BY <1>1, <1>2, <1>3, <1>4 DEF IInv

LEMMA EraseSomeFilesStep == ASSUME IInv, NEW t \in Threads, EraseSomeFiles(t) PROVE IInv'
<1> USE DEF EraseSomeFiles, Goto, Unfile, memory
<1>0. /\ at[t] \in Spaces /\ pc[t] = "told" /\ pc' = [pc EXCEPT ![t] = "ending"]
      /\ \E S \in SUBSET Memories : disk' = [disk EXCEPT ![at[t]] = @ \ S]
    BY UnderWay
<1>1. TypeOK'
    BY <1>0 DEF IInv, TypeOK, Stages, Erasing
<1>2. ThreadsOK'
    <2> SUFFICES ASSUME NEW u \in Threads PROVE ThreadOK(u)'
        BY DEF ThreadsOK
    <2>1. ThreadOK(u)
        BY DEF IInv, ThreadsOK
    <2>2. pc'[u] \in Emptied => pc[u] \in Emptied /\ disk'[at[u]] \subseteq disk[at[u]]
        BY <1>0, UnderWay DEF IInv, TypeOK, Emptied
    <2>3. pc'[u] \in Removing => pc[u] \in Removing
        BY <1>0 DEF IInv, TypeOK, Removing
    <2> QED
        BY <1>0, <2>1, <2>2, <2>3 DEF IInv, TypeOK, ThreadOK
<1>3. OneEraser'
    BY <1>0 DEF IInv, TypeOK, OneEraser, Erasing
<1>4. BooksBalance'
    BY <1>0, Elsewhere, QuietBooks DEF IInv, TypeOK, Inside, Erasing
<1> QED
    BY <1>1, <1>2, <1>3, <1>4 DEF IInv

LEMMA EraseRowsStep == ASSUME IInv, NEW t \in Threads, EraseRows(t) PROVE IInv'
<1> USE DEF EraseRows, Goto, memory
<1>1. TypeOK'
    BY UnderWay DEF IInv, TypeOK, Stages, Inside, Erasing
<1>2. ThreadsOK'
    BY SpacesAssumption DEF IInv, TypeOK, ThreadsOK, ThreadOK, Removing, Emptied
<1>3. OneEraser'
    BY DEF IInv, TypeOK, OneEraser, Erasing
<1>4. BooksBalance'
    BY Elsewhere, QuietBooks DEF IInv, TypeOK, Inside, Erasing
<1> QED
    BY <1>1, <1>2, <1>3, <1>4 DEF IInv

LEMMA DeleteFileStep == ASSUME IInv, NEW t \in Threads, DeleteFile(t) PROVE IInv'
<1> USE DEF DeleteFile, Goto, memory
<1>1. TypeOK'
    BY UnderWay DEF IInv, TypeOK, Stages, Inside, Erasing
<1>2. ThreadsOK'
    BY SpacesAssumption DEF IInv, TypeOK, ThreadsOK, ThreadOK, Removing, Emptied
<1>3. OneEraser'
    BY DEF IInv, TypeOK, OneEraser, Erasing
<1>4. BooksBalance'
    BY Elsewhere, QuietBooks DEF IInv, TypeOK, Inside, Erasing
<1> QED
    BY <1>1, <1>2, <1>3, <1>4 DEF IInv

LEMMA EraseFailsStep == ASSUME IInv, NEW t \in Threads, EraseFails(t) PROVE IInv'
<1> USE DEF EraseFails, Goto, durable, memory, Erasing
<1>1. TypeOK'
    BY UnderWay DEF IInv, TypeOK, Stages, Inside, Erasing
<1>2. ThreadsOK'
    BY SpacesAssumption DEF IInv, TypeOK, ThreadsOK, ThreadOK, Removing, Emptied
<1>3. OneEraser'
    BY DEF IInv, TypeOK, OneEraser, Erasing
<1>4. BooksBalance'
    BY Elsewhere, QuietBooks DEF IInv, TypeOK, Inside, Erasing
<1> QED
    BY <1>1, <1>2, <1>3, <1>4 DEF IInv

(* The mark goes with the only eraser. *)
LEMMA EndEraseStep == ASSUME IInv, NEW t \in Threads, EndErase(t) PROVE IInv'
<1> DEFINE s == at[t]
<1> USE DEF EndErase, Arrive, Goto, durable
<1>0. /\ s \in Spaces /\ pc[t] = "ending" /\ pc' = [pc EXCEPT ![t] = "idle"]
      /\ at' = [at EXCEPT ![t] = NoSpace]
    BY UnderWay
<1>1. TypeOK'
    BY <1>0 DEF IInv, TypeOK, Stages
<1>2. ThreadsOK'
    BY <1>0, SpacesAssumption
    DEF IInv, TypeOK, ThreadsOK, ThreadOK, Removing, Emptied
<1>3. OneEraser'
    BY <1>0 DEF IInv, TypeOK, OneEraser, Erasing
<1>4. BooksBalance'
    <2> SUFFICES ASSUME NEW r \in Spaces
                 PROVE  /\ turns'[r] = Cardinality(TurnsIn(r)')
                        /\ r \in erasing' <=> ErasesOf(r)' # {}
        BY DEF BooksBalance
    <2>1. TurnsIn(r)' = TurnsIn(r)
        BY <1>0 DEF IInv, TypeOK, TurnsIn, Inside
    <2>2. ErasesOf(r)' = IF r = s THEN {} ELSE ErasesOf(r)
        BY <1>0 DEF IInv, TypeOK, OneEraser, ErasesOf, Erasing
    <2> QED
        BY <2>1, <2>2 DEF IInv, BooksBalance
<1> QED
    BY <1>1, <1>2, <1>3, <1>4 DEF IInv

LEMMA CrashStep == ASSUME IInv, Crash PROVE IInv'
<1> USE DEF Crash, durable
<1>1. TypeOK'
    BY DEF IInv, TypeOK, Stages
<1>2. ThreadsOK' /\ OneEraser'
    BY DEF ThreadsOK, ThreadOK, OneEraser, Removing, Emptied, Erasing
<1>3. \A s \in Spaces : TurnsIn(s)' = {} /\ ErasesOf(s)' = {}
    BY DEF TurnsIn, ErasesOf, Inside, Erasing
<1>4. BooksBalance'
    BY <1>3, FS_EmptySet DEF BooksBalance
<1> QED
    BY <1>1, <1>2, <1>4 DEF IInv

LEMMA Stutter == ASSUME IInv, UNCHANGED vars PROVE IInv'
BY DEF IInv, TypeOK, ThreadsOK, ThreadOK, OneEraser, BooksBalance, TurnsIn, ErasesOf,
   vars, durable, memory, locals

LEMMA NextKeeps == IInv /\ [Next]_vars => IInv'
<1> SUFFICES ASSUME IInv, [Next]_vars PROVE IInv'
    OBVIOUS
<1>1. CASE Crash
    BY <1>1, CrashStep
<1>2. CASE \E s \in Spaces : CreateSpace(s)
    BY <1>2, CreateSpaceStep
<1>3. ASSUME NEW t \in Threads, Turn(t) PROVE IInv'
    BY <1>3, EnterStep, TurnedAwayStep, SayFileStep, SayRowStep, DelegateStep, LeaveStep,
       AddFileStep, AddRowStep, DoneStep DEF Turn
<1>4. ASSUME NEW t \in Threads, Erase(t) PROVE IInv'
    BY <1>4, EraseRefusedStep, BeginEraseStep, TombstoneStep, EraseFilesStep,
       EraseSomeFilesStep, EraseRowsStep, DeleteFileStep, EraseFailsStep, EndEraseStep
    DEF Erase
<1>5. ASSUME NEW t \in Threads, NEW s \in Spaces, Ask(t, s) \/ Harvest(t, s) \/ EraseAsk(t, s)
      PROVE  IInv'
    BY <1>5, AskStep, HarvestStep, EraseAskStep
<1>6. CASE UNCHANGED vars
    BY <1>6, Stutter
<1> QED
    BY <1>1, <1>2, <1>3, <1>4, <1>5, <1>6 DEF Next

LEMMA Invariant == Spec => []IInv
BY Initially, NextKeeps, PTL DEF Spec

------------------------------------------------------------------------------
(* Theorems *)

(* The disk, the daemon's memory and its threads keep their types. *)
THEOREM TypeCorrect == Spec => []TypeOK
<1>1. IInv => TypeOK
    BY DEF IInv
<1> QED
    BY <1>1, Invariant, PTL

(* However many turns and erases come and go, fail or die, the counter     *)
(* counts the turns in the project and the mark is there while an erase    *)
(* is (daemon/server.py, in_space, begin_erase, end_erase).                *)
THEOREM Balance == Spec => []BooksBalance
<1>1. IInv => BooksBalance
    BY DEF IInv
<1> QED
    BY <1>1, Invariant, PTL

(* The file of a project goes last: DeleteFile comes after EraseFiles of   *)
(* the same erase, and what is written in between is new.                  *)
THEOREM FileLast == Spec => FileGoesLast
<1> DEFINE Goes == \A s \in Spaces : file[s] = "kept" /\ file'[s] = "gone"
                                       => doomed[s] \cap disk[s] = {}
<1>1. ASSUME IInv, [Next]_vars PROVE Goes
    <2> SUFFICES ASSUME NEW s \in Spaces, file[s] = "kept", file'[s] = "gone"
                 PROVE  doomed[s] \cap disk[s] = {}
        OBVIOUS
    <2>1. ~UNCHANGED file
        OBVIOUS
    <2>2. ~\E r \in Spaces : CreateSpace(r)
        <3> SUFFICES ASSUME NEW r \in Spaces, CreateSpace(r) PROVE FALSE
            OBVIOUS
        <3>1. file[r] = "unmade" /\ file' = [file EXCEPT ![r] = "kept"]
            BY DEF CreateSpace
        <3> QED
            BY <1>1, <3>1 DEF IInv, TypeOK
    <2>3. ~\E t \in Threads : Turn(t)
        BY <2>1 DEF Turn, Enter, TurnedAway, SayFile, SayRow, Delegate, Leave, AddFile,
           AddRow, Done, AppendFile, AppendRow, durable
    <2>4. ~\E t \in Threads, r \in Spaces : Ask(t, r) \/ Harvest(t, r) \/ EraseAsk(t, r)
        BY <2>1 DEF Ask, Harvest, EraseAsk, durable
    <2>5. PICK t \in Threads : DeleteFile(t)
        BY <1>1, <2>1, <2>2, <2>3, <2>4
        DEF Next, Crash, Erase, EraseRefused, BeginErase, Tombstone, EraseFiles,
            EraseSomeFiles, EraseRows, EraseFails, EndErase, durable, vars
    <2>6. pc[t] = "unrowed" /\ s = at[t]
        BY <2>5 DEF DeleteFile, Goto, IInv, TypeOK
    <2> QED
        BY <1>1, <2>6 DEF IInv, ThreadsOK, ThreadOK, Emptied
<1>2. IInv /\ [Next]_vars => [Goes]_vars
    BY <1>1
<1> QED
    BY <1>2, Invariant, PTL DEF Spec, FileGoesLast

(* Files are removed in two places, and both come after the tombstone      *)
(* (spaces/memory.py, erase_space).                                        *)
THEOREM ToldFirst == Spec => NothingGoesUntold
<1> DEFINE Told == \A s \in Spaces : ~(disk[s] \subseteq disk'[s]) => s \in erasures
<1>1. ASSUME IInv, [Next]_vars PROVE Told
    <2> SUFFICES ASSUME NEW s \in Spaces, ~(disk[s] \subseteq disk'[s])
                 PROVE  s \in erasures
        OBVIOUS
    <2>1. ~UNCHANGED disk
        OBVIOUS
    <2>2. ~\E t \in Threads : Turn(t)
        <3> SUFFICES ASSUME NEW t \in Threads, Turn(t) PROVE FALSE
            OBVIOUS
        <3>1. ~SayFile(t) /\ ~AddFile(t)
            BY <1>1 DEF SayFile, AddFile, AppendFile, IInv, TypeOK
        <3> QED
            BY <2>1, <3>1 DEF Turn, Enter, TurnedAway, SayRow, Delegate, Leave, AddRow,
               Done, AppendRow, durable
    <2>3. ~\E t \in Threads, r \in Spaces : Ask(t, r) \/ Harvest(t, r) \/ EraseAsk(t, r)
        BY <2>1 DEF Ask, Harvest, EraseAsk, durable
    <2>4. PICK t \in Threads : EraseFiles(t) \/ EraseSomeFiles(t)
        BY <1>1, <2>1, <2>2, <2>3
        DEF Next, Crash, CreateSpace, Erase, EraseRefused, BeginErase, Tombstone,
            EraseRows, DeleteFile, EraseFails, EndErase, durable, vars
    <2>5. pc[t] = "told" /\ s = at[t]
        <3>1. pc[t] = "told"
            BY <2>4 DEF EraseFiles, EraseSomeFiles, Goto
        <3>2. PICK S : disk' = [disk EXCEPT ![at[t]] = @ \ S]
            BY <2>4 DEF EraseFiles, EraseSomeFiles, Unfile
        <3>3. disk'[s] # disk[s]
            OBVIOUS
        <3> QED
            BY <1>1, <3>1, <3>2, <3>3 DEF IInv, TypeOK
    <2> QED
        BY <1>1, <2>5 DEF IInv, ThreadsOK, ThreadOK, Removing
<1>2. IInv /\ [Next]_vars => [Told]_vars
    BY <1>1
<1> QED
    BY <1>2, Invariant, PTL DEF Spec, NothingGoesUntold

------------------------------------------------------------------------------
(* The set and the counter implement the wall. *)

insides == [s \in Spaces |-> TurnsIn(s)]
erasersOf == [s \in Spaces |-> ErasesOf(s)]

SameWall == insides' = insides /\ erasersOf' = erasersOf

(* A thread that moves within, or outside, both books is not seen. *)
LEMMA Unseen ==
    ASSUME \A s \in Spaces : TurnsIn(s)' = TurnsIn(s) /\ ErasesOf(s)' = ErasesOf(s)
    PROVE  SameWall
BY DEF SameWall, insides, erasersOf

LEMMA EnterMaps == ASSUME IInv, NEW t \in Threads, Enter(t) PROVE Wall!Enter(t, at[t])
<1>1. /\ at[t] \in Spaces /\ pc[t] = "asked" /\ pc' = [pc EXCEPT ![t] = "inside"]
      /\ at' = at /\ ErasesOf(at[t]) = {}
    BY UnderWay DEF Enter, Goto, IInv, BooksBalance
<1>2. \A s \in Spaces : TurnsIn(s)' = IF s = at[t] THEN TurnsIn(s) \cup {t} ELSE TurnsIn(s)
    BY <1>1 DEF IInv, TypeOK, TurnsIn, Inside
<1>3. \A s \in Spaces : ErasesOf(s)' = ErasesOf(s)
    BY <1>1 DEF IInv, TypeOK, ErasesOf, Erasing
<1> QED
    BY <1>1, <1>2, <1>3 DEF Wall!Enter

LEMMA LeaveMaps == ASSUME IInv, NEW t \in Threads, Leave(t) PROVE Wall!Leave(t, at[t])
<1>1. /\ at[t] \in Spaces /\ pc[t] \in Inside /\ pc' = [pc EXCEPT ![t] = "left"]
      /\ at' = at /\ t \in TurnsIn(at[t])
    BY UnderWay DEF Leave, Inside, TurnsIn
<1>2. \A s \in Spaces : TurnsIn(s)' = IF s = at[t] THEN TurnsIn(s) \ {t} ELSE TurnsIn(s)
    BY <1>1 DEF IInv, TypeOK, TurnsIn, Inside
<1>3. \A s \in Spaces : ErasesOf(s)' = ErasesOf(s)
    BY <1>1 DEF IInv, TypeOK, ErasesOf, Erasing, Inside
<1> QED
    BY <1>1, <1>2, <1>3 DEF Wall!Leave

LEMMA BeginMaps == ASSUME IInv, NEW t \in Threads, BeginErase(t) PROVE Wall!Begin(t, at[t])
<1>1. /\ at[t] \in Spaces /\ pc[t] = "found" /\ pc' = [pc EXCEPT ![t] = "marked"]
      /\ at' = at /\ turns[at[t]] = 0 /\ ErasesOf(at[t]) = {}
    BY UnderWay DEF BeginErase, Busy, Goto, IInv, TypeOK, BooksBalance
<1>2. TurnsIn(at[t]) = {}
    BY <1>1, NobodyInside DEF IInv
<1>3. \A s \in Spaces : TurnsIn(s)' = TurnsIn(s)
    BY <1>1 DEF IInv, TypeOK, TurnsIn, Inside
<1>4. \A s \in Spaces : ErasesOf(s)' = IF s = at[t] THEN {t} ELSE ErasesOf(s)
    BY <1>1 DEF IInv, TypeOK, ErasesOf, Erasing
<1> QED
    BY <1>1, <1>2, <1>3, <1>4 DEF Wall!Begin

LEMMA EndMaps == ASSUME IInv, NEW t \in Threads, EndErase(t) PROVE Wall!End(t, at[t])
<1>1. /\ at[t] \in Spaces /\ pc[t] = "ending" /\ pc' = [pc EXCEPT ![t] = "idle"]
      /\ at' = [at EXCEPT ![t] = NoSpace]
    BY UnderWay DEF EndErase, Arrive, Goto
<1>2. ErasesOf(at[t]) = {t}
    BY <1>1 DEF IInv, OneEraser, ErasesOf, Erasing
<1>3. \A s \in Spaces : TurnsIn(s)' = TurnsIn(s)
    BY <1>1 DEF IInv, TypeOK, TurnsIn, Inside
<1>4. \A s \in Spaces : ErasesOf(s)' = IF s = at[t] THEN {} ELSE ErasesOf(s)
    BY <1>1, <1>2 DEF IInv, TypeOK, ErasesOf, Erasing
<1> QED
    BY <1>1, <1>2, <1>3, <1>4 DEF Wall!End

LEMMA TurnMaps == ASSUME IInv, NEW t \in Threads, Turn(t)
                  PROVE  \/ SameWall
                         \/ \E s \in Spaces : Wall!Enter(t, s) \/ Wall!Leave(t, s)
<1>1. CASE Enter(t)
    BY <1>1, EnterMaps, UnderWay DEF Enter, Goto
<1>2. CASE Leave(t)
    BY <1>2, LeaveMaps, UnderWay DEF Leave, Inside
<1>3. CASE Delegate(t)
    BY <1>3, Unseen DEF Delegate, locals, TurnsIn, ErasesOf
<1>4. CASE TurnedAway(t) \/ SayFile(t) \/ SayRow(t) \/ AddFile(t) \/ AddRow(t) \/ Done(t)
    BY <1>4, Elsewhere, Unseen
    DEF TurnedAway, SayFile, SayRow, AddFile, AddRow, Done, AppendFile, AppendRow, Arrive,
        Goto, IInv, TypeOK, Inside, Erasing
<1> QED
    BY <1>1, <1>2, <1>3, <1>4 DEF Turn

LEMMA EraseMaps == ASSUME IInv, NEW t \in Threads, Erase(t)
                   PROVE  \/ SameWall
                          \/ \E s \in Spaces : Wall!Begin(t, s) \/ Wall!End(t, s)
<1>1. CASE BeginErase(t)
    BY <1>1, BeginMaps, UnderWay DEF BeginErase, Goto
<1>2. CASE EndErase(t)
    BY <1>2, EndMaps, UnderWay DEF EndErase, Arrive, Goto
<1>3. CASE EraseRefused(t) \/ Tombstone(t) \/ EraseFiles(t) \/ EraseSomeFiles(t)
    BY <1>3, Elsewhere, Unseen
    DEF EraseRefused, Tombstone, EraseFiles, EraseSomeFiles, Arrive, Goto, IInv, TypeOK,
        Inside, Erasing
<1>4. CASE EraseRows(t) \/ DeleteFile(t) \/ EraseFails(t)
    BY <1>4, Elsewhere, Unseen
    DEF EraseRows, DeleteFile, EraseFails, Goto, IInv, TypeOK, Inside, Erasing
<1> QED
    BY <1>1, <1>2, <1>3, <1>4 DEF Erase

LEMMA StepMaps == ASSUME IInv, [Next]_vars PROVE SameWall \/ Wall!Next
<1>1. CASE Crash
    <2>1. \A s \in Spaces : TurnsIn(s)' = {} /\ ErasesOf(s)' = {}
        BY <1>1 DEF Crash, TurnsIn, ErasesOf, Inside, Erasing
    <2> QED
        BY <2>1 DEF Wall!Next, Wall!Die, Wall!Init
<1>2. CASE \E s \in Spaces : CreateSpace(s)
    BY <1>2, Unseen DEF CreateSpace, locals, TurnsIn, ErasesOf
<1>3. ASSUME NEW t \in Threads, Turn(t) \/ Erase(t) PROVE SameWall \/ Wall!Next
    BY <1>3, TurnMaps, EraseMaps DEF Wall!Next
<1>4. ASSUME NEW t \in Threads, NEW s \in Spaces, Ask(t, s) \/ Harvest(t, s) \/ EraseAsk(t, s)
      PROVE  SameWall
    BY <1>4, Elsewhere, Unseen
    DEF Ask, Harvest, EraseAsk, Arrive, Goto, IInv, TypeOK, Inside, Erasing
<1>5. CASE UNCHANGED vars
    BY <1>5, Unseen DEF vars, locals, TurnsIn, ErasesOf
<1> QED
    BY <1>1, <1>2, <1>3, <1>4, <1>5 DEF Next

LEMMA InitMaps == Init => Wall!Init
BY DEF Init, Wall!Init, TurnsIn, ErasesOf, Inside, Erasing

(* The set and the counter of the daemon implement the wall of ADR 0225    *)
(* between turns and an erase, over failures and restarts.                 *)
THEOREM WallKept == Spec => KeepsTheWall
<1>1. IInv /\ [Next]_vars => [Wall!Next]_(Wall!vars)
    BY StepMaps DEF SameWall, insides, erasersOf, Wall!vars
<1> QED
    BY <1>1, InitMaps, Invariant, PTL DEF Spec, KeepsTheWall, Wall!Spec
=============================================================================
