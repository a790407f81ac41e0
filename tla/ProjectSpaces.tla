---------------------------- MODULE ProjectSpaces ----------------------------
(***************************************************************************)
(* Projects and their erase (ADR 0225):                                    *)
(*                                                                         *)
(*   daemon/server.py     space_open, in_space, begin_erase, end_erase     *)
(*   spaces/routes.py     erase, spaces/memory.py, core/brain/store.py     *)
(*   daemon/routes.py     run and turn_events: a turn in a project         *)
(*   daemon/decisions.py  decide: an answer in the card's project, and     *)
(*                        the words typed beside it                        *)
(*   daemon/tasks.py      _ended: the harvest of a task a project delegated*)
(*                                                                         *)
(* A project is its file; what was said in it are memories stamped with    *)
(* its id, each a file on disk and then a row of the index.  Threads are   *)
(* the request threads of one daemon.  Which chores are linked to the      *)
(* project is left out: a chore of a project that is gone runs in core.    *)
(***************************************************************************)
EXTENDS Integers, FiniteSets

CONSTANTS Spaces,     \* project ids
          Threads,    \* request threads
          Memories,   \* bound: the episodes that may ever be written
          NoSpace,    \* core
          NoMemory

ASSUME SpacesAssumption == /\ IsFiniteSet(Threads)
                           /\ NoSpace \notin Spaces
                           /\ NoMemory \notin Memories

VARIABLES
    (* the disk *)
    file,      \* the project files
    disk,      \* per project, the memory files stamped with it
    index,     \* per project, the memory rows stamped with it
    erasures,  \* the projects with an erase tombstone
    tasks,     \* the projects with a delegated task that has not ended
    (* the daemon's memory *)
    erasing,   \* _erasing
    turns,     \* _space_turns
    (* the threads *)
    pc,        \* where each is
    at,        \* the project it works in
    writing,   \* the memory it is appending
    found,     \* erase_space: what it found to erase
    doomed     \* what was on disk under the project when its last erase began

durable == <<file, disk, index, erasures, tasks>>
memory == <<erasing, turns>>
locals == <<pc, at, writing, found>>
vars == <<durable, memory, locals, doomed>>

Inside == {"inside", "filing"}
Erasing == {"marked", "told", "unfiled", "unrowed", "ending"}
Stages == {"idle", "asked", "left", "adding", "found"} \cup Inside \cup Erasing

Init == /\ file = [s \in Spaces |-> "unmade"]
        /\ disk = [s \in Spaces |-> {}]
        /\ index = [s \in Spaces |-> {}]
        /\ erasures = {}
        /\ tasks = {}
        /\ erasing = {}
        /\ turns = [s \in Spaces |-> 0]
        /\ pc = [t \in Threads |-> "idle"]
        /\ at = [t \in Threads |-> NoSpace]
        /\ writing = [t \in Threads |-> NoMemory]
        /\ found = [t \in Threads |-> {}]
        /\ doomed = [s \in Spaces |-> {}]

Goto(t, from, to) == /\ pc[t] = from
                     /\ pc' = [pc EXCEPT ![t] = to]

Arrive(t, from, to, s) == Goto(t, from, to) /\ at' = [at EXCEPT ![t] = s]

(* SpaceBook.create mints an id that no project has had. *)
CreateSpace(s) == /\ file[s] = "unmade"
                  /\ file' = [file EXCEPT ![s] = "kept"]
                  /\ UNCHANGED <<disk, index, erasures, tasks, memory, locals, doomed>>

------------------------------------------------------------------------------
(* A turn, or an answer to a card, in a project *)

(* space_open, which the route asks before it takes the lock of the        *)
(* conversation, or of the card.                                           *)
SpaceOpen(s) == file[s] = "kept" /\ s \notin erasing

Ask(t, s) == /\ SpaceOpen(s)
             /\ Arrive(t, "idle", "asked", s)
             /\ UNCHANGED <<durable, memory, writing, found, doomed>>

(* Mutant: whoever was let past the route comes in. *)
EnterAnyway(t) == /\ Goto(t, "asked", "inside")
                  /\ turns' = [turns EXCEPT ![at[t]] = @ + 1]
                  /\ UNCHANGED <<durable, erasing, at, writing, found, doomed>>

(* in_space, when the lock has been waited for. *)
Enter(t) == /\ Goto(t, "asked", "inside")
            /\ at[t] \notin erasing
            /\ turns' = [turns EXCEPT ![at[t]] = @ + 1]
            /\ UNCHANGED <<durable, erasing, at, writing, found, doomed>>

(* Mutant: a turn that never entered leaves. *)
TurnedAwayLeaves(t) == /\ Arrive(t, "asked", "idle", NoSpace)
                       /\ at[t] \in erasing
                       /\ turns' = [turns EXCEPT ![at[t]] = @ - 1]
                       /\ UNCHANGED <<durable, erasing, writing, found, doomed>>

(* "no such space: it is being erased" *)
TurnedAway(t) == /\ Arrive(t, "asked", "idle", NoSpace)
                 /\ at[t] \in erasing
                 /\ UNCHANGED <<durable, memory, writing, found, doomed>>

Stamped(s) == disk[s] \cup index[s]

(* append_episode: the file, and then the row in a transaction of its own. *)
AppendFile(t, from, to) ==
    \E m \in Memories :
        /\ \A s \in Spaces : m \notin Stamped(s) \cup doomed[s]
        /\ \A u \in Threads : writing[u] # m
        /\ Goto(t, from, to)
        /\ disk' = [disk EXCEPT ![at[t]] = @ \cup {m}]
        /\ writing' = [writing EXCEPT ![t] = m]
        /\ UNCHANGED <<file, index, erasures, tasks, memory, at, found, doomed>>

AppendRow(t, from, to) ==
    /\ Arrive(t, from, to, IF to = "idle" THEN NoSpace ELSE at[t])
    /\ index' = [index EXCEPT ![at[t]] = @ \cup {writing[t]}]
    /\ writing' = [writing EXCEPT ![t] = NoMemory]
    /\ UNCHANGED <<file, disk, erasures, tasks, memory, found, doomed>>

SayFile(t) == AppendFile(t, "inside", "filing")
SayRow(t)  == AppendRow(t, "filing", "inside")

(* core.delegate: the task keeps the project of the turn. *)
Delegate(t) == /\ pc[t] = "inside"
               /\ tasks' = tasks \cup {at[t]}
               /\ UNCHANGED <<file, disk, index, erasures, memory, locals, doomed>>

(* Mutant: the counter is reset by the first turn that leaves. *)
LeaveAll(t) == /\ pc[t] \in Inside
               /\ pc' = [pc EXCEPT ![t] = "left"]
               /\ turns' = [turns EXCEPT ![at[t]] = 0]
               /\ writing' = [writing EXCEPT ![t] = NoMemory]
               /\ UNCHANGED <<durable, erasing, at, found, doomed>>

(* in_space, the finally: the turn is over, by its end or by an exception. *)
Leave(t) == /\ pc[t] \in Inside
            /\ pc' = [pc EXCEPT ![t] = "left"]
            /\ turns' = [turns EXCEPT ![at[t]] = IF @ > 1 THEN @ - 1 ELSE 0]
            /\ writing' = [writing EXCEPT ![t] = NoMemory]
            /\ UNCHANGED <<durable, erasing, at, found, doomed>>

(* decide: the words typed beside the answer are appended after the block. *)
AddFile(t) == AppendFile(t, "left", "adding")
AddRow(t)  == AppendRow(t, "adding", "idle")

Done(t) == /\ Arrive(t, "left", "idle", NoSpace)
           /\ UNCHANGED <<durable, memory, writing, found, doomed>>

(* A task ends, and its harvest is stamped with the project of its row. *)
Harvest(t, s) == /\ s \in tasks
                 /\ tasks' = tasks \ {s}
                 /\ Arrive(t, "idle", "left", s)
                 /\ UNCHANGED <<file, disk, index, erasures, memory, writing, found, doomed>>

------------------------------------------------------------------------------
(* DELETE /spaces/<id> *)

(* book.get: there is such a project. *)
EraseAsk(t, s) == /\ file[s] = "kept"
                  /\ Arrive(t, "idle", "found", s)
                  /\ UNCHANGED <<durable, memory, writing, found, doomed>>

(* begin_erase: 409 space_busy, or the project is marked. *)
Busy(s) == turns[s] > 0 \/ s \in erasing

EraseRefused(t) == /\ Arrive(t, "found", "idle", NoSpace)
                   /\ Busy(at[t])
                   /\ UNCHANGED <<durable, memory, writing, found, doomed>>

BeginErase(t) == /\ Goto(t, "found", "marked")
                 /\ ~Busy(at[t])
                 /\ erasing' = erasing \cup {at[t]}
                 /\ doomed' = [doomed EXCEPT ![at[t]] = disk[at[t]]]
                 /\ UNCHANGED <<durable, turns, at, writing, found>>

(* Mutant: the tombstone is left for later. *)
TombstoneLater(t) == /\ Goto(t, "marked", "told")
                     /\ UNCHANGED <<durable, memory, at, writing, found, doomed>>

(* write_erasure: the tombstone first, once. *)
Tombstone(t) == /\ Goto(t, "marked", "told")
                /\ erasures' = erasures \cup {at[t]}
                /\ UNCHANGED <<file, disk, index, tasks, memory, at, writing, found, doomed>>

Unfile(t, S) == disk' = [disk EXCEPT ![at[t]] = @ \ S]

(* erase_space: everything the disk or the index has, the files first. *)
EraseFiles(t) == /\ Goto(t, "told", "unfiled")
                 /\ found' = [found EXCEPT ![t] = Stamped(at[t])]
                 /\ Unfile(t, Stamped(at[t]))
                 /\ UNCHANGED <<file, index, erasures, tasks, memory, at, writing, doomed>>

(* Mutant: a file that cannot be removed is passed over. *)
EraseSomeFilesAnyway(t) == \E S \in SUBSET Memories :
                              /\ Goto(t, "told", "unfiled")
                              /\ Unfile(t, S)
                              /\ UNCHANGED <<file, index, erasures, tasks, memory,
                                             at, writing, found, doomed>>

(* A file that cannot be removed ends the erase where it stands. *)
EraseSomeFiles(t) == \E S \in SUBSET Memories :
                        /\ Goto(t, "told", "ending")
                        /\ Unfile(t, S)
                        /\ UNCHANGED <<file, index, erasures, tasks, memory,
                                       at, writing, found, doomed>>

EraseRows(t) == /\ Goto(t, "unfiled", "unrowed")
                /\ index' = [index EXCEPT ![at[t]] = @ \ found[t]]
                /\ UNCHANGED <<file, disk, erasures, tasks, memory, at, writing, found, doomed>>

(* book.delete_file, last. *)
DeleteFile(t) == /\ Goto(t, "unrowed", "ending")
                 /\ file' = [file EXCEPT ![at[t]] = "gone"]
                 /\ UNCHANGED <<disk, index, erasures, tasks, memory, at, writing, found, doomed>>

(* An exception out of any of these steps. *)
EraseFails(t) == /\ \E stage \in Erasing \ {"ending"} : Goto(t, stage, "ending")
                 /\ UNCHANGED <<durable, memory, at, writing, found, doomed>>

(* Mutant: the erase ends without its finally. *)
EndMarked(t) == /\ Arrive(t, "ending", "idle", NoSpace)
                /\ found' = [found EXCEPT ![t] = {}]
                /\ UNCHANGED <<durable, memory, writing, doomed>>

(* end_erase, the finally. *)
EndErase(t) == /\ Arrive(t, "ending", "idle", NoSpace)
               /\ erasing' = erasing \ {at[t]}
               /\ found' = [found EXCEPT ![t] = {}]
               /\ UNCHANGED <<durable, turns, writing, doomed>>

------------------------------------------------------------------------------

(* The daemon dies and is started again; what was committed is on disk. *)
Crash == /\ erasing' = {}
         /\ turns' = [s \in Spaces |-> 0]
         /\ pc' = [t \in Threads |-> "idle"]
         /\ at' = [t \in Threads |-> NoSpace]
         /\ writing' = [t \in Threads |-> NoMemory]
         /\ found' = [t \in Threads |-> {}]
         /\ UNCHANGED <<durable, doomed>>

Turn(t) == \/ Enter(t) \/ TurnedAway(t) \/ SayFile(t) \/ SayRow(t) \/ Delegate(t)
           \/ Leave(t) \/ AddFile(t) \/ AddRow(t) \/ Done(t)

Erase(t) == \/ EraseRefused(t) \/ BeginErase(t) \/ Tombstone(t) \/ EraseFiles(t)
            \/ EraseSomeFiles(t) \/ EraseRows(t) \/ DeleteFile(t) \/ EraseFails(t) \/ EndErase(t)

Next == \/ Crash
        \/ \E s \in Spaces : CreateSpace(s)
        \/ \E t \in Threads : Turn(t) \/ Erase(t)
        \/ \E t \in Threads, s \in Spaces : Ask(t, s) \/ Harvest(t, s) \/ EraseAsk(t, s)

Spec == Init /\ [][Next]_vars

(* The route of an erase runs on to its end.  A turn need not: it may be   *)
(* talking to a model.                                                     *)
FairSpec == Spec /\ \A t \in Threads : WF_vars(Erase(t))

------------------------------------------------------------------------------
(* Properties *)

TypeOK ==
    /\ file \in [Spaces -> {"unmade", "kept", "gone"}]
    /\ disk \in [Spaces -> SUBSET Memories]
    /\ index \in [Spaces -> SUBSET Memories]
    /\ erasures \in SUBSET Spaces
    /\ tasks \in SUBSET Spaces
    /\ erasing \in SUBSET Spaces
    /\ turns \in [Spaces -> Nat]
    /\ pc \in [Threads -> Stages]
    /\ at \in [Threads -> Spaces \cup {NoSpace}]
    /\ writing \in [Threads -> Memories \cup {NoMemory}]
    /\ found \in [Threads -> SUBSET Memories]
    /\ doomed \in [Spaces -> SUBSET Memories]

TurnsIn(s)  == {t \in Threads : at[t] = s /\ pc[t] \in Inside}
ErasesOf(s) == {t \in Threads : at[t] = s /\ pc[t] \in Erasing}

(* The counter counts exactly the turns that are in the project, and the   *)
(* mark is there exactly while an erase is: a turn that fails, an erase    *)
(* that fails or a restart leaves neither too high, so a project never     *)
(* stays busy, and never too low, so none is erased under a turn.          *)
BooksBalance ==
    \A s \in Spaces : /\ turns[s] = Cardinality(TurnsIn(s))
                      /\ s \in erasing <=> ErasesOf(s) # {}

(* A set and a counter implement the wall between turns and an erase.      *)
Wall == INSTANCE SpaceWall WITH inside <- [s \in Spaces |-> TurnsIn(s)],
                                erasers <- [s \in Spaces |-> ErasesOf(s)]

KeepsTheWall == Wall!Spec

(* The file of a project goes last: what was on disk under it when its     *)
(* erase began is gone by then, whatever failed, crashed or was tried      *)
(* again in between.                                                       *)
FileGoesLast ==
    [][\A s \in Spaces : file[s] = "kept" /\ file'[s] = "gone"
          => doomed[s] \cap disk[s] = {}]_vars

(* No memory of a project disappears before the tombstone that takes the   *)
(* erase to the other PCs is written.                                      *)
NothingGoesUntold ==
    [][\A s \in Spaces : ~(disk[s] \subseteq disk'[s]) => s \in erasures]_vars

(* An erase ends, and the project can be entered or erased again. *)
EraseEnds == \A s \in Spaces : s \in erasing ~> s \notin erasing

(* The docstring of erase: there is "never memory stamped with a project   *)
(* nobody can name any more".                                              *)
NoOrphanMemory == \A s \in Spaces : file[s] = "gone" => disk[s] = {}

=============================================================================
