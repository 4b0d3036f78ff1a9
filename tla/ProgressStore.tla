----------------------------- MODULE ProgressStore -----------------------------
(***************************************************************************)
(* The player's progress file: internal/progress/store.go, and the use     *)
(* main makes of it (cmd/k8sgames/main.go).  A process of Procs is one run *)
(* of the client at a time; it may be killed between any two system calls. *)
(*                                                                         *)
(* The steps of Complete are its system calls, since every process of the  *)
(* player uses the same two names: path and path.tmp.  fd[p] is the name   *)
(* that the file p is writing has now: rename takes a file from under the  *)
(* process that has it open.  The bytes matter only so far as they parse:  *)
(* a file is absent, empty, torn, or whole with some marks.                *)
(***************************************************************************)
CONSTANTS
  Procs,       \* the client processes of one player
  Challenges

VARIABLES
  pc,          \* process -> the next call of Open or Complete
  completed,   \* process -> Store.completed
  challenge,   \* process -> the argument of Complete
  fd,          \* process -> "tmp", "path", or "none"
  tmp, path,   \* the two files
  confirmed    \* history: the challenges for which Complete returned nil

vars == <<pc, completed, challenge, fd, tmp, path, confirmed>>

Absent == [is |-> "absent", marks |-> {}]
Empty == [is |-> "empty", marks |-> {}]
Torn == [is |-> "torn", marks |-> {}]
Whole(marks) == [is |-> "whole", marks |-> marks]
Files == {Absent, Empty, Torn} \cup {Whole(marks) : marks \in SUBSET Challenges}

Complete == {"mkdir", "create", "write", "rename"}

Goto(p, label) == pc' = [pc EXCEPT ![p] = label]

Init ==
  /\ pc = [p \in Procs |-> "off"]
  /\ completed = [p \in Procs |-> {}]
  /\ challenge \in [Procs -> Challenges]
  /\ fd = [p \in Procs |-> "none"]
  /\ tmp = Absent /\ path = Absent
  /\ confirmed = {}

-----------------------------------------------------------------------------
(* Mutant of Open: what the file says is not loaded.                       *)
OpenBlank(p) ==
  /\ pc[p] = "off" /\ path.is \in {"absent", "whole"}
  /\ completed' = [completed EXCEPT ![p] = {}]
  /\ Goto(p, "play")
  /\ UNCHANGED <<challenge, fd, tmp, path, confirmed>>

(* Open: a file that does not parse is an error, and main gives up.        *)
Open(p) ==
  /\ pc[p] = "off" /\ path.is \in {"absent", "whole"}
  /\ completed' = [completed EXCEPT ![p] = path.marks]
  /\ Goto(p, "play")
  /\ UNCHANGED <<challenge, fd, tmp, path, confirmed>>

(* Play returned true for c, and main calls Complete.                      *)
Begin(p, c) ==
  /\ pc[p] = "play"
  /\ challenge' = [challenge EXCEPT ![p] = c]
  /\ completed' = [completed EXCEPT ![p] = @ \cup {c}]
  /\ IF c \in completed[p]
       THEN confirmed' = confirmed \cup {c} /\ UNCHANGED pc
       ELSE Goto(p, "mkdir") /\ UNCHANGED confirmed
  /\ UNCHANGED <<fd, tmp, path>>

Mkdir(p) ==
  /\ pc[p] = "mkdir"
  /\ Goto(p, "create")
  /\ UNCHANGED <<completed, challenge, fd, tmp, path, confirmed>>

(* Mutant of Create: the file is written in place.                         *)
CreateInPlace(p) ==
  /\ pc[p] = "create"
  /\ path' = Empty
  /\ fd' = [fd EXCEPT ![p] = "path"]
  /\ Goto(p, "write")
  /\ UNCHANGED <<completed, challenge, tmp, confirmed>>

(* Mutant of Create: the rename comes before the write.                    *)
CreateThenRename(p) ==
  /\ pc[p] = "create"
  /\ tmp' = Empty
  /\ fd' = [fd EXCEPT ![p] = "tmp"]
  /\ Goto(p, "rename")
  /\ UNCHANGED <<completed, challenge, path, confirmed>>

(* os.WriteFile opens the file, and empties it if it is there ...          *)
Create(p) ==
  /\ pc[p] = "create"
  /\ tmp' = Empty
  /\ fd' = [fd EXCEPT ![p] = "tmp"]
  /\ Goto(p, "write")
  /\ UNCHANGED <<completed, challenge, path, confirmed>>

(* f becomes what p is writing.                                            *)
Put(p, f) ==
  /\ tmp' = IF fd[p] = "tmp" THEN f ELSE tmp
  /\ path' = IF fd[p] = "path" THEN f ELSE path

Target(p) == IF fd[p] = "path" THEN path ELSE tmp

(* ... writes it from its start, which leaves the tail of another writer's *)
(* longer text, and closes it.                                             *)
Write(p) ==
  /\ pc[p] = "write"
  /\ \E f \in {Whole(completed[p])} \cup (IF Target(p) = Empty THEN {} ELSE {Torn}) : Put(p, f)
  /\ fd' = [fd EXCEPT ![p] = "none"]
  /\ Goto(p, "rename")
  /\ UNCHANGED <<completed, challenge, confirmed>>

(* Rename takes what tmp names, whoever wrote it.                          *)
Rename(p) ==
  /\ pc[p] = "rename" /\ tmp # Absent
  /\ path' = tmp /\ tmp' = Absent
  /\ fd' = [q \in Procs |-> IF fd[q] = "tmp" THEN "path" ELSE "none"]
  /\ confirmed' = confirmed \cup {challenge[p]}
  /\ Goto(p, "play")
  /\ UNCHANGED <<completed, challenge>>

(* Mutant of Fail: the player is told of no error.                         *)
FailQuietly(p) ==
  /\ pc[p] \in Complete
  /\ confirmed' = confirmed \cup {challenge[p]}
  /\ fd' = [fd EXCEPT ![p] = "none"]
  /\ Goto(p, "play")
  /\ UNCHANGED <<completed, challenge, tmp, path>>

(* A call fails, the write perhaps half way: the mark is taken back, and   *)
(* main reports the error and exits.                                       *)
Fail(p) ==
  /\ pc[p] \in Complete
  /\ \/ UNCHANGED <<tmp, path>>
     \/ pc[p] = "write" /\ Put(p, Torn)
  /\ completed' = [completed EXCEPT ![p] = @ \ {challenge[p]}]
  /\ fd' = [fd EXCEPT ![p] = "none"]
  /\ Goto(p, "off")
  /\ UNCHANGED <<challenge, confirmed>>

(* The player quits, or the process is killed.                             *)
Stop(p) ==
  /\ pc[p] # "off"
  /\ \/ UNCHANGED <<tmp, path>>
     \/ pc[p] = "write" /\ Put(p, Torn)
  /\ fd' = [fd EXCEPT ![p] = "none"]
  /\ Goto(p, "off")
  /\ UNCHANGED <<completed, challenge, confirmed>>

Next ==
  \E p \in Procs :
    \/ Open(p) \/ Mkdir(p) \/ Create(p) \/ Write(p) \/ Rename(p) \/ Fail(p) \/ Stop(p)
    \/ \E c \in Challenges : Begin(p, c)

Spec == Init /\ [][Next]_vars

-----------------------------------------------------------------------------
TypeOK ==
  /\ pc \in [Procs -> Complete \cup {"off", "play"}]
  /\ completed \in [Procs -> SUBSET Challenges]
  /\ challenge \in [Procs -> Challenges]
  /\ fd \in [Procs -> {"tmp", "path", "none"}]
  /\ \A p \in Procs : fd[p] # "none" => pc[p] = "write"
  /\ tmp \in Files /\ path \in Files
  /\ confirmed \subseteq Challenges

(* Whatever call fails and whenever the client is killed, the progress     *)
(* file parses, so that the client starts again (store.go:61-69, 25).      *)
FileIsWhole == path.is \in {"absent", "whole"}

(* A completion that Complete confirmed is in the file, through failures,  *)
(* kills and restarts (store.go:47-71).                                    *)
ConfirmedIsStored == confirmed \subseteq path.marks

(* Between two games the picker, which asks the store in memory, shows     *)
(* what the file holds, no more and no less (store.go:16-31, 42-45, 51).   *)
MemoryIsStored == \A p \in Procs : pc[p] = "play" => completed[p] = path.marks

(* With one client the store implements AtomicStore: over all its system   *)
(* calls, errors and kills, a reader of the file sees one mark after the   *)
(* other appear and none disappear (store.go:47-71, 24-30).                *)
Atomic == INSTANCE AtomicStore WITH saved <- path.marks

ImplementsAtomicStore == Atomic!Spec
=============================================================================
