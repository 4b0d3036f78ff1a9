------------------------------ MODULE PlayerProofs ------------------------------
(***************************************************************************)
(* One client at a time keeps the progress file of ProgressStore whole and *)
(* complete, and implements AtomicStore, whatever the challenges.  That    *)
(* client, in Player, uses the file as ProgressStore says, marks only what *)
(* was solved, and leaves no session behind.                               *)
(***************************************************************************)
EXTENDS Player, SequenceTheorems, TLAPS

-----------------------------------------------------------------------------
(***************************************************************************)
(* The store                                                               *)
(***************************************************************************)

(* What a process knows of the two files while it has them for itself: its *)
(* marks are those of the file, and the one it is saving; the temporary    *)
(* file is empty when it writes, and holds its marks when it renames.      *)
Holds(p) ==
  /\ pc[p] = "play" => completed[p] = path.marks
  /\ pc[p] \in Complete => completed[p] = path.marks \cup {challenge[p]}
  /\ fd[p] = IF pc[p] = "write" THEN "tmp" ELSE "none"
  /\ pc[p] = "write" => tmp = Empty
  /\ pc[p] = "rename" => tmp = Whole(completed[p])

Marks ==
  /\ FileIsWhole
  /\ confirmed \subseteq path.marks

StoreInv == TypeOK /\ Marks /\ \A p \in Procs : Holds(p)

Labels == Complete \cup {"off", "play"}

(* The files there are.                                                    *)
LEMMA FilesThereAre ==
  /\ Absent \in Files /\ Empty \in Files /\ Torn \in Files
  /\ \A marks \in SUBSET Challenges : Whole(marks) \in Files
BY DEF Files

(* The contents of each.                                                   *)
LEMMA WhatFilesSay ==
  /\ Absent.is = "absent" /\ Empty.is = "empty" /\ Torn.is = "torn"
  /\ Absent.marks = {}
  /\ \A marks : Whole(marks).is = "whole" /\ Whole(marks).marks = marks
BY DEF Absent, Empty, Torn, Whole

(* No file marks what is no challenge.                                     *)
LEMMA MarksOfFile == \A f \in Files : f.marks \subseteq Challenges
<1> SUFFICES ASSUME NEW f \in Files PROVE f.marks \subseteq Challenges
  OBVIOUS
<1>1. CASE f \in {Absent, Empty, Torn}
  BY <1>1 DEF Absent, Empty, Torn
<1>2. CASE \E marks \in SUBSET Challenges : f = Whole(marks)
  BY <1>2, WhatFilesSay
<1> QED BY <1>1, <1>2 DEF Files

(* No file, no process and no mark, to begin with.                         *)
LEMMA StoreInvInit == Init => StoreInv
<1> SUFFICES ASSUME Init PROVE StoreInv
  OBVIOUS
<1>1. TypeOK
  BY FilesThereAre DEF Init, TypeOK, Complete
<1>2. Marks
  BY WhatFilesSay DEF Init, Marks, FileIsWhole
<1>3. \A p \in Procs : Holds(p)
  BY DEF Init, Holds, Complete
<1> QED
  BY <1>1, <1>2, <1>3 DEF StoreInv

-----------------------------------------------------------------------------
(* A step of the only client, from what it holds to what it holds.         *)
LEMMA StoreInvNext ==
  ASSUME NEW owner, Procs = {owner}, StoreInv, [Next]_vars
  PROVE  StoreInv'
<1>a. /\ owner \in Procs /\ \A p \in Procs : p = owner
      /\ TypeOK /\ Marks /\ Holds(owner)
  BY DEF StoreInv
<1>t. /\ pc \in [Procs -> Labels] /\ completed \in [Procs -> SUBSET Challenges]
      /\ challenge \in [Procs -> Challenges] /\ fd \in [Procs -> {"tmp", "path", "none"}]
      /\ tmp \in Files /\ path \in Files /\ confirmed \subseteq Challenges
      /\ path.marks \subseteq Challenges
  BY <1>a, MarksOfFile DEF TypeOK, Labels
<1> SUFFICES TypeOK' /\ Marks' /\ Holds(owner)'
  BY <1>a DEF StoreInv
<1>1. CASE Open(owner)
  <2>1. TypeOK'
    BY <1>1, <1>a, <1>t DEF Open, Goto, TypeOK, Complete, Labels
  <2>2. Marks'
    BY <1>1, <1>a DEF Open, Marks, FileIsWhole
  <2>3. Holds(owner)'
    BY <1>1, <1>a, <1>t DEF Open, Goto, Holds, Complete
  <2> QED BY <2>1, <2>2, <2>3
<1>2. ASSUME NEW c \in Challenges, Begin(owner, c) PROVE TypeOK' /\ Marks' /\ Holds(owner)'
  <2>1. TypeOK'
    BY <1>2, <1>a, <1>t DEF Begin, Goto, TypeOK, Complete, Labels
  <2>2. Marks'
    BY <1>2, <1>a, <1>t DEF Begin, Marks, FileIsWhole, Holds
  <2>3. Holds(owner)'
    BY <1>2, <1>a, <1>t DEF Begin, Goto, Holds, Complete
  <2> QED BY <2>1, <2>2, <2>3
<1>3. CASE Mkdir(owner)
  BY <1>3, <1>a, <1>t DEF Mkdir, Goto, TypeOK, Marks, FileIsWhole, Holds, Complete, Labels
<1>4. CASE Create(owner)
  BY <1>4, <1>a, <1>t, FilesThereAre DEF Create, Goto, TypeOK, Marks, FileIsWhole, Holds, Complete, Labels
<1>5. CASE Write(owner)
  <2>1. fd[owner] = "tmp" /\ Target(owner) = Empty /\ pc[owner] = "write"
    BY <1>5, <1>a DEF Write, Holds, Target
  <2>2. tmp' = Whole(completed[owner]) /\ path' = path
    BY <1>5, <2>1 DEF Write, Put
  <2>3. tmp' \in Files
    BY <2>2, <1>a, <1>t, FilesThereAre
  <2>4. TypeOK'
    BY <1>5, <2>2, <2>3, <1>a, <1>t DEF Write, Goto, TypeOK, Complete, Labels
  <2>5. Marks' /\ Holds(owner)'
    BY <1>5, <2>1, <2>2, <1>a, <1>t DEF Write, Goto, Marks, FileIsWhole, Holds, Complete
  <2> QED BY <2>4, <2>5
<1>6. CASE Rename(owner)
  <2>1. /\ pc[owner] = "rename" /\ fd[owner] = "none"
        /\ path' = Whole(completed[owner]) /\ completed[owner] = path.marks \cup {challenge[owner]}
    BY <1>6, <1>a DEF Rename, Holds, Complete
  <2>2. path'.is = "whole" /\ path'.marks = path.marks \cup {challenge[owner]}
    BY <2>1, WhatFilesSay
  <2>3. TypeOK'
    BY <1>6, <2>1, <1>a, <1>t, FilesThereAre DEF Rename, Goto, TypeOK, Complete, Labels
  <2>4. Marks'
    BY <1>6, <2>2, <1>a DEF Rename, Marks, FileIsWhole
  <2>5. Holds(owner)'
    BY <1>6, <2>1, <2>2, <1>a, <1>t DEF Rename, Goto, Holds, Complete
  <2> QED BY <2>3, <2>4, <2>5
<1>7. CASE Fail(owner) \/ Stop(owner)
  <2>1. path' = path /\ tmp' \in {tmp, Torn}
    BY <1>7, <1>a DEF Fail, Stop, Put, Holds
  <2>2. TypeOK'
    BY <1>7, <2>1, <1>a, <1>t, FilesThereAre DEF Fail, Stop, Goto, TypeOK, Complete, Labels
  <2>3. Marks' /\ Holds(owner)'
    BY <1>7, <2>1, <1>a, <1>t DEF Fail, Stop, Goto, Marks, FileIsWhole, Holds, Complete
  <2> QED BY <2>2, <2>3
<1>8. CASE UNCHANGED vars
  BY <1>8, <1>a DEF vars, TypeOK, Marks, FileIsWhole, Holds, Complete
<1> QED
  BY <1>1, <1>2, <1>3, <1>4, <1>5, <1>6, <1>7, <1>8, <1>a DEF Next

(* Every state of the store.                                               *)
LEMMA StoreInvHolds == ASSUME NEW owner, Procs = {owner} PROVE Spec => []StoreInv
<1>1. Init => StoreInv
  BY StoreInvInit
<1>2. StoreInv /\ [Next]_vars => StoreInv'
  BY StoreInvNext
<1> QED
  BY <1>1, <1>2, PTL DEF Spec

-----------------------------------------------------------------------------
(* With one client at a time the progress file parses in every state.      *)
THEOREM FileStaysWhole == ASSUME NEW owner, Procs = {owner} PROVE Spec => []FileIsWhole
<1>1. StoreInv => FileIsWhole
  BY DEF StoreInv, Marks
<1> QED
  BY <1>1, StoreInvHolds, PTL

(* What Complete confirmed stays in the file.                              *)
THEOREM ConfirmedStays == ASSUME NEW owner, Procs = {owner} PROVE Spec => []ConfirmedIsStored
<1>1. StoreInv => ConfirmedIsStored
  BY DEF StoreInv, Marks, ConfirmedIsStored
<1> QED
  BY <1>1, StoreInvHolds, PTL

(* The picker shows what the file holds.                                   *)
THEOREM MemoryAgrees == ASSUME NEW owner, Procs = {owner} PROVE Spec => []MemoryIsStored
<1>1. StoreInv => MemoryIsStored
  BY DEF StoreInv, Holds, MemoryIsStored
<1> QED
  BY <1>1, StoreInvHolds, PTL

-----------------------------------------------------------------------------
(* No mark is saved, to begin with.                                        *)
LEMMA AtomicInit == Init => Atomic!Init
BY WhatFilesSay DEF Init, Atomic!Init

(* Rename saves one mark, Begin may confirm one that is there, and nothing *)
(* else shows.                                                             *)
LEMMA AtomicStep ==
  ASSUME NEW owner, Procs = {owner}, StoreInv, [Next]_vars
  PROVE  [Atomic!Next]_(Atomic!vars)
<1>a. owner \in Procs /\ (\A p \in Procs : p = owner) /\ TypeOK /\ Holds(owner)
  BY DEF StoreInv
<1>b. challenge[owner] \in Challenges
  BY <1>a DEF TypeOK
<1>1. ASSUME path'.marks = path.marks, confirmed' = confirmed PROVE UNCHANGED Atomic!vars
  BY <1>1 DEF Atomic!vars
<1>2. CASE Open(owner) \/ Mkdir(owner) \/ Create(owner) \/ UNCHANGED vars
  BY <1>2, <1>1 DEF Open, Mkdir, Create, vars
<1>3. CASE Write(owner) \/ Fail(owner) \/ Stop(owner)
  <2>1. path' = path /\ confirmed' = confirmed
    BY <1>3, <1>a DEF Write, Fail, Stop, Put, Holds
  <2> QED BY <2>1, <1>1
<1>4. ASSUME NEW c \in Challenges, Begin(owner, c) PROVE [Atomic!Next]_(Atomic!vars)
  <2>1. CASE c \in completed[owner]
    <3>1. Atomic!Confirm(c)
      BY <1>4, <2>1, <1>a DEF Begin, Holds, Atomic!Confirm
    <3> QED BY <3>1 DEF Atomic!Next
  <2>2. CASE c \notin completed[owner]
    BY <1>4, <2>2, <1>1 DEF Begin
  <2> QED BY <2>1, <2>2
<1>5. CASE Rename(owner)
  <2>1. /\ path' = Whole(completed[owner]) /\ completed[owner] = path.marks \cup {challenge[owner]}
        /\ confirmed' = confirmed \cup {challenge[owner]}
    BY <1>5, <1>a DEF Rename, Holds, Complete
  <2>2. Atomic!Save(challenge[owner])
    BY <2>1, WhatFilesSay DEF Atomic!Save
  <2> QED BY <2>2, <1>b DEF Atomic!Next
<1> QED
  BY <1>2, <1>3, <1>4, <1>5, <1>a DEF Next

(* One client's store is an atomic one.                                    *)
THEOREM StoreIsAtomic == ASSUME NEW owner, Procs = {owner} PROVE Spec => ImplementsAtomicStore
<1>1. Init => Atomic!Init
  BY AtomicInit
<1>2. StoreInv /\ [Next]_vars => [Atomic!Next]_(Atomic!vars)
  BY AtomicStep
<1> QED
  BY <1>1, <1>2, StoreInvHolds, PTL DEF Spec, ImplementsAtomicStore, Atomic!Spec

-----------------------------------------------------------------------------
(***************************************************************************)
(* The client                                                              *)
(***************************************************************************)

Asking == {"wait", "attach", "solved", "won", "leaving"}

(* The program: which session goes with which place in it.                 *)
ClientOK ==
  /\ at \in {"off", "list", "menu"} \cup Playing
  /\ (at \in {"off", "list"}) <=> (pc[me] = "off")
  /\ pc[me] \in Complete => at = "saving"
  /\ flag \in Challenges \cup {None, Aside}
  /\ flag = Aside => at \in {"off", "list"}
  /\ queue \in Seq(Challenges) /\ (at \in Playing <=> queue # <<>>)
  /\ interrupted \in BOOLEAN
  /\ session \in Ids \cup Calls \cup {None}
  /\ at \notin Asking => session = None
  /\ at \in {"attach", "solved", "won", "leaving"} => session \in Ids
  /\ faults \in 0..MaxFaults

(* The server: what plays is known to the client, or lost, and not both.   *)
PlacesOK ==
  /\ preparing \subseteq Calls /\ playing \subseteq Ids
  /\ lost \subseteq playing /\ session \notin lost
  /\ NothingLeftBehind

(* On its way from the terminal to the file, a mark is of a solved one.    *)
SolvedOK ==
  /\ solved \subseteq Challenges
  /\ at \in {"solved", "won", "save"} => Head(queue) \in solved
  /\ pc[me] \in Complete => challenge[me] = Head(queue) /\ challenge[me] \in solved
  /\ MarkedWasSolved

PlayerInv == StoreInv /\ ClientOK /\ PlacesOK /\ SolvedOK

(* The program is the only process of its store.                           *)
LEMMA OneClient == Procs = {me} /\ me \in Procs
BY OneClientAssumption DEF me

(* None is no session, call or challenge, and Aside is neither.            *)
LEMMA NoNone ==
  /\ None \notin Ids /\ None \notin Calls /\ None \notin Challenges /\ Ids \cap Calls = {}
  /\ Aside # None /\ Aside \notin Challenges
BY NoneAssumption, AsideAssumption

(* The first of a selection, and what is left after it.                    *)
LEMMA FirstOfQueue ==
  ASSUME ClientOK, at \in Playing
  PROVE  /\ Head(queue) \in Challenges /\ Tail(queue) \in Seq(Challenges)
         /\ Len(queue) \in Nat /\ (Len(queue) > 1 => Tail(queue) # <<>>)
<1>1. queue \in Seq(Challenges) /\ queue # <<>>
  BY DEF ClientOK
<1>2. /\ Head(queue) \in Challenges /\ Tail(queue) \in Seq(Challenges)
      /\ Len(Tail(queue)) = Len(queue) - 1 /\ Len(queue) \in Nat
  BY <1>1, HeadTailProperties, LenProperties
<1>3. Len(queue) > 1 => Tail(queue) # <<>>
  <2> DEFINE rest == Tail(queue)
  <2>1. Len(rest) = Len(queue) - 1 /\ Len(queue) \in Nat
    BY <1>2
  <2>2. rest = <<>> => Len(rest) = 0
    BY EmptySeq
  <2> HIDE DEF rest
  <2>3. Len(queue) > 1 => rest # <<>>
    BY <2>1, <2>2
  <2> QED BY <2>3 DEF rest
<1> QED BY <1>2, <1>3

-----------------------------------------------------------------------------
(* Every step of the client is one of the store's, or none.                *)
LEMMA StoreStep ==
  ASSUME ClientOK, [PlayerNext]_playerVars
  PROVE  [Next]_vars
<1>1. me \in Procs
  BY OneClient
<1>2. ASSUME Stop(me) \/ Fail(me) PROVE [Next]_vars
  BY <1>1, <1>2 DEF Next
<1>3. CASE (\E f \in Challenges \cup {None, Aside} : Launch(f)) \/ Listed \/ Unlisted
  BY <1>3, <1>1 DEF Launch, Listed, Unlisted, Next
<1>4. CASE (\E c \in Challenges : Select(<<c>>)) \/ Select(Remaining)
  BY <1>4 DEF Select
<1>5. CASE Refused \/ GiveUp \/ SaveFails \/ Quit \/ Kill
  BY <1>5, <1>2 DEF Refused, GiveUp, SaveFails, Quit, Kill, End
<1>6. CASE Answer \/ Advance
  BY <1>6, <1>2 DEF Answer, Advance, End
<1>7. CASE Deleted \/ DeleteLost
  BY <1>7, <1>2 DEF Deleted, DeleteLost, Played, End
<1>8. CASE Save
  <2>1. Head(queue) \in Challenges
    BY <1>8, FirstOfQueue DEF Save, Playing
  <2> QED BY <1>8, <1>1, <2>1 DEF Save, Next
<1>9. CASE Saving
  BY <1>9, <1>1 DEF Saving, Next
<1>10. CASE (\E r \in Calls : Ask(r)) \/ Told \/ Leave \/ Solve \/ Interrupt \/ Restart
  BY <1>10 DEF Ask, Told, Leave, Solve, Interrupt, Restart
<1>11. CASE Server
  BY <1>11 DEF Server, Unbuilt, Built
<1>12. CASE \E i \in Ids : Expire(i)
  BY <1>12 DEF Expire
<1>13. CASE UNCHANGED playerVars
  BY <1>13 DEF playerVars
<1> QED
  BY <1>3, <1>4, <1>5, <1>6, <1>7, <1>8, <1>9, <1>10, <1>11, <1>12, <1>13 DEF PlayerNext, Client

(* The first state.                                                        *)
LEMMA PlayerInvInit == PlayerInit => PlayerInv
<1> SUFFICES ASSUME PlayerInit PROVE PlayerInv
  OBVIOUS
<1>1. StoreInv
  BY StoreInvInit DEF PlayerInit
<1>2. ClientOK
  <2>1. pc[me] = "off"
    BY OneClient DEF PlayerInit, Init
  <2>2. queue = <<>> /\ queue \in Seq(Challenges)
    BY DEF PlayerInit
  <2>3. at = "off" /\ flag = None /\ interrupted = FALSE /\ session = None /\ faults = 0
    BY DEF PlayerInit
  <2>4. faults \in 0..MaxFaults
    BY <2>3, MaxAssumption
  <2>5. at \notin Playing /\ pc[me] \notin Complete
    BY <2>1, <2>3 DEF Playing, Complete
  <2> HIDE DEF Playing, Complete
  <2> QED BY <2>1, <2>2, <2>3, <2>4, <2>5 DEF ClientOK
<1>3. PlacesOK
  BY DEF PlayerInit, PlacesOK, NothingLeftBehind, Pool!Init
<1>4. SolvedOK
  BY OneClient, WhatFilesSay DEF PlayerInit, Init, SolvedOK, MarkedWasSolved, Complete
<1> QED
  BY <1>1, <1>2, <1>3, <1>4 DEF PlayerInv

-----------------------------------------------------------------------------
(* What the store's steps do to the process, and an end to the program.    *)
LEMMA ProcessMoves ==
  ASSUME StoreInv
  PROVE  /\ Stop(me) \/ Fail(me) => pc'[me] = "off"
         /\ Open(me) => pc[me] = "off" /\ pc'[me] = "play"
         /\ \A c : Begin(me, c) => pc'[me] \in {"play", "mkdir"}
         /\ Mkdir(me) \/ Create(me) \/ Write(me) \/ Rename(me) => pc'[me] \in Complete \cup {"play"}
<1>1. me \in Procs /\ pc \in [Procs -> Labels]
  BY OneClient DEF StoreInv, TypeOK, Labels
<1> QED
  BY <1>1 DEF Stop, Fail, Open, Begin, Mkdir, Create, Write, Rename, Goto, Complete

(* The faults stay within their bound.                                     *)
LEMMA FaultsCounted ==
  ASSUME ClientOK, Fault \/ (\E reason \in BOOLEAN : FaultUnless(reason)) \/ UNCHANGED faults
  PROVE  faults' \in 0..MaxFaults
BY MaxAssumption DEF ClientOK, Fault, FaultUnless

(* The end of the program leaves its variables in order.                   *)
LEMMA EndIsOK ==
  ASSUME PlayerInv, Stop(me) \/ Fail(me), Ended, faults' \in 0..MaxFaults
  PROVE  ClientOK'
<1>1. pc'[me] = "off" /\ pc'[me] \notin Complete
  BY ProcessMoves DEF PlayerInv, Complete
<1>2. at' = "off" /\ at' \notin Playing
  BY DEF Ended, Playing
<1>3. queue' = <<>> /\ queue' \in Seq(Challenges)
  BY DEF Ended
<1>4. session' = None /\ interrupted' = FALSE /\ flag' \in Challenges \cup {None, Aside}
  BY DEF Ended, PlayerInv, ClientOK
<1> QED
  BY <1>1, <1>2, <1>3, <1>4 DEF ClientOK

(* The program stays where a session belongs to it, and nowhere else.      *)
LEMMA ClientStep ==
  ASSUME PlayerInv, [PlayerNext]_playerVars
  PROVE  ClientOK'
<1>a. StoreInv /\ ClientOK
  BY DEF PlayerInv
<1>b. ASSUME Fault \/ UNCHANGED faults PROVE faults' \in 0..MaxFaults
  BY <1>a, <1>b, FaultsCounted
<1>e. ASSUME End, Fault \/ UNCHANGED faults PROVE ClientOK'
  BY <1>b, <1>e, EndIsOK DEF End
<1>1. CASE (\E f \in Challenges \cup {None, Aside} : Launch(f)) \/ Unlisted \/ (Listed /\ flag = Aside)
  <2>1. UNCHANGED vars /\ at' \in {"off", "list"} /\ session' = None /\ queue' = <<>>
        /\ interrupted' \in BOOLEAN /\ flag' \in Challenges \cup {None, Aside}
    BY <1>1, <1>a, NoNone DEF Launch, Unlisted, Listed, Ended, ClientOK, Asking, Playing
  <2>2. pc[me] = "off" /\ faults' \in 0..MaxFaults
    BY <1>1, <1>a, <1>b DEF Launch, Unlisted, Listed, FaultUnless, ClientOK
  <2>3. queue' \in Seq(Challenges) /\ at' \notin Playing /\ at' \notin Asking
        /\ pc'[me] = "off" /\ pc'[me] \notin Complete
    BY <2>1, <2>2 DEF vars, Playing, Asking, Complete
  <2> HIDE DEF Playing, Asking, Complete
  <2> QED BY <2>1, <2>2, <2>3 DEF ClientOK
<1>17. CASE Listed /\ flag # Aside
  <2>1. pc'[me] = "play" /\ flag' \in Challenges \cup {None, Aside} /\ flag' # Aside
        /\ interrupted' \in BOOLEAN /\ session' = None /\ faults' = faults
    BY <1>17, <1>a, ProcessMoves DEF Listed, ClientOK, Asking
  <2>2. pc'[me] \notin Complete /\ faults' \in 0..MaxFaults
    BY <1>b, <2>1 DEF Complete
  <2>3. CASE flag = None
    <3>1. queue' = <<>> /\ at' = "menu"
      BY <1>17, <2>3 DEF Listed
    <3>2. queue' \in Seq(Challenges) /\ at' \notin Playing /\ at' \notin Asking
      BY <3>1 DEF Playing, Asking
    <3> HIDE DEF Playing, Asking, Complete
    <3> QED BY <2>1, <2>2, <3>1, <3>2 DEF ClientOK
  <2>4. CASE flag # None
    <3>1. flag \in Challenges
      BY <1>17, <1>a, <2>4 DEF ClientOK
    <3>2. <<flag>> \in Seq(Challenges) /\ <<flag>> # <<>>
      BY <3>1
    <3>3. queue' = <<flag>> /\ at' = "ask"
      BY <1>17, <2>4 DEF Listed
    <3>4. queue' \in Seq(Challenges) /\ queue' # <<>>
      BY <3>2, <3>3
    <3>5. at' \in Playing /\ at' \notin Asking
      BY <3>3 DEF Playing, Asking
    <3> HIDE DEF Playing, Asking, Complete
    <3> QED BY <2>1, <2>2, <3>3, <3>4, <3>5 DEF ClientOK
  <2> QED BY <2>3, <2>4
<1>2. ASSUME NEW selected, Select(selected) PROVE ClientOK'
  BY <1>2, <1>a DEF Select, vars, ClientOK, Playing, Asking, Complete
<1>3. CASE Refused \/ GiveUp \/ Quit \/ Kill
  BY <1>3, <1>e DEF Refused, GiveUp, Quit, Kill, FaultUnless
<1>4. CASE SaveFails
  BY <1>4, <1>b, EndIsOK DEF SaveFails
<1>5. CASE Answer
  <2>1. CASE session = None
    BY <1>5, <1>e, <2>1 DEF Answer
  <2>2. CASE session # None
    BY <1>5, <1>a, <2>2 DEF Answer, vars, ClientOK, Playing, Asking, Complete
  <2> QED BY <2>1, <2>2
<1>6. ASSUME NEW r \in Calls, Ask(r) PROVE ClientOK'
  BY <1>6, <1>a DEF Ask, vars, ClientOK, Playing, Asking, Complete
<1>7. CASE Leave \/ Solve \/ Told \/ Interrupt
  BY <1>7, <1>a, <1>b DEF Leave, Solve, Told, Interrupt, FaultUnless, vars, ClientOK, Playing, Asking, Complete
<1>8. CASE Deleted \/ DeleteLost
  <2>1. Fault \/ UNCHANGED faults
    BY <1>8 DEF Deleted, DeleteLost
  <2>2. at \in {"won", "leaving"} /\ Played
    BY <1>8 DEF Deleted, DeleteLost
  <2>3. CASE at = "won"
    BY <2>2, <2>3, <2>1, <1>a, <1>b DEF Played, vars, ClientOK, Playing, Asking, Complete
  <2>4. CASE at # "won"
    BY <2>2, <2>4, <2>1, <1>e DEF Played
  <2> QED BY <2>3, <2>4
<1>9. CASE Save
  <2>1. pc'[me] \in {"play", "mkdir"}
    BY <1>9, <1>a, ProcessMoves DEF Save
  <2> QED BY <1>9, <1>a, <2>1 DEF Save, ClientOK, Playing, Asking, Complete
<1>10. CASE Saving
  <2>1. pc'[me] \in Complete \cup {"play"}
    BY <1>10, <1>a, ProcessMoves DEF Saving
  <2> QED BY <1>10, <1>a, <2>1 DEF Saving, client, ClientOK, Playing, Asking, Complete
<1>11. CASE Advance
  <2>1. /\ Tail(queue) \in Seq(Challenges) /\ (Len(queue) > 1 => Tail(queue) # <<>>)
    BY <1>11, <1>a, FirstOfQueue DEF Advance, Playing
  <2>2. CASE Len(queue) > 1 /\ at' = "ask" /\ queue' = Tail(queue) /\ UNCHANGED <<vars, flag, interrupted, session>>
    BY <1>11, <1>a, <2>1, <2>2 DEF Advance, vars, ClientOK, Playing, Asking, Complete
  <2>3. CASE End
    BY <1>11, <1>e, <2>3 DEF Advance
  <2>4. CASE at' = "menu" /\ queue' = <<>> /\ UNCHANGED <<vars, flag, interrupted, session>>
    BY <1>11, <1>a, <2>4 DEF Advance, vars, ClientOK, Playing, Asking, Complete
  <2> QED BY <1>11, <2>2, <2>3, <2>4 DEF Advance
<1>12. ASSUME NEW r \in Calls, Unbuilt(r) PROVE ClientOK'
  <2>1. faults' \in 0..MaxFaults
    BY <1>12, <1>b DEF Unbuilt
  <2>2. session' = session \/ (session = r /\ session' = None)
    BY <1>12 DEF Unbuilt
  <2>3. session = r => at = "wait"
    BY <1>a, NoNone DEF ClientOK, Asking
  <2> QED BY <1>12, <1>a, <2>1, <2>2, <2>3 DEF Unbuilt, vars, ClientOK, Playing, Asking, Complete
<1>13. ASSUME NEW r \in Calls, NEW i \in Ids, Built(r, i) PROVE ClientOK'
  <2>1. session = r => at = "wait"
    BY <1>a, NoNone DEF ClientOK, Asking
  <2> QED BY <1>13, <1>a, <2>1 DEF Built, vars, ClientOK, Playing, Asking, Complete
<1>14. ASSUME NEW i \in Ids, Expire(i) PROVE ClientOK'
  <2>1. faults' \in 0..MaxFaults
    BY <1>14, <1>b DEF Expire, FaultUnless
  <2> QED BY <1>14, <1>a, <2>1 DEF Expire, vars, client, ClientOK, Playing, Asking, Complete
<1>15. CASE Restart
  <2>1. session \in Calls => at = "wait"
    BY <1>a, NoNone DEF ClientOK, Asking
  <2> QED BY <1>15, <1>a, <1>b, <2>1 DEF Restart, vars, ClientOK, Playing, Asking, Complete
<1>16. CASE UNCHANGED playerVars
  BY <1>16, <1>a DEF playerVars, vars, client, ClientOK, Playing, Asking, Complete
<1> QED
  BY <1>1, <1>2, <1>3, <1>4, <1>5, <1>6, <1>7, <1>8, <1>9, <1>10, <1>11, <1>12, <1>13, <1>14, <1>15, <1>16, <1>17
     DEF PlayerNext, Client, Server

-----------------------------------------------------------------------------
(* What plays is the client's, or lost: no step makes it both, or neither. *)
LEMMA PlacesStep ==
  ASSUME PlayerInv, [PlayerNext]_playerVars
  PROVE  PlacesOK'
<1>a. /\ ClientOK /\ PlacesOK
      /\ preparing \subseteq Calls /\ playing \subseteq Ids /\ lost \subseteq playing
      /\ session \notin lost /\ playing \subseteq lost \cup {session}
  BY DEF PlayerInv, PlacesOK, NothingLeftBehind
<1>n. None \notin Ids /\ None \notin Calls /\ \A r \in Calls : r \notin Ids
  BY NoNone
<1>1. CASE /\ UNCHANGED <<preparing, playing, lost>>
           /\ session' = session \/ (session' = None /\ session \notin playing)
  BY <1>1, <1>a, <1>n DEF PlacesOK, NothingLeftBehind
<1>2. CASE /\ UNCHANGED <<preparing, playing>> /\ session' = None /\ lost' = lost \cup Left
  BY <1>2, <1>a, <1>n DEF PlacesOK, NothingLeftBehind, Left
<1>3. CASE at \notin Asking /\ UNCHANGED <<preparing, playing, lost>> /\ session' = None
  <2>1. session = None
    BY <1>3, <1>a DEF ClientOK
  <2> QED BY <1>3, <2>1, <1>1
<1>4. CASE (\E f \in Challenges \cup {None, Aside} : Launch(f)) \/ Listed \/ Unlisted
  <2>1. session' = session \/ session' = None
    BY <1>4 DEF Launch, Listed, Unlisted, Ended
  <2>2. session = None
    BY <1>4, <1>a DEF Launch, Listed, Unlisted, ClientOK, Asking
  <2> QED BY <1>4, <2>1, <2>2, <1>1 DEF Launch, Listed, Unlisted, pool
<1>5. CASE (\E c \in Challenges : Select(<<c>>)) \/ Select(Remaining)
  BY <1>5, <1>1 DEF Select, pool
<1>6. CASE Refused \/ Quit \/ SaveFails
  BY <1>6, <1>3 DEF Refused, Quit, SaveFails, End, Ended, Asking, pool
<1>7. CASE GiveUp \/ Kill
  BY <1>7, <1>2 DEF GiveUp, Kill, End, Ended, pool
<1>8. CASE Answer
  <2>1. session = None => session' = None
    BY <1>8 DEF Answer, End, Ended
  <2> QED BY <1>8, <1>1, <2>1 DEF Answer, pool
<1>9. CASE Leave \/ Solve \/ Told \/ Interrupt
  BY <1>9, <1>1 DEF Leave, Solve, Told, Interrupt, pool
<1>10. CASE Deleted
  <2>1. session' = None
    BY <1>10 DEF Deleted, Played, End, Ended
  <2> QED BY <1>10, <2>1, <1>a, <1>n DEF Deleted, PlacesOK, NothingLeftBehind
<1>11. CASE DeleteLost
  <2>1. session' = None
    BY <1>11 DEF DeleteLost, Played, End, Ended
  <2> QED BY <1>11, <2>1, <1>2 DEF DeleteLost, pool
<1>12. CASE Save \/ Saving
  BY <1>12, <1>1 DEF Save, Saving, client, pool
<1>13. CASE Advance
  <2>1. session' = session \/ session' = None
    BY <1>13 DEF Advance, End, Ended
  <2>2. session = None
    BY <1>13, <1>a DEF Advance, ClientOK, Asking
  <2> QED BY <1>13, <2>1, <2>2, <1>1 DEF Advance, pool
<1>14. ASSUME NEW r \in Calls, Ask(r) PROVE PlacesOK'
  <2>1. session = None /\ session' = r
    BY <1>14, <1>a DEF Ask, ClientOK, Asking
  <2> QED BY <1>14, <2>1, <1>a, <1>n DEF Ask, Pool!Reserve, PlacesOK, NothingLeftBehind
<1>15. ASSUME NEW r \in Calls, Unbuilt(r) PROVE PlacesOK'
  <2>1. session' = session \/ (session = r /\ session' = None)
    BY <1>15 DEF Unbuilt
  <2> QED BY <1>15, <2>1, <1>a, <1>n DEF Unbuilt, Pool!Abort, PlacesOK, NothingLeftBehind
<1>16. ASSUME NEW r \in Calls, NEW i \in Ids, Built(r, i) PROVE PlacesOK'
  <2>1. i \notin playing /\ preparing' = preparing \ {r} /\ playing' = playing \cup {i}
    BY <1>16 DEF Built, Pool!Activate
  <2>2. CASE session = r
    BY <1>16, <2>1, <2>2, <1>a, <1>n DEF Built, PlacesOK, NothingLeftBehind
  <2>3. CASE session # r
    BY <1>16, <2>1, <2>3, <1>a, <1>n DEF Built, PlacesOK, NothingLeftBehind
  <2> QED BY <2>2, <2>3
<1>17. ASSUME NEW i \in Ids, Expire(i) PROVE PlacesOK'
  BY <1>17, <1>a, <1>n DEF Expire, client, Pool!Leave, PlacesOK, NothingLeftBehind
<1>18. CASE Restart
  BY <1>18, <1>a, <1>n DEF Restart, Pool!Reset, PlacesOK, NothingLeftBehind
<1>19. CASE UNCHANGED playerVars
  BY <1>19, <1>1 DEF playerVars, pool, client
<1> QED
  BY <1>4, <1>5, <1>6, <1>7, <1>8, <1>9, <1>10, <1>11, <1>12, <1>13, <1>14, <1>15, <1>16, <1>17, <1>18, <1>19
     DEF PlayerNext, Client, Server

-----------------------------------------------------------------------------
(* The store's files and marks, as a step of the process leaves them.      *)
LEMMA MarksMove ==
  ASSUME StoreInv
  PROVE  /\ Stop(me) \/ Fail(me) \/ Open(me) \/ Mkdir(me) \/ Create(me) \/ Write(me) =>
              path' = path /\ challenge' = challenge
         /\ \A c \in Challenges : Begin(me, c) => path' = path /\ challenge'[me] = c
         /\ Rename(me) => path'.marks = path.marks \cup {challenge[me]} /\ challenge' = challenge
         /\ \A c : Begin(me, c) \/ Open(me) => pc[me] \notin Complete
         /\ Mkdir(me) \/ Create(me) \/ Write(me) \/ Rename(me) => pc[me] \in Complete
<1>1. me \in Procs /\ challenge \in [Procs -> Challenges] /\ Holds(me)
  BY OneClient DEF StoreInv, TypeOK
<1>2. Stop(me) \/ Fail(me) \/ Open(me) \/ Mkdir(me) \/ Create(me) \/ Write(me) =>
        path' = path /\ challenge' = challenge
  BY <1>1 DEF Stop, Fail, Open, Mkdir, Create, Write, Put, Holds
<1>3. \A c \in Challenges : Begin(me, c) => path' = path /\ challenge'[me] = c
  BY <1>1 DEF Begin
<1>4. Rename(me) => path'.marks = path.marks \cup {challenge[me]} /\ challenge' = challenge
  BY <1>1, WhatFilesSay DEF Rename, Holds, Complete
<1>5. \A c : Begin(me, c) \/ Open(me) => pc[me] \notin Complete
  BY DEF Begin, Open, Complete
<1>6. Mkdir(me) \/ Create(me) \/ Write(me) \/ Rename(me) => pc[me] \in Complete
  BY DEF Mkdir, Create, Write, Rename, Complete
<1> QED
  BY <1>2, <1>3, <1>4, <1>5, <1>6

(* The mark that is saved is the one that was won.                         *)
LEMMA SolvedStep ==
  ASSUME PlayerInv, [PlayerNext]_playerVars
  PROVE  SolvedOK'
<1>a. /\ StoreInv /\ ClientOK /\ solved \subseteq Challenges
      /\ at \in {"solved", "won", "save"} => Head(queue) \in solved
      /\ pc[me] \in Complete => challenge[me] = Head(queue) /\ challenge[me] \in solved
      /\ pc[me] \in Complete => at = "saving"
      /\ path.marks \subseteq solved
  BY DEF PlayerInv, ClientOK, SolvedOK, MarkedWasSolved
<1>1. CASE UNCHANGED <<vars, at, queue, solved>>
  BY <1>1, <1>a DEF SolvedOK, MarkedWasSolved, vars
<1>2. CASE /\ path' = path /\ solved' = solved
           /\ at' \notin {"solved", "won", "save"} /\ pc'[me] \notin Complete
  BY <1>2, <1>a DEF SolvedOK, MarkedWasSolved
<1>3. CASE /\ UNCHANGED <<vars, solved>>
           /\ at' \notin {"solved", "won", "save"} /\ pc[me] \notin Complete
  BY <1>3, <1>a DEF SolvedOK, MarkedWasSolved, vars
<1>4. CASE (Stop(me) \/ Fail(me)) /\ Ended /\ solved' = solved
  <2>1. path' = path /\ pc'[me] \notin Complete
    BY <1>4, <1>a, MarksMove, ProcessMoves DEF Complete
  <2> QED BY <1>4, <2>1, <1>2 DEF Ended
<1>5. CASE End /\ solved' = solved
  BY <1>5, <1>4 DEF End
<1>6. CASE (\E f \in Challenges \cup {None, Aside} : Launch(f)) \/ Listed \/ Unlisted
  <2>1. pc[me] \notin Complete
    BY <1>6, <1>a DEF Launch, Listed, Unlisted
  <2>2. path' = path /\ pc'[me] \notin Complete
    BY <1>6, <2>1, <1>a, MarksMove, ProcessMoves DEF Launch, Listed, Unlisted, vars, Complete
  <2> QED BY <1>6, <2>2, <1>2 DEF Launch, Listed, Unlisted, Ended
<1>7. ASSUME NEW selected, Select(selected) PROVE SolvedOK'
  <2>1. pc[me] \notin Complete
    BY <1>7, <1>a DEF Select
  <2> QED BY <1>7, <2>1, <1>3 DEF Select
<1>8. CASE Refused \/ GiveUp \/ Quit \/ Kill
  BY <1>8, <1>5 DEF Refused, GiveUp, Quit, Kill
<1>9. CASE SaveFails
  BY <1>9, <1>4 DEF SaveFails
<1>10. CASE Answer
  <2>1. CASE session = None
    BY <1>10, <2>1, <1>5 DEF Answer
  <2>2. CASE session # None
    BY <1>10, <2>2, <1>3, <1>a DEF Answer
  <2> QED BY <2>1, <2>2
<1>11. CASE (\E r \in Calls : Ask(r)) \/ Leave
  <2>1. pc[me] \notin Complete
    BY <1>11, <1>a DEF Ask, Leave
  <2> QED BY <1>11, <2>1, <1>3 DEF Ask, Leave
<1>12. CASE Interrupt \/ Restart \/ Server \/ \E i \in Ids : Expire(i)
  BY <1>12, <1>1 DEF Interrupt, Restart, Server, Unbuilt, Built, Expire, client
<1>13. CASE Solve \/ Told
  <2>1. Head(queue) \in Challenges
    BY <1>13, <1>a, FirstOfQueue DEF Solve, Told, Playing
  <2>2. solved' = solved \cup {Head(queue)} /\ queue' = queue /\ UNCHANGED vars
    BY <1>13, <1>a DEF Solve, Told
  <2> QED BY <2>1, <2>2, <1>a DEF SolvedOK, MarkedWasSolved, vars
<1>14. CASE Deleted \/ DeleteLost
  <2>1. Played /\ solved' = solved
    BY <1>14 DEF Deleted, DeleteLost
  <2>2. CASE at = "won"
    <3>1. UNCHANGED <<vars, queue, solved>> /\ at' = "save" /\ Head(queue) \in solved
          /\ pc[me] \notin Complete
      BY <2>1, <2>2, <1>a DEF Played
    <3> QED BY <3>1, <1>a DEF SolvedOK, MarkedWasSolved, vars
  <2>3. CASE at # "won"
    BY <2>1, <2>3, <1>5 DEF Played
  <2> QED BY <2>2, <2>3
<1>15. CASE Save
  <2>1. Head(queue) \in Challenges /\ Head(queue) \in solved
    BY <1>15, <1>a, FirstOfQueue DEF Save, Playing
  <2>2. path' = path /\ challenge'[me] = Head(queue)
    BY <1>15, <2>1, <1>a, MarksMove DEF Save
  <2>3. at' = "saving" /\ solved' = solved /\ queue' = queue
    BY <1>15 DEF Save
  <2> QED BY <2>1, <2>2, <2>3, <1>a DEF SolvedOK, MarkedWasSolved
<1>16. CASE Saving
  <2>1. pc[me] \in Complete /\ challenge[me] \in solved /\ challenge[me] = Head(queue)
        /\ challenge' = challenge
    BY <1>16, <1>a, MarksMove DEF Saving
  <2>2. path'.marks \subseteq solved
    BY <1>16, <2>1, <1>a, MarksMove DEF Saving
  <2>3. at' = "saving" /\ solved' = solved /\ queue' = queue
    BY <1>16 DEF Saving, client
  <2> QED BY <2>1, <2>2, <2>3, <1>a DEF SolvedOK, MarkedWasSolved
<1>17. CASE Advance
  <2>1. CASE End
    BY <1>17, <2>1, <1>5 DEF Advance
  <2>2. CASE UNCHANGED vars /\ at' \in {"ask", "menu"}
    BY <1>17, <2>2, <1>3 DEF Advance, Complete
  <2> QED BY <1>17, <2>1, <2>2 DEF Advance
<1>18. CASE UNCHANGED playerVars
  BY <1>18, <1>1 DEF playerVars, client
<1> QED
  BY <1>6, <1>7, <1>8, <1>9, <1>10, <1>11, <1>12, <1>13, <1>14, <1>15, <1>16, <1>17, <1>18
     DEF PlayerNext, Client

(* Every step.                                                             *)
LEMMA PlayerInvNext == PlayerInv /\ [PlayerNext]_playerVars => PlayerInv'
<1> SUFFICES ASSUME PlayerInv, [PlayerNext]_playerVars PROVE PlayerInv'
  OBVIOUS
<1>1. StoreInv'
  <2>1. [Next]_vars
    BY StoreStep DEF PlayerInv
  <2> QED BY <2>1, OneClient, StoreInvNext DEF PlayerInv
<1> QED
  BY <1>1, ClientStep, PlacesStep, SolvedStep DEF PlayerInv

(* Every state.                                                            *)
LEMMA PlayerInvHolds == PlayerSpec => []PlayerInv
BY PlayerInvInit, PlayerInvNext, PTL DEF PlayerSpec

-----------------------------------------------------------------------------
(* The client takes the store through steps of ProgressStore only, so that *)
(* what is proved of the store holds for it: it is an atomic one.          *)
THEOREM PlayerUsesStore == PlayerSpec => Spec /\ ImplementsAtomicStore
<1>1. PlayerInit => Init
  BY DEF PlayerInit
<1>2. PlayerInv /\ [PlayerNext]_playerVars => [Next]_vars
  BY StoreStep DEF PlayerInv
<1>3. PlayerSpec => Spec
  BY <1>1, <1>2, PlayerInvHolds, PTL DEF PlayerSpec, Spec
<1>4. Spec => ImplementsAtomicStore
  BY OneClient, StoreIsAtomic
<1> QED
  BY <1>3, <1>4, PTL

(* What a step of the client or of its server is to the pool: a place that *)
(* is reserved, given back or turned into a session, or a session that     *)
(* leaves; the DELETE of one that is gone already is nothing at all.       *)
LEMMA PoolStep ==
  ASSUME PlayerInv, [PlayerNext]_playerVars
  PROVE  [Pool!Next]_(Pool!vars)
<1>a. playing \subseteq Ids
  BY DEF PlayerInv, PlacesOK
<1>1. CASE UNCHANGED pool
  BY <1>1 DEF pool, Pool!vars
<1>2. ASSUME NEW r \in Calls, Ask(r) PROVE Pool!Next
  BY <1>2 DEF Ask, Pool!Next
<1>3. ASSUME NEW r \in Calls, Unbuilt(r) PROVE Pool!Next
  BY <1>3 DEF Unbuilt, Pool!Next
<1>4. ASSUME NEW r \in Calls, NEW i \in Ids, Built(r, i) PROVE Pool!Next
  BY <1>4 DEF Built, Pool!Next
<1>5. CASE Restart
  BY <1>5 DEF Restart, Pool!Next
<1>6. ASSUME NEW i \in Ids, Expire(i) PROVE Pool!Next
  BY <1>6 DEF Expire, Pool!Next
<1>7. CASE Deleted
  <2>1. playing' = playing \ {session} /\ preparing' = preparing
    BY <1>7 DEF Deleted
  <2>2. CASE session \in playing
    <3>1. Pool!Leave({session}) /\ {session} \in SUBSET Ids
      BY <1>a, <2>1, <2>2 DEF Pool!Leave
    <3> QED BY <3>1 DEF Pool!Next
  <2>3. CASE session \notin playing
    BY <1>1, <2>1, <2>3 DEF pool
  <2> QED BY <2>2, <2>3
<1>8. CASE (\E f \in Challenges \cup {None, Aside} : Launch(f)) \/ (\E s : Select(s)) \/ Quit
  BY <1>1, <1>8 DEF Launch, Select, Quit
<1>9. CASE Listed \/ Unlisted \/ Refused \/ GiveUp \/ Answer \/ Told \/ Leave \/ DeleteLost
           \/ Solve \/ Interrupt \/ Kill
  BY <1>1, <1>9 DEF Listed, Unlisted, Refused, GiveUp, Answer, Told, Leave, DeleteLost, Solve, Interrupt, Kill
<1>10. CASE Save \/ Saving \/ SaveFails \/ Advance
  BY <1>1, <1>10 DEF Save, Saving, SaveFails, Advance
<1>11. CASE UNCHANGED playerVars
  BY <1>1, <1>11 DEF playerVars
<1> HIDE DEF Pool!Next, Pool!vars
<1> QED
  BY <1>2, <1>3, <1>4, <1>5, <1>6, <1>7, <1>8, <1>9, <1>10, <1>11 DEF PlayerNext, Client, Server

(* The client, killed, refused, cut off or restarted under, takes nothing  *)
(* from the server's pool that SessionPool does not give: it never deletes *)
(* or uses a place twice (client.go:61-72, session.go:108-156).            *)
THEOREM PlayerUsesPool == PlayerSpec => Pool!Spec
<1>1. PlayerInit => Pool!Init
  BY DEF PlayerInit
<1>2. PlayerInv /\ [PlayerNext]_playerVars => [Pool!Next]_(Pool!vars)
  BY PoolStep
<1> QED
  BY <1>1, <1>2, PlayerInvHolds, PTL DEF PlayerSpec, Pool!Spec

(* The client, its pool and its file are of their types.                   *)
THEOREM PlayerTypes == PlayerSpec => []PlayerTypeOK
<1>1. PlayerInv => PlayerTypeOK
  BY DEF PlayerInv, StoreInv, ClientOK, PlacesOK, SolvedOK, PlayerTypeOK, Asking
<1> QED
  BY <1>1, PlayerInvHolds, PTL

(* Only a challenge that was solved is marked, over every failure, kill    *)
(* and restart of the server.                                              *)
THEOREM MarkedStaysSolved == PlayerSpec => []MarkedWasSolved
<1>1. PlayerInv => MarkedWasSolved
  BY DEF PlayerInv, SolvedOK
<1> QED
  BY <1>1, PlayerInvHolds, PTL

(* Every session is the client's, or one that no client could give back.   *)
THEOREM NothingIsLeftBehind == PlayerSpec => []NothingLeftBehind
<1>1. PlayerInv => NothingLeftBehind
  BY DEF PlayerInv, PlacesOK
<1> QED
  BY <1>1, PlayerInvHolds, PTL

-----------------------------------------------------------------------------
(* From Play's return to the file: what is on its way stays there until the*)
(* rename, or is in the file already.                                      *)
LEMMA WinStep ==
  ASSUME PlayerInv, [PlayerNext]_playerVars, NEW c \in Unsaved
  PROVE  c \in Unsaved' \/ c \in path'.marks \/ Kill \/ SaveFails
<1>a. /\ c = Head(queue)
      /\ at \in {"won", "save"} \/ (at = "saving" /\ pc[me] \in Complete)
  BY DEF Unsaved
<1>b. StoreInv /\ ClientOK /\ (pc[me] \in Complete => challenge[me] = Head(queue))
  BY DEF PlayerInv, SolvedOK
<1>1. CASE UNCHANGED <<vars, at, queue>>
  BY <1>1, <1>a DEF Unsaved, vars
<1>2. CASE Deleted \/ DeleteLost
  <2>1. at = "won" /\ at' = "save" /\ queue' = queue
    BY <1>2, <1>a DEF Deleted, DeleteLost, Played
  <2> QED BY <1>a, <2>1 DEF Unsaved
<1>3. CASE Save
  <2>1. at' = "saving" /\ queue' = queue /\ Begin(me, c)
    BY <1>3, <1>a DEF Save
  <2>2. CASE c \in completed[me]
    <3>1. path' = path /\ completed[me] = path.marks
      BY <1>b, <2>1, OneClient DEF Begin, StoreInv, Holds
    <3> QED BY <2>2, <3>1
  <2>3. CASE c \notin completed[me]
    <3>1. pc'[me] = "mkdir"
      BY <1>b, <2>1, <2>3, OneClient DEF Begin, Goto, StoreInv, TypeOK
    <3> QED BY <1>a, <2>1, <3>1 DEF Unsaved, Complete
  <2> QED BY <2>2, <2>3
<1>4. CASE Saving
  <2>1. at' = "saving" /\ queue' = queue
    BY <1>4 DEF Saving, client
  <2>2. CASE Rename(me)
    <3>1. pc[me] \in Complete /\ path'.marks = path.marks \cup {challenge[me]}
      BY <1>b, <2>2, MarksMove
    <3> QED BY <1>a, <1>b, <3>1
  <2>3. CASE Mkdir(me) \/ Create(me) \/ Write(me)
    <3>1. pc'[me] \in Complete
      BY <1>b, <2>3, OneClient DEF Mkdir, Create, Write, Goto, StoreInv, TypeOK, Complete
    <3> QED BY <1>a, <2>1, <3>1 DEF Unsaved
  <2> QED BY <1>4, <2>2, <2>3 DEF Saving
<1>5. CASE Interrupt \/ Restart \/ Server \/ (\E i \in Ids : Expire(i)) \/ UNCHANGED playerVars
  BY <1>1, <1>5 DEF Interrupt, Restart, Server, Unbuilt, Built, Expire, client, playerVars
<1>6. /\ ~(\E f \in Challenges \cup {None, Aside} : Launch(f)) /\ ~Listed /\ ~Unlisted
      /\ ~(\E s : Select(s)) /\ ~Quit
  BY <1>a DEF Launch, Listed, Unlisted, Select, Quit
<1>7. ~(\E k \in Calls : Ask(k)) /\ ~Refused /\ ~GiveUp /\ ~Answer /\ ~Told /\ ~Leave /\ ~Solve
  BY <1>a DEF Ask, Refused, GiveUp, Answer, Told, Leave, Solve
<1>8. ~Advance
  BY <1>a DEF Advance, Complete
<1> QED
  BY <1>2, <1>3, <1>4, <1>5, <1>6, <1>7, <1>8 DEF PlayerNext, Client

(* A completion that Play has reported is saved: no SIGINT, lost DELETE,   *)
(* session that is over or restart of the server takes it away before the  *)
(* rename, but a kill or a call that fails (main.go:67-76).                *)
THEOREM WinsAreSaved == PlayerSpec => WinIsSaved
<1>1. PlayerInv /\ [PlayerNext]_playerVars =>
        [\A c \in Unsaved : c \in Unsaved' \/ c \in path'.marks \/ Kill \/ SaveFails]_playerVars
  BY WinStep
<1> QED
  BY <1>1, PlayerInvHolds, PTL DEF PlayerSpec, WinIsSaved
=============================================================================
