--------------------------------- MODULE Player ---------------------------------
(***************************************************************************)
(* The player's client from its start to its end, cmd/k8sgames/main.go:    *)
(* the picker (internal/terminal/menu.go), Play (client.go) and the        *)
(* progress file (ProgressStore).  The server is what SessionPool says     *)
(* that it is, and a session is solved or not; Attach has the terminal     *)
(* between the two.                                                        *)
(*                                                                         *)
(* An answer may be lost, and so may a DELETE; the client is interrupted   *)
(* or killed at any time, and the server restarted.                        *)
(***************************************************************************)
EXTENDS ProgressStore, Naturals, Sequences, FiniteSets

CONSTANTS
  List,      \* GET /v1/challenges
  Ids,       \* sessions
  Calls,     \* POSTs that the server may be working on
  Max,       \* -max-sessions
  None,
  Aside,     \* -list, or a -challenge that the server does not know
  MaxFaults  \* bound: failures, kills, signals, and players who give up

ASSUME ListAssumption == List \in Seq(Challenges) /\ Challenges = {List[i] : i \in DOMAIN List}
ASSUME OneClientAssumption == Procs # {} /\ \A p, q \in Procs : p = q
ASSUME NoneAssumption == None \notin Ids \cup Calls \cup Challenges /\ Ids \cap Calls = {}
ASSUME AsideAssumption == Aside \notin Challenges \cup {None}
ASSUME MaxAssumption == Max \in Nat /\ MaxFaults \in Nat

VARIABLES
  at,           \* what main is doing
  flag,         \* -challenge, None without one, or Aside
  queue,        \* selected, from the one that is played
  interrupted,  \* ctx.Err() is not nil
  session,      \* the call it waits for, the session it has or is sent, or None
  preparing, playing,  \* the server, as in SessionPool
  solved,       \* history: the challenges of sessions that were solved
  lost,         \* history: sessions that no client knows of any more
  faults

client == <<at, flag, queue, interrupted, session>>
pool == <<preparing, playing>>
playerVars == <<vars, client, pool, solved, lost, faults>>

Pool == INSTANCE SessionPool

me == CHOOSE p \in Procs : TRUE

Fault == faults < MaxFaults /\ faults' = faults + 1

FaultUnless(reason) == IF reason THEN UNCHANGED faults ELSE Fault

Full == Cardinality(preparing) + Cardinality(playing) >= Max

(* What a client that ends here forgets.                                   *)
Left == {session} \cap playing

Ended ==
  /\ at' = "off" /\ queue' = <<>> /\ session' = None /\ interrupted' = FALSE
  /\ UNCHANGED flag

(* main returns, or fails with an error.                                   *)
End == Stop(me) /\ Ended

-----------------------------------------------------------------------------
(* The flags are read, and GET /v1/challenges is sent.                     *)
Launch(f) ==
  /\ at = "off"
  /\ at' = "list" /\ flag' = f
  /\ UNCHANGED <<vars, queue, interrupted, session, pool, solved, lost, faults>>

(* It is answered and the progress file is read; then the picker asks, or  *)
(* the flag says what is played.  Nothing is with -list, nor with an id    *)
(* for which the POST is refused.                                          *)
Listed ==
  /\ at = "list"
  /\ \/ flag = Aside /\ Ended /\ UNCHANGED vars
     \/ /\ flag # Aside /\ Open(me)
        /\ IF flag = None THEN at' = "menu" /\ queue' = <<>>
                          ELSE at' = "ask" /\ queue' = <<flag>>
        /\ UNCHANGED <<flag, interrupted, session>>
  /\ UNCHANGED <<pool, solved, lost, faults>>

(* Or it fails, by ctx or for any reason, or main is killed.               *)
Unlisted ==
  /\ at = "list"
  /\ FaultUnless(interrupted)
  /\ Ended
  /\ UNCHANGED <<vars, pool, solved, lost>>

(* Mutant of Remaining: the condition is the wrong way round.              *)
RemainingDone == SelectSeq(List, LAMBDA c : c \in completed[me])

Remaining == SelectSeq(List, LAMBDA c : c \notin completed[me])

(* A number, or "all" when something remains; a number's challenge may be  *)
(* one that is complete.  ReadString knows nothing of ctx.                 *)
Select(selected) ==
  /\ at = "menu" /\ selected \in Seq(Challenges) \ {<<>>}
  /\ at' = "ask" /\ queue' = selected
  /\ UNCHANGED <<vars, flag, interrupted, session, pool, solved, lost, faults>>

(* "quit", or the end of the input.                                        *)
Quit ==
  /\ at = "menu" /\ Fault
  /\ End
  /\ UNCHANGED <<pool, solved, lost>>

-----------------------------------------------------------------------------
(* Play: POST /v1/sessions ...                                             *)
Ask(r) ==
  /\ at = "ask" /\ ~interrupted
  /\ Pool!Reserve(r)
  /\ at' = "wait" /\ session' = r
  /\ UNCHANGED <<vars, flag, queue, interrupted, solved, lost, faults>>

(* ... which a full server refuses and a cancelled client does not send.   *)
Refused ==
  /\ at = "ask"
  /\ FaultUnless(interrupted \/ Full)
  /\ End
  /\ UNCHANGED <<pool, solved, lost>>

(* The server's Create returns, and its answer is on the way; nobody waits *)
(* for that of a call which was given up.                                  *)
Built(r, i) ==
  /\ i # session
  /\ Pool!Activate(r, i)
  /\ session' = IF session = r THEN i ELSE session
  /\ lost' = IF session = r THEN lost ELSE lost \cup {i}
  /\ UNCHANGED <<vars, at, flag, queue, interrupted, solved, faults>>

Unbuilt(r) ==
  /\ Pool!Abort(r)
  /\ IF session = r THEN Fault /\ session' = None ELSE UNCHANGED <<faults, session>>
  /\ UNCHANGED <<vars, at, flag, queue, interrupted, solved, lost>>

(* Two minutes, a broken connection or ctx: also while the answer comes.   *)
GiveUp ==
  /\ at = "wait" /\ session # None
  /\ FaultUnless(interrupted)
  /\ End
  /\ lost' = lost \cup Left
  /\ UNCHANGED <<pool, solved>>

Answer ==
  /\ at = "wait" /\ session \notin Calls
  /\ IF session = None THEN End
     ELSE at' = "attach" /\ UNCHANGED <<vars, flag, queue, interrupted, session>>
  /\ UNCHANGED <<pool, solved, lost, faults>>

(* The terminal: the challenge is found complete ...                       *)
Solve ==
  /\ at = "attach" /\ session \in playing
  /\ at' = "solved"
  /\ solved' = solved \cup {Head(queue)}
  /\ UNCHANGED <<vars, flag, queue, interrupted, session, pool, lost, faults>>

(* ... and the client reads so, whatever has become of ctx and the session.*)
Told ==
  /\ at = "solved"
  /\ at' = "won"
  /\ UNCHANGED <<vars, flag, queue, interrupted, session, pool, solved, lost, faults>>

(* It ends before, by ctx, with the session, or for any reason.            *)
Leave ==
  /\ at \in {"attach", "solved"}
  /\ FaultUnless(interrupted \/ session \notin playing)
  /\ at' = "leaving"
  /\ UNCHANGED <<vars, flag, queue, interrupted, session, pool, solved, lost>>

(* Mutant of Played: a client that was interrupted ends.                   *)
PlayedUnlessInterrupted ==
  IF at = "won" /\ ~interrupted
    THEN at' = "save" /\ session' = None /\ UNCHANGED <<vars, flag, queue, interrupted>>
    ELSE End

(* Play returns: without a completion main ends, whatever the error.       *)
Played ==
  IF at = "won"
    THEN at' = "save" /\ session' = None /\ UNCHANGED <<vars, flag, queue, interrupted>>
    ELSE End

(* Mutant of Deleted: the deferred request uses ctx.                       *)
DeletedUnlessInterrupted ==
  /\ at \in {"won", "leaving"}
  /\ playing' = IF interrupted THEN playing ELSE playing \ {session}
  /\ Played
  /\ UNCHANGED <<preparing, solved, lost, faults>>

(* The deferred DELETE does not depend on ctx; its result is dropped.      *)
Deleted ==
  /\ at \in {"won", "leaving"}
  /\ playing' = playing \ {session}
  /\ Played
  /\ UNCHANGED <<preparing, solved, lost, faults>>

DeleteLost ==
  /\ at \in {"won", "leaving"} /\ Fault
  /\ lost' = lost \cup Left
  /\ Played
  /\ UNCHANGED <<pool, solved>>

-----------------------------------------------------------------------------
(* Mutant of Save: the mark goes to the last of the challenges selected.   *)
SaveLast ==
  /\ at = "save"
  /\ Begin(me, queue[Len(queue)])
  /\ at' = "saving"
  /\ UNCHANGED <<flag, queue, interrupted, session, pool, solved, lost, faults>>

(* store.Complete(id) ...                                                  *)
Save ==
  /\ at = "save"
  /\ Begin(me, Head(queue))
  /\ at' = "saving"
  /\ UNCHANGED <<flag, queue, interrupted, session, pool, solved, lost, faults>>

Saving ==
  /\ at = "saving"
  /\ Mkdir(me) \/ Create(me) \/ Write(me) \/ Rename(me)
  /\ UNCHANGED <<client, pool, solved, lost, faults>>

SaveFails ==
  /\ at = "saving" /\ Fault
  /\ Fail(me) /\ Ended
  /\ UNCHANGED <<pool, solved, lost>>

(* Mutant of Advance: the end of the selection is not looked at.           *)
AdvancePast ==
  /\ at = "saving" /\ pc[me] = "play"
  /\ at' = "ask" /\ queue' = Tail(queue)
  /\ UNCHANGED <<vars, flag, interrupted, session, pool, solved, lost, faults>>

(* ... and the next one, or back to the picker, or the end.                *)
Advance ==
  /\ at = "saving" /\ pc[me] = "play"
  /\ \/ /\ Len(queue) > 1
        /\ at' = "ask" /\ queue' = Tail(queue)
        /\ UNCHANGED <<vars, flag, interrupted, session>>
     \/ /\ Len(queue) = 1 /\ (Challenges \subseteq completed[me] \/ flag # None)
        /\ End
     \/ /\ Len(queue) = 1 /\ ~(Challenges \subseteq completed[me]) /\ flag = None
        /\ at' = "menu" /\ queue' = <<>>
        /\ UNCHANGED <<vars, flag, interrupted, session>>
  /\ UNCHANGED <<pool, solved, lost, faults>>

-----------------------------------------------------------------------------
(* SIGINT does no more than cancel ctx.                                    *)
Interrupt ==
  /\ at # "off" /\ ~interrupted /\ Fault
  /\ interrupted' = TRUE
  /\ UNCHANGED <<vars, at, flag, queue, session, pool, solved, lost>>

Kill ==
  /\ at \notin {"off", "list"} /\ Fault
  /\ End
  /\ lost' = lost \cup Left
  /\ UNCHANGED <<pool, solved>>

(* The server's sweep; a session that is in use runs out as a fault.       *)
Expire(i) ==
  /\ Pool!Leave({i})
  /\ FaultUnless(i \in lost)
  /\ lost' = lost \ {i}
  /\ UNCHANGED <<vars, client, solved>>

(* The server ends and another one starts: it knows of no session.         *)
Restart ==
  /\ Fault
  /\ Pool!Reset
  /\ session' = IF session \in Calls THEN None ELSE session
  /\ lost' = {}
  /\ UNCHANGED <<vars, at, flag, queue, interrupted, solved>>

-----------------------------------------------------------------------------
PlayerInit ==
  /\ Init
  /\ at = "off" /\ flag = None /\ queue = <<>>
  /\ interrupted = FALSE /\ session = None
  /\ Pool!Init
  /\ solved = {} /\ lost = {} /\ faults = 0

Client ==
  \/ Listed \/ Unlisted
  \/ \E r \in Calls : Ask(r)
  \/ Refused \/ GiveUp \/ Answer \/ Told \/ Leave \/ Deleted \/ DeleteLost
  \/ Save \/ Saving \/ SaveFails \/ Advance

Server == \E r \in Calls : Unbuilt(r) \/ \E i \in Ids : Built(r, i)

PlayerNext ==
  \/ \E f \in Challenges \cup {None, Aside} : Launch(f)
  \/ \E c \in Challenges : Select(<<c>>)
  \/ Select(Remaining)
  \/ Client \/ Server
  \/ Quit \/ Solve \/ Interrupt \/ Kill \/ Restart
  \/ \E i \in Ids : Expire(i)

(* The client's program goes on and the server answers and sweeps; a       *)
(* player who wants to see the end starts the client again, asks for all   *)
(* that remains time and again, and solves what is in front of them.       *)
PlayerSpec ==
  /\ PlayerInit /\ [][PlayerNext]_playerVars
  /\ WF_playerVars(Client) /\ WF_playerVars(Server)
  /\ \A i \in Ids : WF_playerVars(i \in lost /\ Expire(i))
  /\ SF_playerVars(Launch(None)) /\ SF_playerVars(Select(Remaining)) /\ WF_playerVars(Solve)

-----------------------------------------------------------------------------
Playing == {"ask", "wait", "attach", "solved", "won", "leaving", "save", "saving"}

PlayerTypeOK ==
  /\ TypeOK
  /\ at \in {"off", "list", "menu"} \cup Playing
  /\ (at \in {"off", "list"}) <=> (pc[me] = "off")
  /\ pc[me] \in Complete => at = "saving"
  /\ flag \in Challenges \cup {None, Aside}
  /\ flag = Aside => at \in {"off", "list"}
  /\ queue \in Seq(Challenges) /\ (at \in Playing <=> queue # <<>>)
  /\ interrupted \in BOOLEAN
  /\ session \in Ids \cup Calls \cup {None}
  /\ at \notin {"wait", "attach", "solved", "won", "leaving"} => session = None
  /\ preparing \subseteq Calls /\ playing \subseteq Ids
  /\ solved \subseteq Challenges /\ lost \subseteq playing
  /\ faults \in 0..MaxFaults

(* A mark in the progress file is never for a challenge that was not       *)
(* solved: not for the next one of a selection, not after an interrupt, a  *)
(* lost session or a DELETE that failed (main.go:63-77, client.go:61-72).  *)
MarkedWasSolved == path.marks \subseteq solved

(* What Play has reported as completed, and the file does not have yet.    *)
Unsaved ==
  IF at \in {"won", "save"} \/ (at = "saving" /\ pc[me] \in Complete) THEN {Head(queue)} ELSE {}

(* A completion that Play has reported gets into the file: no SIGINT, lost *)
(* DELETE, session that is over or restart of the server takes it away on  *)
(* its way there, but only a kill, or a call of Complete that fails and is *)
(* reported (main.go:67-76, client.go:64-72).                              *)
WinIsSaved ==
  [][ \A c \in Unsaved : c \in Unsaved' \/ c \in path'.marks \/ Kill \/ SaveFails ]_playerVars

(* A client that is not killed and gets its answers gives every session    *)
(* back, however it ends: solved, left, interrupted, or unable to save     *)
(* (client.go:64-67, main.go:67-76).                                       *)
NothingLeftBehind == playing \subseteq lost \cup {session}

(* A player who goes on gets to the end, over kills, refused and forgotten *)
(* sessions, restarts of the server, and a progress file that could not be *)
(* written: no state of the client, its file or the pool is a dead end     *)
(* (main.go:51-86, menu.go:50-59, store.go:16-31).                         *)
FinishesGame == <>(path.marks = Challenges)
=============================================================================
