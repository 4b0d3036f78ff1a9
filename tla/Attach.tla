-------------------------------- MODULE Attach --------------------------------
(***************************************************************************)
(* The shipped client on its terminal connection: Client.attach and the    *)
(* rest of Client.Play, internal/terminal/client.go, against the server's  *)
(* side in TerminalServer, from the dial to the deferred DELETE.           *)
(*                                                                         *)
(* The connection's goroutines are the steps InputEnds (copyInput) and     *)
(* CloseOnSignal (the one that waits for ctx).  Raw mode and the window    *)
(* size have no effect on the connection but one more kind of input.       *)
(***************************************************************************)
EXTENDS TerminalServer

VARIABLES
  client,     \* where attach and Play are
  completed,  \* what Play is going to return ...
  result,     \* ... and its error: "nil" or "error"
  ctxDone,    \* the player's SIGINT has arrived
  quit        \* history: what else ended the game: "none", only the "exit" of
              \* the shell, or something "other"

outcome == <<completed, result>>
playVars == <<client, outcome, ctxDone, quit>>
allVars == <<vars, playVars>>

-----------------------------------------------------------------------------
(* DialContext or MakeRaw may fail; either way no connection is left.      *)
Dial ==
  /\ client = "dial"
  /\ \/ /\ client' = "playing"
        /\ UNCHANGED <<hungUp, result, quit>>
     \/ /\ client' = "closed" /\ result' = "error"
        /\ hungUp' = hungUp \cup {"client"}
        /\ quit' = "other"
  /\ UNCHANGED <<serverVars, remoteVars, toClient, toServer, completed, ctxDone>>

(* The screen may be gone when output is written to it.                    *)
ReadOutput ==
  /\ client = "playing" /\ toClient # <<>> /\ Head(toClient) = "output"
  /\ toClient' = Tail(toClient)
  /\ \/ UNCHANGED <<client, result, quit>>
     \/ client' = "leaving" /\ result' = "error" /\ quit' = "other"
  /\ UNCHANGED <<serverVars, remoteVars, toServer, hungUp, completed, ctxDone>>

(* Mutant of ReadEvent: a loop that goes on after an event of any kind.    *)
ReadEventOn ==
  /\ client = "playing" /\ toClient # <<>> /\ Head(toClient) \in Events
  /\ toClient' = Tail(toClient)
  /\ completed' = (Head(toClient) = "complete")
  /\ result' = IF Head(toClient) = "error" THEN "error" ELSE result
  /\ UNCHANGED <<serverVars, remoteVars, toServer, hungUp, client, ctxDone, quit>>

ReadEvent ==
  /\ client = "playing" /\ toClient # <<>> /\ Head(toClient) \in Events
  /\ toClient' = Tail(toClient)
  /\ completed' = (Head(toClient) = "complete")
  /\ result' = IF Head(toClient) = "error" THEN "error" ELSE result
  /\ client' = IF Head(toClient) = "progress" THEN "playing" ELSE "leaving"
  /\ UNCHANGED <<serverVars, remoteVars, toServer, hungUp, ctxDone, quit>>

(* Mutant of ReadFails: the client takes up the lost connection again.     *)
ReadFailsReconnects ==
  /\ client = "playing"
  /\ \/ "client" \in hungUp
     \/ "server" \in hungUp /\ toClient = <<>>
  /\ hungUp' = {}
  /\ UNCHANGED <<serverVars, remoteVars, toClient, toServer, playVars>>

(* No more frames.  The server never sends a close frame, so this is no    *)
(* CloseNormalClosure and counts as an error unless ctx is done.  What was *)
(* buffered when the client itself closed may or may not be read first.    *)
ReadFails ==
  /\ client = "playing"
  /\ \/ "client" \in hungUp
     \/ "server" \in hungUp /\ toClient = <<>>
  /\ result' = IF ctxDone THEN result ELSE "error"
  /\ client' = "leaving"
  /\ UNCHANGED <<vars, completed, ctxDone, quit>>

(* Keys, and the window's size.                                            *)
SendInput ==
  /\ client = "playing"
  /\ ClientSends("input")
  /\ UNCHANGED playVars

(* copyInput fails, on stdin or on the connection.                         *)
InputEnds ==
  /\ client = "playing" /\ ~ctxDone /\ "client" \notin hungUp
  /\ hungUp' = hungUp \cup {"client"}
  /\ quit' = "other"
  /\ UNCHANGED <<serverVars, remoteVars, toClient, toServer, client, outcome, ctxDone>>

Signal ==
  /\ client \in {"dial", "playing"} /\ ~ctxDone
  /\ ctxDone' = TRUE
  /\ quit' = "other"
  /\ UNCHANGED <<vars, client, outcome>>

CloseOnSignal ==
  /\ client = "playing" /\ ctxDone /\ "client" \notin hungUp
  /\ hungUp' = hungUp \cup {"client"}
  /\ UNCHANGED <<serverVars, remoteVars, toClient, toServer, playVars>>

Leave ==
  /\ client = "leaving"
  /\ hungUp' = hungUp \cup {"client"}
  /\ client' = "closed"
  /\ UNCHANGED <<serverVars, remoteVars, toClient, toServer, outcome, ctxDone, quit>>

(* Play's deferred DELETE, not bound to ctx; its error is dropped.         *)
Delete ==
  /\ client = "closed"
  /\ client' = "left"
  /\ registered' \in {registered, FALSE}
  /\ UNCHANGED <<serverVars, remote, solved, socketVars, outcome, ctxDone, quit>>

-----------------------------------------------------------------------------
PlayInit ==
  /\ Init
  /\ client = "dial"
  /\ completed = FALSE /\ result = "nil" /\ ctxDone = FALSE
  /\ quit = "none"

Play ==
  \/ Dial \/ ReadOutput \/ ReadEvent \/ ReadFails \/ SendInput \/ InputEnds \/ Signal
  \/ CloseOnSignal \/ Leave \/ Delete

(* What happens elsewhere, noted in quit.                                  *)
PlayWorld ==
  /\ UNCHANGED <<client, outcome, ctxDone>>
  /\ \/ ShellEnds /\ quit' = IF quit = "none" THEN "exit" ELSE quit
     \/ Lapse /\ quit' = "other"
     \/ Solve /\ UNCHANGED quit

PlayNext ==
  \/ Play
  \/ Server /\ UNCHANGED playVars
  \/ PlayWorld

PlaySpec == PlayInit /\ [][PlayNext]_allVars

(* The client's loop and its goroutines go on, as the server's do.  Of the *)
(* server's strong fairness this needs select to take an error some time,  *)
(* and an event to get its turn at the socket.  A grade of what is solved, *)
(* made again and again, finds kubectl answering some time.                *)
ClientSteps == Dial \/ ReadOutput \/ ReadEvent \/ ReadFails \/ CloseOnSignal \/ Leave \/ Delete

PlayFairness ==
  /\ WF_allVars(Handler /\ UNCHANGED playVars)
  /\ WF_allVars(Tick /\ UNCHANGED playVars)
  /\ SF_allVars(SelectError /\ UNCHANGED playVars)
  /\ SF_allVars(Report /\ UNCHANGED playVars)
  /\ SF_allVars(Grade /\ news' = "complete" /\ UNCHANGED playVars)
  /\ WF_allVars((WriteText \/ Flush \/ ReadEnd \/ OutFails) /\ UNCHANGED playVars)
  /\ WF_allVars(CopyClient /\ UNCHANGED playVars)
  /\ WF_allVars(ClientSteps)

PlayFairSpec == PlaySpec /\ PlayFairness

-----------------------------------------------------------------------------
(* Play never reports a completion of a session that was not solved, and   *)
(* never together with an error: main stores what it reports               *)
(* (client.go:142-160, main.go:67-76).                                     *)
CompletedIsTrue == completed => solved /\ result = "nil"

(* The shipped client is one of those that the terminal endpoint is        *)
(* checked against: it sends, reads and closes as any client may, in any   *)
(* order of its goroutines, and its DELETE is one of the ways in which a   *)
(* session ends (client.go:61-161).                                        *)
IsAnyClient == Spec

(* Who solves the challenge at the shell is told, with no `check' typed,   *)
(* and the game ends completed, unless something else ended it first: the  *)
(* ticker's check, its event and the client's loop (terminal.go:98-114,    *)
(* client.go:142-153).                                                     *)
SolvedIsTold == solved /\ remote = "running" ~> completed \/ quit # "none"

(* Nothing but the player ends a game that is not won: as long as the      *)
(* shell, the session and the client's own ends are there, neither a check *)
(* nor an error of the goroutines nor a frame closes a terminal that was   *)
(* opened (terminal.go:86-117, client.go:122-154).                         *)
EndsForAReason ==
  client \in {"leaving", "closed", "left"} /\ quit = "none" => completed \/ out = "off"

(* When one end is finished both come to an end, goroutines included, and  *)
(* whichever frames are under way (client.go:155-161, terminal.go:86-104). *)
BothEnd ==
  client = "left" \/ handler = "done"
    ~> client = "left" /\ handler = "done" /\ out \in {"off", "done"} /\ in \in {"off", "done"}

(* `exit', which the banner offers as a way to end the game                *)
(* (client.go:71), is no failure of the client.                            *)
ExitIsNoFailure == quit = "exit" /\ registered => result = "nil"
=============================================================================
