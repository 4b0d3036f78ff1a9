---------------------------- MODULE TerminalServer ----------------------------
(***************************************************************************)
(* One terminal connection on the server, internal/server/terminal.go: the *)
(* handler's select loop, the goroutines copyTerminal and copyClient, the  *)
(* channels between them, the WebSocket and the PTY.  TerminalOutput says  *)
(* how a check marker is found in the bytes; here it arrives as one read.  *)
(*                                                                         *)
(* A frame is written under socketWriter.mu, so it is one step.  The       *)
(* socket takes SocketBuf frames; then a writer blocks, mutex in hand, and *)
(* with it the other one, until the client reads or one side closes.  The  *)
(* handler's ctx is never done before it returns (the connection has been  *)
(* hijacked), so that branch of its select is no action.                   *)
(***************************************************************************)
EXTENDS Naturals, Sequences

CONSTANTS
  SocketBuf,  \* bound: frames on their way to the client
  InputBuf    \* bound: messages on their way to the server

ASSUME SocketBufAssumption == SocketBuf \in Nat \ {0}
ASSUME InputBufAssumption == InputBuf \in Nat

VARIABLES
  handler,    \* where the handler is
  asked,      \* reportProgress of the check it is running
  news,       \* the event it is about to write
  out,        \* where copyTerminal is
  in,         \* where copyClient is
  errors,     \* elements in the channel errors
  checks,     \* elements in the channel checks
  tick,       \* the ticker's channel is full
  remote,     \* the PTY: "running", or "ended" for its readers and writers
  registered, \* the manager has the session, and it has not expired
  solved,     \* the challenge's objective is met
  toClient, toServer,  \* frames under way
  hungUp,     \* the ends that have closed the socket
  owed        \* history: a check marker came and no check has started since

loopVars == <<handler, asked, news, tick>>
copyVars == <<out, in>>
channels == <<errors, checks, owed>>
serverVars == <<loopVars, copyVars, channels>>
remoteVars == <<remote, registered, solved>>
socketVars == <<toClient, toServer, hungUp>>
vars == <<serverVars, remoteVars, socketVars>>

(* Mutant of ErrorsCap: room for one of the two goroutines.                *)
ErrorsCapOne == 1

ErrorsCap == 2
ChecksCap == 1

Events == {"error", "complete", "progress"}

(* A message for the PTY, or one that is not understood; and one that the  *)
(* WebSocket refuses: over the read limit, broken, or a close frame.       *)
Inputs == {"input", "bad"}

Running == {"select", "check", "grade", "report"}
Alive == hungUp = {}

-----------------------------------------------------------------------------
(***************************************************************************)
(* The handler                                                             *)
(***************************************************************************)

(* After Upgrade: OpenTerminal authorizes once more, and may fail.         *)
Open ==
  /\ handler = "open"
  /\ \/ /\ registered
        /\ handler' = "select" /\ remote' = "running"
        /\ out' = "read" /\ in' = "read"
        /\ UNCHANGED news
     \/ /\ handler' = "report" /\ news' = "error"
        /\ UNCHANGED <<copyVars, remote>>
  /\ UNCHANGED <<asked, tick, channels, registered, solved, socketVars>>

Tick ==
  /\ handler \in Running /\ ~tick
  /\ tick' = TRUE
  /\ UNCHANGED <<handler, asked, news, copyVars, channels, remoteVars, socketVars>>

SelectError ==
  /\ handler = "select" /\ errors > 0
  /\ errors' = errors - 1
  /\ handler' = "closing"
  /\ UNCHANGED <<asked, news, tick, copyVars, checks, owed, remoteVars, socketVars>>

SelectCheck ==
  /\ handler = "select" /\ checks > 0
  /\ checks' = checks - 1
  /\ owed' = FALSE
  /\ asked' = TRUE
  /\ handler' = "check"
  /\ UNCHANGED <<news, tick, copyVars, errors, remoteVars, socketVars>>

SelectTick ==
  /\ handler = "select" /\ tick
  /\ tick' = FALSE
  /\ asked' = FALSE
  /\ handler' = "check"
  /\ UNCHANGED <<news, copyVars, channels, remoteVars, socketVars>>

(* Manager.Check authorizes first ...                                      *)
Authorize ==
  /\ handler = "check"
  /\ handler' = IF registered THEN "grade" ELSE "report"
  /\ news' = IF registered THEN news ELSE "error"
  /\ asked' = (asked /\ registered)
  /\ UNCHANGED <<tick, copyVars, channels, remoteVars, socketVars>>

(* Mutants of Verdicts: the ticker's checks look at nothing; a session     *)
(* that is gone was played to its end.                                     *)
VerdictsWhenAsked == IF solved /\ asked THEN BOOLEAN ELSE {FALSE}
VerdictsOfGone == IF solved \/ ~registered THEN BOOLEAN ELSE {FALSE}

(* ... and grades.  A probe fails as well when kubectl does, or when its   *)
(* namespace is being deleted.                                             *)
Verdicts == IF solved THEN BOOLEAN ELSE {FALSE}

(* Mutant of Grade: an event goes out whatever the check was for.          *)
GradeReports ==
  /\ handler = "grade"
  /\ \E complete \in Verdicts :
       news' = IF complete THEN "complete" ELSE IF asked THEN "progress" ELSE "none"
  /\ handler' = "report"
  /\ asked' = FALSE
  /\ UNCHANGED <<tick, copyVars, channels, remoteVars, socketVars>>

Grade ==
  /\ handler = "grade"
  /\ \E complete \in Verdicts :
       /\ news' = IF complete THEN "complete" ELSE IF asked THEN "progress" ELSE "none"
       /\ handler' = IF complete \/ asked THEN "report" ELSE "select"
  /\ asked' = FALSE
  /\ UNCHANGED <<tick, copyVars, channels, remoteVars, socketVars>>

(* A frame goes out when there is room; on a closed socket the write fails *)
(* at once.                                                                *)
Send(frame) ==
  IF Alive THEN /\ Len(toClient) < SocketBuf
                /\ toClient' = Append(toClient, frame)
           ELSE UNCHANGED toClient

(* Mutant of Report: an error is reported and the loop goes on.            *)
ReportAndStay ==
  /\ handler = "report"
  /\ Send(news)
  /\ news' = "none"
  /\ handler' = IF news = "complete" THEN "closing" ELSE "select"
  /\ UNCHANGED <<asked, tick, copyVars, channels, remoteVars, toServer, hungUp>>

(* Mutant of Report: check returns true whatever it reported.              *)
ReportAndEnd ==
  /\ handler = "report"
  /\ Send(news)
  /\ news' = "none"
  /\ handler' = "closing"
  /\ UNCHANGED <<asked, tick, copyVars, channels, remoteVars, toServer, hungUp>>

(* The event; its write error is dropped.  Anything but progress ends the  *)
(* loop.                                                                   *)
Report ==
  /\ handler = "report"
  /\ Send(news)
  /\ news' = "none"
  /\ handler' = IF news = "progress" THEN "select" ELSE "closing"
  /\ UNCHANGED <<asked, tick, copyVars, channels, remoteVars, toServer, hungUp>>

(* Mutant of CloseRemote: the terminal is not closed.                      *)
CloseRemoteNot ==
  /\ handler = "closing"
  /\ handler' = "closed"
  /\ UNCHANGED <<asked, news, tick, copyVars, channels, remoteVars, socketVars>>

(* The deferred calls: first the PTY is closed and its process killed ...  *)
CloseRemote ==
  /\ handler = "closing"
  /\ remote' = "ended"
  /\ handler' = "closed"
  /\ UNCHANGED <<asked, news, tick, copyVars, channels, registered, solved, socketVars>>

(* ... then the connection, without a close frame.                         *)
CloseConnection ==
  /\ handler = "closed"
  /\ hungUp' = hungUp \cup {"server"}
  /\ handler' = "done"
  /\ UNCHANGED <<asked, news, tick, copyVars, channels, remoteVars, toClient, toServer>>

-----------------------------------------------------------------------------
(***************************************************************************)
(* copyTerminal                                                            *)
(***************************************************************************)

ReadText ==
  /\ out = "read" /\ remote = "running"
  /\ out' = "text"
  /\ UNCHANGED <<loopVars, in, channels, remoteVars, socketVars>>

(* Mutant of ReadMark: a channel without a buffer.                         *)
ReadMarkUnbuffered ==
  /\ out = "read" /\ remote = "running"
  /\ checks' = IF handler = "select" /\ checks < ChecksCap THEN checks + 1 ELSE checks
  /\ owed' = TRUE
  /\ UNCHANGED <<loopVars, copyVars, errors, remoteVars, socketVars>>

(* A marker: a check is requested unless one is waiting already.           *)
ReadMark ==
  /\ out = "read" /\ remote = "running"
  /\ checks' = IF checks < ChecksCap THEN checks + 1 ELSE checks
  /\ owed' = TRUE
  /\ UNCHANGED <<loopVars, copyVars, errors, remoteVars, socketVars>>

(* What was kept back as the possible beginning of a marker is written     *)
(* before the error is sent.                                               *)
ReadEnd ==
  /\ out = "read" /\ remote = "ended"
  /\ out' \in {"flush", "fail"}
  /\ UNCHANGED <<loopVars, in, channels, remoteVars, socketVars>>

Flush ==
  /\ out = "flush"
  /\ Send("output")
  /\ out' = "fail"
  /\ UNCHANGED <<loopVars, in, channels, remoteVars, toServer, hungUp>>

WriteText ==
  /\ out = "text"
  /\ Send("output")
  /\ out' = IF Alive THEN "read" ELSE "fail"
  /\ UNCHANGED <<loopVars, in, channels, remoteVars, toServer, hungUp>>

(* errors <- err blocks when the channel is full.                          *)
OutFails ==
  /\ out = "fail" /\ errors < ErrorsCap
  /\ errors' = errors + 1
  /\ out' = "done"
  /\ UNCHANGED <<loopVars, in, checks, owed, remoteVars, socketVars>>

-----------------------------------------------------------------------------
(***************************************************************************)
(* copyClient                                                              *)
(***************************************************************************)

(* Keys and window sizes go to the PTY, which may refuse them once it has  *)
(* ended; a message that is not understood is skipped all the same.        *)
ReadInput ==
  /\ in = "read" /\ "server" \notin hungUp
  /\ toServer # <<>> /\ Head(toServer) # "bad"
  /\ toServer' = Tail(toServer)
  /\ in' \in IF remote = "ended" THEN {"read", "fail"} ELSE {"read"}
  /\ UNCHANGED <<loopVars, out, channels, remoteVars, toClient, hungUp>>

(* ReadMessage fails although the client is there.                         *)
ReadRefused ==
  /\ in = "read" /\ "server" \notin hungUp
  /\ toServer # <<>> /\ Head(toServer) = "bad"
  /\ toServer' = Tail(toServer)
  /\ in' = "fail"
  /\ UNCHANGED <<loopVars, out, channels, remoteVars, toClient, hungUp>>

ReadClosed ==
  /\ in = "read"
  /\ \/ "server" \in hungUp
     \/ "client" \in hungUp /\ toServer = <<>>
  /\ in' = "fail"
  /\ UNCHANGED <<loopVars, out, channels, remoteVars, socketVars>>

InFails ==
  /\ in = "fail" /\ errors < ErrorsCap
  /\ errors' = errors + 1
  /\ in' = "done"
  /\ UNCHANGED <<loopVars, out, checks, owed, remoteVars, socketVars>>

-----------------------------------------------------------------------------
(***************************************************************************)
(* The toolbox, the session and a client of any kind                       *)
(***************************************************************************)

(* The shell exits, or kubectl exec loses it.                              *)
ShellEnds ==
  /\ handler \in Running /\ remote = "running"
  /\ remote' = "ended"
  /\ UNCHANGED <<serverVars, registered, solved, socketVars>>

(* The player meets the objective, and leaves it so.                       *)
Solve ==
  /\ ~solved
  /\ solved' = TRUE
  /\ UNCHANGED <<serverVars, remote, registered, socketVars>>

(* The session expires, or is deleted.                                     *)
Lapse ==
  /\ registered
  /\ registered' = FALSE
  /\ UNCHANGED <<serverVars, remote, solved, socketVars>>

ClientSends(m) ==
  /\ Alive /\ Len(toServer) < InputBuf
  /\ toServer' = Append(toServer, m)
  /\ UNCHANGED <<serverVars, remoteVars, toClient, hungUp>>

ClientReads ==
  /\ toClient # <<>>
  /\ toClient' = Tail(toClient)
  /\ UNCHANGED <<serverVars, remoteVars, toServer, hungUp>>

ClientLeaves ==
  /\ "client" \notin hungUp
  /\ hungUp' = hungUp \cup {"client"}
  /\ UNCHANGED <<serverVars, remoteVars, toClient, toServer>>

-----------------------------------------------------------------------------
Init ==
  /\ handler = "open" /\ asked = FALSE /\ news = "none"
  /\ out = "off" /\ in = "off"
  /\ errors = 0 /\ checks = 0 /\ tick = FALSE /\ owed = FALSE
  /\ remote = "ended"
  /\ registered = TRUE /\ solved = FALSE
  /\ toClient = <<>> /\ toServer = <<>>
  /\ hungUp = {}

Handler ==
  \/ Open \/ SelectError \/ SelectCheck \/ SelectTick \/ Authorize \/ Grade \/ Report
  \/ CloseRemote \/ CloseConnection

CopyTerminal == ReadText \/ ReadMark \/ ReadEnd \/ WriteText \/ Flush \/ OutFails
CopyClient == ReadInput \/ ReadRefused \/ ReadClosed \/ InFails
Server == Handler \/ Tick \/ CopyTerminal \/ CopyClient

World == ShellEnds \/ Solve \/ Lapse

AnyClient == ClientReads \/ ClientLeaves \/ \E m \in Inputs : ClientSends(m)

Next == Server \/ World \/ AnyClient

Spec == Init /\ [][Next]_vars

(* select picks at random among its ready cases, so that one that is ready *)
(* again and again is taken: strong fairness for each.  So is the turn at  *)
(* socketWriter.mu, since sync.Mutex does not starve a waiter.  Goroutines *)
(* and the ticker go on.  Nothing obliges the shell to write or to exit.   *)
ServerFairness ==
  /\ WF_vars(Handler)
  /\ WF_vars(Tick)
  /\ SF_vars(SelectError) /\ SF_vars(SelectCheck) /\ SF_vars(SelectTick)
  /\ SF_vars(Report) /\ SF_vars(WriteText \/ Flush)
  /\ WF_vars(ReadEnd) /\ WF_vars(OutFails)
  /\ WF_vars(CopyClient)

(* The client keeps reading for as long as it has not closed.              *)
FairSpec == Spec /\ ServerFairness /\ WF_vars("client" \notin hungUp /\ ClientReads)

-----------------------------------------------------------------------------
TypeOK ==
  /\ handler \in Running \cup {"open", "closing", "closed", "done"}
  /\ asked \in BOOLEAN /\ tick \in BOOLEAN /\ owed \in BOOLEAN
  /\ news \in Events \cup {"none"}
  /\ out \in {"off", "read", "text", "flush", "fail", "done"}
  /\ in \in {"off", "read", "fail", "done"}
  /\ errors \in 0..ErrorsCap
  /\ checks \in 0..ChecksCap
  /\ remote \in {"running", "ended"}
  /\ registered \in BOOLEAN /\ solved \in BOOLEAN
  /\ toClient \in Seq(Events \cup {"output"}) /\ Len(toClient) <= SocketBuf
  /\ toServer \in Seq(Inputs) /\ Len(toServer) <= InputBuf
  /\ hungUp \subseteq {"server", "client"}

(* Neither goroutine ever waits for room for its error, whichever of them  *)
(* fails first and whether the handler still takes errors (terminal.go:81, *)
(* 125-136, 190, 199, 207).                                                *)
ErrorsHaveRoom == out = "fail" \/ in = "fail" => errors < ErrorsCap

(* A `check' of the player is never swallowed: while the loop runs, after  *)
(* the last marker a check either starts or waits in the channel, however  *)
(* markers, ticks and a running check interleave (terminal.go:159-162,     *)
(* 94-101).                                                                *)
MarkIsKept == owed /\ handler \in Running => checks > 0

(* ... and one that asks for a report does start, unless the loop ends     *)
(* (terminal.go:88-103).                                                   *)
MarkIsAnswered == owed ~> ~owed \/ handler = "done"

(* No goroutine outlives the connection: each can deliver its error even   *)
(* though the handler that reads them has returned, for one of the other's *)
(* or a verdict (terminal.go:81-84, 125-136, 190, 199, 207).               *)
NoStrayGoroutine ==
  handler = "done" ~> out \in {"off", "done"} /\ in \in {"off", "done"}

(* ... and once it has returned none of them waits for anything: the PTY   *)
(* has no more to read, the socket none to write to or to read, and there  *)
(* is room for an error at any time (terminal.go:60, 79-84, 121-136,       *)
(* 186-208).                                                               *)
NobodyWaits ==
  /\ ErrorsHaveRoom
  /\ handler = "done" =>
       /\ out = "read" => remote = "ended"
       /\ out \in {"text", "flush"} => ~Alive
       /\ in = "read" => "server" \in hungUp

(* The handler returns when either side is gone, and when the session is,  *)
(* provided the client reads (terminal.go:86-103).                         *)
TerminalEnds ==
  "client" \in hungUp \/ ~registered \/ (handler \in Running /\ remote = "ended")
    ~> handler = "done"
=============================================================================
