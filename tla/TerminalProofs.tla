---------------------------- MODULE TerminalProofs ----------------------------
(***************************************************************************)
(* Proofs about a terminal connection, for sockets of every size: what the *)
(* server's goroutines owe each other with any client, that the shipped    *)
(* client is one, that it reports no completion that is not true, and that *)
(* a game ends for a reason.                                               *)
(***************************************************************************)
EXTENDS Attach, TLAPS

(* The event is there from the verdict to its frame.                       *)
HandlerOK ==
  /\ handler \in Running \cup {"open", "closing", "closed", "done"}
  /\ handler = "open" => out = "off" /\ in = "off"
  /\ news \in Events \cup {"none"}
  /\ handler = "report" => news \in Events

SocketOK ==
  /\ toClient \in Seq(Events \cup {"output"}) /\ Len(toClient) <= SocketBuf
  /\ toServer \in Seq(Inputs) /\ Len(toServer) <= InputBuf
  /\ hungUp \subseteq {"server", "client"}

(* Each goroutine delivers one error, and it is its last step.             *)
ErrorsOK ==
  /\ out \in {"off", "read", "text", "flush", "fail", "done"}
  /\ in \in {"off", "read", "fail", "done"}
  /\ errors \in Nat
  /\ errors <= (IF out = "done" THEN 1 ELSE 0) + (IF in = "done" THEN 1 ELSE 0)

MarksOK == checks \in 0..ChecksCap /\ (owed => checks > 0)

FlagsOK ==
  /\ asked \in BOOLEAN /\ tick \in BOOLEAN /\ owed \in BOOLEAN
  /\ registered \in BOOLEAN /\ solved \in BOOLEAN
  /\ remote \in {"running", "ended"}

(* The inductive invariant.  The channel has room for both goroutines      *)
(* since neither uses it twice; a marker that finds `checks' full finds a  *)
(* check waiting that will see what the player did before it.              *)
TerminalInv == HandlerOK /\ SocketOK /\ ErrorsOK /\ MarksOK /\ FlagsOK

-----------------------------------------------------------------------------
(* A frame that is sent is an event or output, and finds room.             *)
LEMMA SendKeeps ==
  ASSUME SocketOK, NEW frame \in Events \cup {"output"}, Send(frame),
         UNCHANGED <<toServer, hungUp>>
  PROVE  SocketOK'
<1>1. CASE Alive
  <2>1. /\ toClient \in Seq(Events \cup {"output"}) /\ Len(toClient) < SocketBuf
        /\ toClient' = Append(toClient, frame)
    BY <1>1 DEF Send, SocketOK
  <2>2. toClient' \in Seq(Events \cup {"output"})
    BY <2>1
  <2>3. Len(toClient') = Len(toClient) + 1 /\ Len(toClient) \in Nat
    BY <2>1
  <2>4. Len(toClient') <= SocketBuf
    BY <2>1, <2>3, SocketBufAssumption
  <2> QED BY <2>2, <2>4 DEF SocketOK
<1>2. CASE ~Alive
  BY <1>2 DEF Send, SocketOK
<1> QED BY <1>1, <1>2

(* A frame that is taken leaves the ones behind it.                        *)
LEMMA TailKeeps ==
  ASSUME NEW S, NEW s \in Seq(S), s # <<>>
  PROVE  /\ Tail(s) \in Seq(S) /\ Head(s) \in S
         /\ Len(Tail(s)) = Len(s) - 1 /\ Len(s) \in Nat
         /\ \A i \in 1..Len(Tail(s)) : Tail(s)[i] = s[i + 1]
OBVIOUS

(* The first state.                                                        *)
LEMMA TerminalInit == Init => TerminalInv
<1> SUFFICES ASSUME Init PROVE TerminalInv
  OBVIOUS
<1>1. SocketOK
  <2>1. toClient \in Seq(Events \cup {"output"}) /\ toServer \in Seq(Inputs)
    BY DEF Init
  <2>2. Len(toClient) = 0 /\ Len(toServer) = 0
    BY DEF Init
  <2> QED BY <2>1, <2>2, SocketBufAssumption, InputBufAssumption DEF Init, SocketOK
<1>2. HandlerOK
  BY DEF Init, HandlerOK
<1>3. ErrorsOK
  BY DEF Init, ErrorsOK
<1>4. MarksOK
  BY DEF Init, MarksOK, ChecksCap
<1>5. FlagsOK
  BY DEF Init, FlagsOK
<1> QED BY <1>1, <1>2, <1>3, <1>4, <1>5 DEF TerminalInv

(* The flags, through every step.                                          *)
LEMMA FlagsStep ==
  ASSUME TerminalInv, Next
  PROVE  FlagsOK'
<1>a. FlagsOK
  BY DEF TerminalInv
<1>1. CASE Handler \/ Tick
  BY <1>a, <1>1 DEF FlagsOK, Handler, Open, Tick, SelectError, SelectCheck, SelectTick, Authorize,
     Grade, Report, CloseRemote, CloseConnection, channels, remoteVars
<1>2. CASE CopyTerminal \/ CopyClient
  BY <1>a, <1>2 DEF FlagsOK, CopyTerminal, CopyClient, ReadText, ReadMark, ReadEnd, WriteText, Flush,
     OutFails, ReadInput, ReadRefused, ReadClosed, InFails, loopVars, channels, remoteVars
<1>3. CASE World
  BY <1>a, <1>3 DEF FlagsOK, World, ShellEnds, Solve, Lapse, serverVars, loopVars, channels
<1>4. CASE AnyClient
  BY <1>a, <1>4 DEF FlagsOK, AnyClient, ClientReads, ClientLeaves, ClientSends, serverVars,
     loopVars, channels, remoteVars
<1> QED BY <1>1, <1>2, <1>3, <1>4 DEF Next, Server

(* The errors, through every step.                                         *)
LEMMA ErrorsStep ==
  ASSUME TerminalInv, Next
  PROVE  ErrorsOK'
<1>a. ErrorsOK
  BY DEF TerminalInv
<1>b. ASSUME UNCHANGED <<out, in, errors>> PROVE ErrorsOK'
  BY <1>a, <1>b DEF ErrorsOK
<1>1. CASE Open
  BY <1>a, <1>1 DEF Open, TerminalInv, HandlerOK, ErrorsOK, copyVars, channels
<1>2. CASE SelectError
  BY <1>a, <1>2 DEF SelectError, ErrorsOK, copyVars
<1>3. CASE ReadText \/ ReadEnd
  BY <1>a, <1>3 DEF ReadText, ReadEnd, ErrorsOK, channels
<1>4. CASE WriteText \/ Flush
  BY <1>a, <1>4 DEF WriteText, Flush, ErrorsOK, channels
<1>5. CASE OutFails
  BY <1>a, <1>5 DEF OutFails, ErrorsOK
<1>6. CASE ReadInput \/ ReadRefused \/ ReadClosed
  BY <1>a, <1>6 DEF ReadInput, ReadRefused, ReadClosed, ErrorsOK, channels
<1>7. CASE InFails
  BY <1>a, <1>7 DEF InFails, ErrorsOK
<1>8. CASE \/ Tick \/ SelectCheck \/ SelectTick \/ Authorize \/ Grade \/ Report
           \/ CloseRemote \/ CloseConnection \/ ReadMark
  BY <1>b, <1>8 DEF Tick, SelectCheck, SelectTick, Authorize, Grade, Report, CloseRemote,
     CloseConnection, ReadMark, copyVars, channels
<1>9. CASE World \/ AnyClient
  BY <1>b, <1>9 DEF World, ShellEnds, Solve, Lapse, AnyClient, ClientReads, ClientLeaves, ClientSends,
     serverVars, copyVars, channels
<1> QED BY <1>1, <1>2, <1>3, <1>4, <1>5, <1>6, <1>7, <1>8, <1>9
        DEF Next, Server, Handler, CopyTerminal, CopyClient

(* The markers, through every step.                                        *)
LEMMA MarksStep ==
  ASSUME TerminalInv, Next
  PROVE  MarksOK'
<1>a. MarksOK
  BY DEF TerminalInv
<1>b. ASSUME UNCHANGED <<checks, owed>> PROVE MarksOK'
  BY <1>a, <1>b DEF MarksOK
<1>1. CASE SelectCheck
  BY <1>a, <1>1 DEF SelectCheck, MarksOK, ChecksCap
<1>2. CASE ReadMark
  BY <1>a, <1>2 DEF ReadMark, MarksOK, ChecksCap
<1>3. CASE \/ Open \/ Tick \/ SelectError \/ SelectTick \/ Authorize \/ Grade \/ Report
           \/ CloseRemote \/ CloseConnection
  BY <1>b, <1>3 DEF Open, Tick, SelectError, SelectTick, Authorize, Grade, Report, CloseRemote,
     CloseConnection, channels
<1>4. CASE \/ ReadText \/ ReadEnd \/ WriteText \/ Flush \/ OutFails \/ CopyClient
  BY <1>b, <1>4 DEF ReadText, ReadEnd, WriteText, Flush, OutFails, CopyClient, ReadInput, ReadRefused, ReadClosed,
     InFails, channels
<1>5. CASE World \/ AnyClient
  BY <1>b, <1>5 DEF World, ShellEnds, Solve, Lapse, AnyClient, ClientReads, ClientLeaves, ClientSends,
     serverVars, channels
<1> QED BY <1>1, <1>2, <1>3, <1>4, <1>5 DEF Next, Server, Handler, CopyTerminal

(* The handler, through every step.                                        *)
LEMMA HandlerStep ==
  ASSUME TerminalInv, Next
  PROVE  HandlerOK'
<1>a. HandlerOK
  BY DEF TerminalInv
<1>1. CASE Open \/ Report \/ CloseRemote \/ CloseConnection
  BY <1>a, <1>1 DEF Open, Report, CloseRemote, CloseConnection, HandlerOK, copyVars, Running, Events
<1>2. CASE Tick \/ SelectError \/ SelectCheck \/ SelectTick
  BY <1>a, <1>2 DEF Tick, SelectError, SelectCheck, SelectTick, HandlerOK, copyVars, Running
<1>3. CASE Authorize \/ Grade
  BY <1>a, <1>3 DEF Authorize, Grade, HandlerOK, copyVars, Running, Events
<1>4. CASE CopyTerminal \/ CopyClient
  BY <1>a, <1>4 DEF CopyTerminal, CopyClient, ReadText, ReadMark, ReadEnd, WriteText, Flush, OutFails,
     ReadInput, ReadRefused, ReadClosed, InFails, HandlerOK, loopVars, copyVars
<1>5. CASE World \/ AnyClient
  BY <1>a, <1>5 DEF World, ShellEnds, Solve, Lapse, AnyClient, ClientReads, ClientLeaves, ClientSends,
     HandlerOK, serverVars, loopVars, copyVars
<1> QED BY <1>1, <1>2, <1>3, <1>4, <1>5 DEF Next, Server, Handler

(* The socket, through every step.                                         *)
LEMMA SocketStep ==
  ASSUME TerminalInv, Next
  PROVE  SocketOK'
<1>a. SocketOK /\ HandlerOK
  BY DEF TerminalInv
<1>b. ASSUME UNCHANGED <<toClient, toServer>>, hungUp' \subseteq {"server", "client"} PROVE SocketOK'
  BY <1>a, <1>b DEF SocketOK
<1>1. CASE Report
  <2>1. news \in Events /\ Send(news) /\ UNCHANGED <<toServer, hungUp>>
    BY <1>a, <1>1 DEF Report, HandlerOK
  <2> QED BY <1>a, <2>1, SendKeeps
<1>2. CASE WriteText \/ Flush
  BY <1>a, <1>2, SendKeeps DEF WriteText, Flush
<1>3. CASE ReadInput \/ ReadRefused
  <2>1. Tail(toServer) \in Seq(Inputs) /\ Len(Tail(toServer)) <= InputBuf
    BY <1>a, <1>3, TailKeeps, InputBufAssumption DEF ReadInput, ReadRefused, SocketOK
  <2> QED BY <1>a, <1>3, <2>1 DEF ReadInput, ReadRefused, SocketOK
<1>4. ASSUME NEW m \in Inputs, ClientSends(m) PROVE SocketOK'
  <2>1. toServer \in Seq(Inputs) /\ Len(toServer) < InputBuf /\ toServer' = Append(toServer, m)
    BY <1>a, <1>4 DEF ClientSends, SocketOK
  <2>2. toServer' \in Seq(Inputs)
    BY <2>1
  <2>3. Len(toServer') = Len(toServer) + 1 /\ Len(toServer) \in Nat
    BY <2>1
  <2>4. Len(toServer') <= InputBuf
    BY <2>1, <2>3, InputBufAssumption
  <2> QED BY <1>a, <1>4, <2>2, <2>4 DEF ClientSends, SocketOK
<1>5. CASE ClientReads
  <2>1. Tail(toClient) \in Seq(Events \cup {"output"}) /\ Len(Tail(toClient)) <= SocketBuf
    BY <1>a, <1>5, TailKeeps, SocketBufAssumption DEF ClientReads, SocketOK
  <2> QED BY <1>a, <1>5, <2>1 DEF ClientReads, SocketOK
<1>6. CASE CloseConnection \/ ClientLeaves
  BY <1>a, <1>b, <1>6 DEF CloseConnection, ClientLeaves, SocketOK
<1>7. CASE \/ Open \/ Tick \/ SelectError \/ SelectCheck \/ SelectTick \/ Authorize \/ Grade
           \/ CloseRemote
  BY <1>a, <1>b, <1>7 DEF Open, Tick, SelectError, SelectCheck, SelectTick, Authorize, Grade,
     CloseRemote, socketVars, SocketOK
<1>8. CASE \/ ReadText \/ ReadMark \/ ReadEnd \/ OutFails \/ ReadClosed \/ InFails \/ World
  BY <1>a, <1>b, <1>8 DEF ReadText, ReadMark, ReadEnd, OutFails, ReadClosed, InFails, World,
     ShellEnds, Solve, Lapse, socketVars, SocketOK
<1> QED BY <1>1, <1>2, <1>3, <1>4, <1>5, <1>6, <1>7, <1>8
        DEF Next, Server, Handler, CopyTerminal, CopyClient, AnyClient

(* Every step.                                                             *)
LEMMA TerminalNext == TerminalInv /\ [Next]_vars => TerminalInv'
<1>1. TerminalInv /\ Next => TerminalInv'
  BY HandlerStep, SocketStep, ErrorsStep, MarksStep, FlagsStep DEF TerminalInv
<1>2. TerminalInv /\ UNCHANGED vars => TerminalInv'
  BY DEF vars, serverVars, loopVars, copyVars, channels, remoteVars, socketVars, TerminalInv,
         HandlerOK, SocketOK, ErrorsOK, MarksOK, FlagsOK
<1> QED BY <1>1, <1>2

(* Every state.                                                            *)
LEMMA TerminalInvHolds == Spec => []TerminalInv
BY TerminalInit, TerminalNext, PTL DEF Spec

(* Type correctness: every event that goes out is one, and every channel,  *)
(* socket and counter keeps to its bound.                                  *)
THEOREM TerminalTypeCorrect == Spec => []TypeOK
<1>1. TerminalInv => TypeOK
  BY DEF TerminalInv, HandlerOK, SocketOK, ErrorsOK, MarksOK, FlagsOK, TypeOK, ErrorsCap
<1> QED BY <1>1, TerminalInvHolds, PTL

(* Neither goroutine waits for room for its error (terminal.go:81-84).     *)
THEOREM ErrorsAlwaysHaveRoom == Spec => []ErrorsHaveRoom
<1>1. TerminalInv => ErrorsHaveRoom
  BY DEF TerminalInv, ErrorsOK, ErrorsHaveRoom, ErrorsCap
<1> QED BY <1>1, TerminalInvHolds, PTL

(* What the deferred calls have closed when the handler returns.           *)
ClosedOK ==
  /\ handler \in {"closed", "done"} => remote = "ended"
  /\ handler = "done" => "server" \in hungUp

(* Closed is closed: no step opens the terminal or the connection again.   *)
LEMMA ClosedStep == TerminalInv /\ ClosedOK /\ [Next]_vars => ClosedOK'
<1> SUFFICES ASSUME TerminalInv, ClosedOK, [Next]_vars PROVE ClosedOK'
  OBVIOUS
<1>1. CASE \/ Open \/ Tick \/ SelectError \/ SelectCheck \/ SelectTick \/ Authorize \/ Grade
           \/ Report
  BY <1>1 DEF Open, Tick, SelectError, SelectCheck, SelectTick, Authorize, Grade, Report,
     ClosedOK, Running, remoteVars, socketVars
<1>2. CASE CloseRemote \/ CloseConnection
  BY <1>2 DEF CloseRemote, CloseConnection, ClosedOK, socketVars, remoteVars
<1>3. CASE CopyTerminal \/ CopyClient
  BY <1>3 DEF CopyTerminal, CopyClient, ReadText, ReadMark, ReadEnd, WriteText, Flush, OutFails, ReadInput, ReadRefused,
     ReadClosed, InFails, ClosedOK, loopVars, remoteVars, socketVars
<1>4. CASE World \/ AnyClient
  BY <1>4 DEF World, ShellEnds, Solve, Lapse, AnyClient, ClientReads, ClientLeaves, ClientSends,
     ClosedOK, serverVars, loopVars, remoteVars, socketVars
<1>5. CASE UNCHANGED vars
  BY <1>5 DEF vars, serverVars, loopVars, remoteVars, socketVars, ClosedOK
<1> QED BY <1>1, <1>2, <1>3, <1>4, <1>5 DEF Next, Server, Handler

(* The safety side of NoStrayGoroutine: with any client, and whatever made *)
(* the handler return, no goroutine that it leaves is held up by the PTY,  *)
(* the socket or the channel (terminal.go:60, 79-84, 121-136, 186-208).    *)
THEOREM NobodyIsLeftWaiting == Spec => []NobodyWaits
<1>1. Init => ClosedOK
  BY DEF Init, ClosedOK
<1>2. TerminalInv /\ ClosedOK => NobodyWaits
  <2>1. TerminalInv => ErrorsHaveRoom
    BY DEF TerminalInv, ErrorsOK, ErrorsHaveRoom, ErrorsCap
  <2> QED BY <2>1 DEF ClosedOK, NobodyWaits, ErrorsHaveRoom, Alive
<1> QED BY <1>1, <1>2, ClosedStep, TerminalInvHolds, PTL DEF Spec

(* No `check' of the player is swallowed (terminal.go:94-101, 159-162).    *)
THEOREM MarksAreKept == Spec => []MarkIsKept
<1>1. TerminalInv => MarkIsKept
  BY DEF TerminalInv, MarksOK, MarkIsKept
<1> QED BY <1>1, TerminalInvHolds, PTL

-----------------------------------------------------------------------------
(***************************************************************************)
(* The shipped client                                                      *)
(***************************************************************************)

(* A step of the client is one that any client may make, or the end of the *)
(* session, or none.                                                       *)
LEMMA ClientStep ==
  ASSUME Play, registered \in BOOLEAN
  PROVE  [Next]_vars
<1>1. ASSUME hungUp' = hungUp \cup {"client"}, UNCHANGED <<serverVars, remoteVars, toClient, toServer>>
      PROVE  [Next]_vars
  <2>1. CASE "client" \in hungUp
    BY <1>1, <2>1 DEF vars, socketVars
  <2>2. CASE "client" \notin hungUp
    BY <1>1, <2>2 DEF Next, AnyClient, ClientLeaves
  <2> QED BY <2>1, <2>2
<1>2. CASE Dial
  BY <1>1, <1>2 DEF Dial, vars, socketVars
<1>3. CASE ReadOutput \/ ReadEvent
  <2>1. ClientReads
    BY <1>3 DEF ReadOutput, ReadEvent, ClientReads
  <2> QED BY <2>1 DEF Next, AnyClient
<1>4. CASE ReadFails \/ Signal
  BY <1>4 DEF ReadFails, Signal
<1>5. CASE SendInput
  BY <1>5 DEF SendInput, Next, AnyClient, Inputs
<1>6. CASE InputEnds \/ CloseOnSignal \/ Leave
  BY <1>1, <1>6 DEF InputEnds, CloseOnSignal, Leave
<1>7. CASE Delete
  <2>1. UNCHANGED <<serverVars, remote, solved, socketVars>> /\ registered' \in {registered, FALSE}
    BY <1>7 DEF Delete
  <2>2. CASE UNCHANGED registered
    BY <2>1, <2>2 DEF vars, remoteVars
  <2>3. CASE registered /\ registered' = FALSE
    <3>1. Lapse
      BY <2>1, <2>3 DEF Lapse
    <3> QED BY <3>1 DEF Next, World
  <2>4. registered' = registered \/ (registered /\ registered' = FALSE)
    BY <2>1
  <2> QED BY <2>2, <2>3, <2>4
<1> QED BY <1>2, <1>3, <1>4, <1>5, <1>6, <1>7 DEF Play

(* With the player, a step of the server is one of the terminal.           *)
LEMMA PlayStep == TerminalInv /\ [PlayNext]_allVars => [Next]_vars
<1> SUFFICES ASSUME TerminalInv, [PlayNext]_allVars PROVE [Next]_vars
  OBVIOUS
<1>1. CASE Play
  BY <1>1, ClientStep DEF TerminalInv, FlagsOK
<1>2. CASE Server
  BY <1>2 DEF Next
<1>3. CASE PlayWorld
  BY <1>3 DEF PlayWorld, Next, World
<1>4. CASE UNCHANGED allVars
  BY <1>4 DEF allVars
<1> QED BY <1>1, <1>2, <1>3, <1>4 DEF PlayNext

(* So what holds of the terminal holds with the player.                    *)
LEMMA PlayTerminal == PlaySpec => []TerminalInv
<1>1. PlayInit => TerminalInv
  BY TerminalInit DEF PlayInit
<1>2. TerminalInv /\ [PlayNext]_allVars => TerminalInv'
  BY PlayStep, TerminalNext
<1> QED BY <1>1, <1>2, PTL DEF PlaySpec

(* The shipped client is one of the clients that the terminal endpoint     *)
(* serves (client.go:61-161): what is proved for any of them holds of it.  *)
THEOREM AttachIsAnyClient == PlaySpec => IsAnyClient
<1>1. PlayInit => Init
  BY DEF PlayInit
<1> QED BY <1>1, PlayStep, PlayTerminal, PTL DEF PlaySpec, Spec, IsAnyClient

-----------------------------------------------------------------------------
(* A completion under way is true: a session that is gone is no reason to  *)
(* announce one.                                                           *)
AnnouncedOK ==
  /\ news = "complete" => solved
  /\ \A i \in 1..Len(toClient) : toClient[i] = "complete" => solved

(* While it plays, the client has seen neither a completion nor an error.  *)
OutcomeOK ==
  /\ client \in {"dial", "playing"} => ~completed /\ result = "nil"
  /\ completed => solved /\ result = "nil"

PlayInv == AnnouncedOK /\ OutcomeOK

(* Only a frame that is sent can be a new announcement.                    *)
LEMMA SendAnnounces ==
  ASSUME SocketOK, AnnouncedOK, NEW frame \in Events \cup {"output"}, Send(frame),
         frame = "complete" => solved
  PROVE  \A i \in 1..Len(toClient') : toClient'[i] = "complete" => solved
<1>1. CASE Alive
  <2>1. toClient' = Append(toClient, frame) /\ toClient \in Seq(Events \cup {"output"})
    BY <1>1 DEF Send, SocketOK
  <2>2. /\ Len(toClient') = Len(toClient) + 1 /\ Len(toClient) \in Nat
        /\ \A i \in 1..Len(toClient) : toClient'[i] = toClient[i]
        /\ toClient'[Len(toClient) + 1] = frame
    BY <2>1
  <2>3. \A i \in 1..Len(toClient') : i \in 1..Len(toClient) \/ i = Len(toClient) + 1
    BY <2>2
  <2> QED BY <2>2, <2>3 DEF AnnouncedOK
<1>2. CASE ~Alive
  BY <1>2 DEF Send, AnnouncedOK
<1> QED BY <1>1, <1>2

(* A step announces only what is solved, and takes no solution back.       *)
LEMMA AnnouncedStep ==
  ASSUME TerminalInv, AnnouncedOK, [Next]_vars
  PROVE  AnnouncedOK' /\ (solved => solved')
<1>a. SocketOK /\ HandlerOK /\ solved \in BOOLEAN
  BY DEF TerminalInv, FlagsOK
<1>b. ASSUME UNCHANGED <<news, toClient>>, solved => solved' PROVE AnnouncedOK' /\ (solved => solved')
  BY <1>b DEF AnnouncedOK
<1>c. ASSUME UNCHANGED solved, news' = "complete" => solved,
             \A i \in 1..Len(toClient') : toClient'[i] = "complete" => solved
      PROVE  AnnouncedOK' /\ (solved => solved')
  BY <1>c DEF AnnouncedOK
<1>1. CASE Report
  <2>1. news \in Events /\ Send(news) /\ UNCHANGED solved /\ news' = "none"
    BY <1>a, <1>1 DEF Report, HandlerOK, remoteVars
  <2>2. \A i \in 1..Len(toClient') : toClient'[i] = "complete" => solved
    BY <1>a, <2>1, SendAnnounces DEF AnnouncedOK
  <2> QED BY <1>c, <2>1, <2>2
<1>2. CASE WriteText \/ Flush
  <2>1. Send("output") /\ UNCHANGED <<solved, news>>
    BY <1>2 DEF WriteText, Flush, remoteVars, loopVars
  <2>2. \A i \in 1..Len(toClient') : toClient'[i] = "complete" => solved
    BY <1>a, <2>1, SendAnnounces
  <2> QED BY <1>c, <2>1, <2>2 DEF AnnouncedOK
<1>3. CASE Grade
  <2>1. news' = "complete" => solved
    BY <1>a, <1>3 DEF Grade, Verdicts
  <2> QED BY <1>3, <1>c, <2>1 DEF Grade, AnnouncedOK, remoteVars, socketVars
<1>4. CASE ClientReads
  <2>1. /\ toClient' = Tail(toClient) /\ toClient # <<>> /\ UNCHANGED <<news, solved>>
        /\ toClient \in Seq(Events \cup {"output"})
    BY <1>a, <1>4 DEF ClientReads, serverVars, loopVars, remoteVars, SocketOK
  <2>2. /\ Len(toClient') = Len(toClient) - 1 /\ Len(toClient) \in Nat
        /\ \A i \in 1..Len(toClient') : toClient'[i] = toClient[i + 1]
    BY <2>1, TailKeeps
  <2>3. \A i \in 1..Len(toClient') : i + 1 \in 1..Len(toClient)
    BY <2>2
  <2> QED BY <1>c, <2>1, <2>2, <2>3 DEF AnnouncedOK
<1>5. CASE Open
  BY <1>5, <1>c DEF Open, AnnouncedOK, socketVars
<1>6. CASE Authorize
  BY <1>6, <1>c DEF Authorize, AnnouncedOK, remoteVars, socketVars
<1>7. CASE Tick \/ SelectError \/ SelectCheck \/ SelectTick \/ CloseRemote \/ CloseConnection
  BY <1>7, <1>b DEF Tick, SelectError, SelectCheck, SelectTick, CloseRemote, CloseConnection,
     remoteVars, socketVars
<1>8. CASE ReadText \/ ReadMark \/ ReadEnd \/ OutFails \/ CopyClient
  BY <1>8, <1>b DEF ReadText, ReadMark, ReadEnd, OutFails, CopyClient, ReadInput, ReadRefused, ReadClosed,
     InFails, loopVars, remoteVars, socketVars
<1>9. CASE World
  BY <1>9, <1>b DEF World, ShellEnds, Solve, Lapse, serverVars, loopVars, socketVars
<1>10. CASE ClientLeaves \/ \E m \in Inputs : ClientSends(m)
  BY <1>10, <1>b DEF ClientLeaves, ClientSends, serverVars, loopVars, remoteVars
<1>11. CASE UNCHANGED vars
  BY <1>11, <1>b DEF vars, serverVars, loopVars, remoteVars, socketVars
<1> QED BY <1>1, <1>2, <1>3, <1>4, <1>5, <1>6, <1>7, <1>8, <1>9, <1>10, <1>11
        DEF Next, Server, Handler, CopyTerminal, AnyClient

(* A step keeps what the client knows of its outcome true.                 *)
LEMMA OutcomeStep ==
  ASSUME TerminalInv, PlayInv, [PlayNext]_allVars, solved => solved'
  PROVE  OutcomeOK'
<1>a. OutcomeOK
  BY DEF PlayInv
<1>b. ASSUME UNCHANGED outcome, client' \in {"dial", "playing"} => client \in {"dial", "playing"}
      PROVE  OutcomeOK'
  BY <1>a, <1>b DEF OutcomeOK, outcome
<1>c. ASSUME client \in {"dial", "playing"}, client' \notin {"dial", "playing"}, UNCHANGED completed
      PROVE  OutcomeOK'
  BY <1>a, <1>c DEF OutcomeOK
<1>1. CASE Dial
  <2>1. CASE client' = "playing" /\ UNCHANGED result
    BY <1>1, <1>b, <2>1 DEF Dial, outcome
  <2>2. CASE client' = "closed"
    BY <1>1, <1>c, <2>2 DEF Dial
  <2> QED BY <1>1, <2>1, <2>2 DEF Dial
<1>2. CASE ReadOutput
  <2>1. CASE UNCHANGED <<client, result>>
    BY <1>2, <1>b, <2>1 DEF ReadOutput, outcome
  <2>2. CASE client' = "leaving"
    BY <1>2, <1>c, <2>2 DEF ReadOutput
  <2> QED BY <1>2, <2>1, <2>2 DEF ReadOutput
<1>3. CASE ReadEvent
  <2>1. /\ client = "playing" /\ ~completed /\ result = "nil"
        /\ completed' = (Head(toClient) = "complete")
        /\ result' = IF Head(toClient) = "error" THEN "error" ELSE result
        /\ client' = IF Head(toClient) = "progress" THEN "playing" ELSE "leaving"
    BY <1>a, <1>3 DEF ReadEvent, OutcomeOK
  <2>2. Head(toClient) = "complete" => solved
    <3>1. toClient \in Seq(Events \cup {"output"}) /\ toClient # <<>>
      BY <1>3 DEF ReadEvent, TerminalInv, SocketOK
    <3>2. Head(toClient) = toClient[1] /\ 1 \in 1..Len(toClient)
      BY <3>1
    <3> QED BY <3>2 DEF PlayInv, AnnouncedOK
  <2>3. CASE Head(toClient) = "complete"
    BY <2>1, <2>2, <2>3 DEF OutcomeOK
  <2>4. CASE Head(toClient) # "complete"
    <3>1. ~completed' /\ (client' = "playing" => result' = "nil") /\ client' # "dial"
      BY <2>1, <2>4
    <3> QED BY <3>1 DEF OutcomeOK
  <2> QED BY <2>3, <2>4
<1>4. CASE ReadFails
  BY <1>4, <1>c DEF ReadFails
<1>5. CASE SendInput \/ InputEnds \/ Signal \/ CloseOnSignal \/ Leave \/ Delete
  BY <1>5, <1>b DEF SendInput, InputEnds, Signal, CloseOnSignal, Leave, Delete, playVars, outcome
<1>6. CASE UNCHANGED playVars \/ PlayWorld \/ UNCHANGED allVars
  BY <1>6, <1>b DEF PlayWorld, playVars, outcome, allVars
<1> QED BY <1>1, <1>2, <1>3, <1>4, <1>5, <1>6 DEF PlayNext, Play

(* Play reports a completion only of a session that was solved, and        *)
(* without an error (client.go:142-160, terminal.go:106-117).              *)
THEOREM CompletionIsTrue == PlaySpec => []CompletedIsTrue
<1>1. PlayInit => PlayInv
  <2> SUFFICES ASSUME PlayInit PROVE PlayInv
    OBVIOUS
  <2>1. AnnouncedOK
    BY DEF PlayInit, Init, AnnouncedOK
  <2>2. OutcomeOK
    BY DEF PlayInit, OutcomeOK
  <2> QED BY <2>1, <2>2 DEF PlayInv
<1>2. TerminalInv /\ PlayInv /\ [PlayNext]_allVars => PlayInv'
  <2> SUFFICES ASSUME TerminalInv, PlayInv, [PlayNext]_allVars PROVE PlayInv'
    OBVIOUS
  <2>1. AnnouncedOK' /\ (solved => solved')
    BY PlayStep, AnnouncedStep DEF PlayInv
  <2> QED BY <2>1, OutcomeStep DEF PlayInv
<1>3. PlayInv => CompletedIsTrue
  BY DEF PlayInv, OutcomeOK, CompletedIsTrue
<1> QED BY <1>1, <1>2, <1>3, PlayTerminal, PTL DEF PlaySpec

-----------------------------------------------------------------------------
(* How far a terminal is that nobody has disturbed: not yet opened, refused*)
(* when it was opened, being served, or with its completion under way.     *)
Frames == {toClient[i] : i \in 1..Len(toClient)}

Unopened == handler = "open" /\ out = "off" /\ in = "off" /\ news = "none"
            /\ toClient = <<>> /\ "server" \notin hungUp

Refused == handler # "open" /\ out = "off"

Served ==
  /\ handler \in Running /\ out \in {"read", "text"} /\ in = "read"
  /\ errors = 0 /\ remote = "running" /\ "server" \notin hungUp
  /\ news # "error" /\ "error" \notin Frames

Won ==
  /\ handler \in {"closing", "closed", "done"} /\ out # "off"
  /\ "complete" \in Frames /\ "error" \notin Frames

(* Without anything that quit records, the session and the client's end    *)
(* are there, and the terminal is at one of these points.                  *)
EndsInv ==
  quit = "none" =>
    /\ ~ctxDone
    /\ client \in {"dial", "playing"} =>
         registered /\ "client" \notin hungUp /\ (Unopened \/ Refused \/ Served \/ Won)
    /\ client \notin {"dial", "playing"} => completed \/ Refused

(* A frame more, or the first one less.                                    *)
LEMMA FramesMove ==
  ASSUME SocketOK
  PROVE  /\ UNCHANGED toClient => Frames' = Frames
         /\ \A frame \in Events \cup {"output"} :
              Send(frame) => Frames' = IF Alive THEN Frames \cup {frame} ELSE Frames
         /\ toClient # <<>> => Head(toClient) \in Frames
         /\ toClient # <<>> /\ toClient' = Tail(toClient) =>
              Frames' \subseteq Frames /\ Frames \subseteq Frames' \cup {Head(toClient)}
         /\ toClient = <<>> => Frames = {}
<1>a. toClient \in Seq(Events \cup {"output"})
  BY DEF SocketOK
<1>1. UNCHANGED toClient => Frames' = Frames
  BY DEF Frames
<1>2. ASSUME NEW frame \in Events \cup {"output"}, Send(frame)
      PROVE  Frames' = IF Alive THEN Frames \cup {frame} ELSE Frames
  <2>1. CASE Alive
    <3>1. toClient' = Append(toClient, frame)
      BY <1>2, <2>1 DEF Send
    <3>2. /\ Len(toClient') = Len(toClient) + 1 /\ Len(toClient) \in Nat
          /\ \A i \in 1..Len(toClient) : toClient'[i] = toClient[i]
          /\ toClient'[Len(toClient) + 1] = frame
      BY <1>a, <3>1
    <3>3. 1..Len(toClient') = 1..Len(toClient) \cup {Len(toClient) + 1}
      BY <3>2
    <3> QED BY <2>1, <3>2, <3>3 DEF Frames
  <2>2. CASE ~Alive
    BY <1>1, <1>2, <2>2 DEF Send
  <2> QED BY <2>1, <2>2
<1>3. ASSUME toClient # <<>>
      PROVE  Head(toClient) = toClient[1] /\ 1 \in 1..Len(toClient)
  BY <1>a, <1>3
<1>4. ASSUME toClient # <<>>, toClient' = Tail(toClient)
      PROVE  Frames' \subseteq Frames /\ Frames \subseteq Frames' \cup {Head(toClient)}
  <2>1. /\ Len(toClient') = Len(toClient) - 1 /\ Len(toClient) \in Nat
        /\ \A i \in 1..Len(toClient') : toClient'[i] = toClient[i + 1]
    BY <1>a, <1>4, TailKeeps
  <2>2. \A i \in 1..Len(toClient') : i + 1 \in 1..Len(toClient)
    BY <2>1
  <2>3. \A i \in 1..Len(toClient) : i = 1 \/ (i - 1 \in 1..Len(toClient') /\ (i - 1) + 1 = i)
    BY <2>1
  <2>4. Frames' \subseteq Frames
    BY <2>1, <2>2 DEF Frames
  <2>5. ASSUME NEW i \in 1..Len(toClient), i # 1 PROVE toClient[i] \in Frames'
    <3>1. i - 1 \in 1..Len(toClient') /\ (i - 1) + 1 = i
      BY <2>3, <2>5
    <3>2. toClient'[i - 1] = toClient[i]
      BY <2>1, <3>1
    <3> QED BY <3>1, <3>2 DEF Frames
  <2> QED BY <1>3, <1>4, <2>4, <2>5 DEF Frames
<1>5. toClient = <<>> => Frames = {}
  BY DEF Frames
<1>6. toClient # <<>> => Head(toClient) \in Frames
  BY <1>3 DEF Frames
<1> QED BY <1>1, <1>2, <1>4, <1>5, <1>6

(* The shipped client sends nothing that the server's WebSocket refuses.   *)
Polite == toServer \in Seq({"input"})

(* ... so that the message that is read next is not refused.               *)
LEMMA PoliteHead == Polite /\ toServer # <<>> => Head(toServer) = "input"
BY TailKeeps DEF Polite

(* Keys and window sizes are all that it sends.                            *)
LEMMA PoliteStep == TerminalInv /\ Polite /\ [PlayNext]_allVars => Polite'
<1> SUFFICES ASSUME TerminalInv, Polite, [PlayNext]_allVars PROVE Polite'
  OBVIOUS
<1>a. ASSUME UNCHANGED toServer PROVE Polite'
  BY <1>a DEF Polite
<1>1. CASE ReadInput \/ ReadRefused
  BY <1>1 DEF ReadInput, ReadRefused, Polite
<1>2. CASE SendInput
  BY <1>2 DEF SendInput, ClientSends, Polite
<1>3. CASE Handler \/ Tick
  BY <1>a, <1>3 DEF Handler, Open, Tick, SelectError, SelectCheck, SelectTick, Authorize, Grade,
     Report, CloseRemote, CloseConnection, socketVars
<1>4. CASE CopyTerminal \/ ReadClosed \/ InFails
  BY <1>a, <1>4 DEF CopyTerminal, ReadText, ReadMark, ReadEnd, WriteText, Flush, OutFails,
     ReadClosed, InFails, socketVars
<1>5. CASE \/ Dial \/ ReadOutput \/ ReadEvent \/ ReadFails \/ InputEnds \/ Signal
           \/ CloseOnSignal \/ Leave \/ Delete
  BY <1>a, <1>5 DEF Dial, ReadOutput, ReadEvent, ReadFails, InputEnds, Signal, CloseOnSignal,
     Leave, Delete, vars, socketVars
<1>6. CASE PlayWorld \/ UNCHANGED allVars
  BY <1>a, <1>6 DEF PlayWorld, ShellEnds, Lapse, Solve, allVars, vars, socketVars
<1> QED BY <1>1, <1>2, <1>3, <1>4, <1>5, <1>6 DEF PlayNext, Play, Server, CopyClient

(* What a step of the server makes of each of these points.                *)
LEMMA UndisturbedStep ==
  ASSUME TerminalInv, Polite, Server, registered, "client" \notin hungUp,
         Unopened \/ Refused \/ Served \/ Won
  PROVE  Unopened' \/ Refused' \/ Served' \/ Won'
<1>a. /\ HandlerOK /\ SocketOK /\ ErrorsOK /\ (news \in Events \cup {"none"})
      /\ (UNCHANGED toClient => Frames' = Frames)
  BY FramesMove DEF TerminalInv, HandlerOK
<1>1. CASE Refused
  <2>1. CASE Handler \/ Tick
    BY <1>1, <2>1 DEF Refused, Handler, Open, Tick, SelectError, SelectCheck, SelectTick, Authorize,
       Grade, Report, CloseRemote, CloseConnection, copyVars
  <2>2. CASE CopyTerminal \/ CopyClient
    BY <1>1, <2>2 DEF Refused, CopyTerminal, CopyClient, ReadText, ReadMark, ReadEnd, WriteText, Flush,
       OutFails, ReadInput, ReadRefused, ReadClosed, InFails, loopVars, copyVars
  <2> QED BY <2>1, <2>2 DEF Server
<1>2. CASE Unopened
  <2>1. Open
    BY <1>2 DEF Unopened, Server, Handler, Tick, SelectError, SelectCheck, SelectTick, Authorize,
       Grade, Report, CloseRemote, CloseConnection, CopyTerminal, CopyClient, ReadText, ReadMark,
       ReadEnd, WriteText, Flush, OutFails, ReadInput, ReadRefused, ReadClosed, InFails, Running
  <2>2. CASE out' = "off"
    BY <2>1, <2>2 DEF Open, Refused, copyVars
  <2>3. CASE out' # "off"
    <3>1. /\ handler' = "select" /\ remote' = "running" /\ out' = "read" /\ in' = "read"
          /\ news' = "none" /\ UNCHANGED <<errors, hungUp, toClient>>
      BY <1>2, <2>1, <2>3 DEF Open, Unopened, copyVars, channels, socketVars
    <3>2. errors = 0
      BY <1>a, <1>2 DEF ErrorsOK, Unopened
    <3>3. Frames' = {}
      BY <1>2, <3>1 DEF Frames, Unopened
    <3> QED BY <1>2, <3>1, <3>2, <3>3 DEF Served, Running, Unopened
  <2> QED BY <2>2, <2>3
<1>3. CASE Served
  <2>a. Alive
    BY <1>a, <1>3 DEF Served, SocketOK, Alive
  <2>1. CASE Report
    <3>1. news \in {"complete", "progress"}
      BY <1>a, <1>3, <2>1 DEF Report, HandlerOK, Served, Events
    <3>2. Frames' = Frames \cup {news}
      BY <1>a, <2>a, <2>1, <3>1, FramesMove DEF Report, Events
    <3>3. CASE news = "complete"
      BY <1>3, <2>1, <3>2, <3>3 DEF Report, Won, Served, copyVars
    <3>4. CASE news = "progress"
      BY <1>3, <2>1, <3>2, <3>4 DEF Report, Served, Running, copyVars, channels, remoteVars
    <3> QED BY <3>1, <3>3, <3>4
  <2>2. CASE WriteText
    <3>1. Frames' = Frames \cup {"output"}
      BY <1>a, <2>a, <2>2, FramesMove DEF WriteText
    <3> QED BY <1>3, <2>a, <2>2, <3>1 DEF WriteText, Flush, Served, loopVars, channels, remoteVars
  <2>3. CASE Tick \/ SelectCheck \/ SelectTick \/ Authorize \/ Grade
    BY <1>a, <1>3, <2>3 DEF Tick, SelectCheck, SelectTick, Authorize, Grade, Served, Running,
       copyVars, channels, remoteVars, socketVars
  <2>4. CASE ReadText \/ ReadMark
    BY <1>a, <1>3, <2>4 DEF ReadText, ReadMark, Served, loopVars, copyVars, channels, remoteVars,
       socketVars
  <2>5. CASE ReadInput
    BY <1>a, <1>3, <2>5 DEF ReadInput, ReadRefused, Served, loopVars, channels, remoteVars
  <2>6. ~Open /\ ~SelectError /\ ~CloseRemote /\ ~CloseConnection
    <3>1. handler \in Running /\ errors = 0
      BY <1>3 DEF Served
    <3>2. ~SelectError
      BY <3>1 DEF SelectError
    <3>3. handler \notin {"open", "closing", "closed"}
      BY <3>1 DEF Running
    <3> QED BY <3>2, <3>3 DEF Open, CloseRemote, CloseConnection
  <2>7. ~ReadEnd /\ ~Flush /\ ~OutFails /\ ~ReadRefused /\ ~ReadClosed /\ ~InFails
    BY <1>3, PoliteHead DEF ReadEnd, Flush, OutFails, ReadRefused, ReadClosed, InFails, Served
  <2> QED BY <2>1, <2>2, <2>3, <2>4, <2>5, <2>6, <2>7
          DEF Server, Handler, CopyTerminal, CopyClient
<1>4. CASE Won
  <2>1. CASE WriteText \/ Flush
    <3>1. Frames' = Frames \cup {"output"} \/ Frames' = Frames
      BY <1>a, <2>1, FramesMove DEF WriteText, Flush
    <3> QED BY <1>4, <2>1, <3>1 DEF WriteText, Flush, Won, loopVars
  <2>2. CASE CloseRemote \/ CloseConnection
    BY <1>a, <1>4, <2>2 DEF CloseRemote, CloseConnection, Won, copyVars, socketVars
  <2>3. CASE ReadText \/ ReadMark \/ ReadEnd \/ OutFails \/ CopyClient
    BY <1>a, <1>4, <2>3 DEF ReadText, ReadMark, ReadEnd, OutFails, CopyClient, ReadInput, ReadRefused, ReadClosed,
       InFails, Won, loopVars, copyVars, socketVars
  <2>4. /\ ~Open /\ ~Tick /\ ~SelectError /\ ~SelectCheck /\ ~SelectTick /\ ~Authorize
        /\ ~Grade /\ ~Report
    BY <1>4 DEF Open, Tick, SelectError, SelectCheck, SelectTick, Authorize, Grade, Report, Won,
       Running
  <2> QED BY <2>1, <2>2, <2>3, <2>4 DEF Server, Handler, CopyTerminal
<1> QED BY <1>1, <1>2, <1>3, <1>4

(* What a step of the client makes of them.                                *)
LEMMA UndisturbedPlay ==
  ASSUME TerminalInv, EndsInv, quit = "none", Play, quit' = "none"
  PROVE  EndsInv'
<1>a. SocketOK /\ ~ctxDone
  BY DEF TerminalInv, EndsInv
<1>b. ASSUME client \in {"dial", "playing"}
      PROVE  registered /\ "client" \notin hungUp /\ (Unopened \/ Refused \/ Served \/ Won)
  BY <1>b DEF EndsInv
<1>c. ASSUME client \in {"dial", "playing"}, UNCHANGED <<ctxDone, registered, hungUp, handler, out, in,
               news, errors, remote, toClient>>, client' = "playing"
      PROVE  EndsInv'
  <2>1. Frames' = Frames
    BY <1>a, <1>c, FramesMove
  <2> QED BY <1>a, <1>b, <1>c, <2>1 DEF EndsInv, Unopened, Refused, Served, Won
<1>1. CASE Dial
  BY <1>1, <1>c DEF Dial, serverVars, loopVars, copyVars, channels, remoteVars
<1>2. CASE SendInput
  BY <1>2, <1>c DEF SendInput, ClientSends, playVars, serverVars, loopVars, copyVars, channels,
     remoteVars
<1>3. CASE ReadOutput \/ ReadEvent
  <2>1. /\ client = "playing" /\ toClient # <<>> /\ toClient' = Tail(toClient)
        /\ UNCHANGED <<ctxDone, registered, hungUp, handler, out, in, news, errors, remote>>
        /\ Head(toClient) \in Events \cup {"output"}
    BY <1>3 DEF ReadOutput, ReadEvent, serverVars, loopVars, copyVars, channels, remoteVars
  <2>2. /\ Frames' \subseteq Frames /\ Frames \subseteq Frames' \cup {Head(toClient)}
        /\ Head(toClient) \in Frames
    BY <1>a, <2>1, FramesMove
  <2>3. registered /\ "client" \notin hungUp /\ (Refused \/ Served \/ Won)
    BY <1>b, <2>1 DEF Unopened
  <2>4. CASE Head(toClient) \in {"output", "progress"}
    <3>1. client' = "playing"
      BY <1>3, <2>4 DEF ReadOutput, ReadEvent, Events
    <3>2. Refused' \/ Served' \/ Won'
      BY <2>1, <2>2, <2>3, <2>4 DEF Refused, Served, Won
    <3> QED BY <1>a, <2>1, <2>3, <3>1, <3>2 DEF EndsInv
  <2>5. CASE Head(toClient) = "complete"
    <3>1. client' = "leaving" /\ completed' = TRUE
      BY <1>3, <2>5 DEF ReadOutput, ReadEvent
    <3> QED BY <1>a, <2>1, <3>1 DEF EndsInv
  <2>6. CASE Head(toClient) = "error"
    <3>1. Refused
      BY <2>2, <2>3, <2>6 DEF Served, Won
    <3>2. client' = "leaving" /\ Refused'
      BY <1>3, <2>1, <2>6, <3>1 DEF ReadOutput, ReadEvent, Refused
    <3> QED BY <1>a, <2>1, <3>2 DEF EndsInv
  <2> QED BY <2>1, <2>4, <2>5, <2>6 DEF Events
<1>4. CASE ReadFails
  <2>1. client = "playing" /\ client' = "leaving" /\ UNCHANGED <<vars, completed, ctxDone>>
    BY <1>4 DEF ReadFails
  <2>2. "server" \in hungUp /\ toClient = <<>>
    BY <1>4, <1>b DEF ReadFails
  <2>3. Refused
    BY <1>a, <1>b, <2>1, <2>2, FramesMove DEF Unopened, Served, Won
  <2>4. Refused'
    BY <2>1, <2>3 DEF Refused, vars, serverVars, loopVars, copyVars
  <2> QED BY <1>a, <2>1, <2>4 DEF EndsInv
<1>5. CASE Leave \/ Delete
  <2>1. client \notin {"dial", "playing"} /\ client' \notin {"dial", "playing"}
        /\ UNCHANGED <<completed, ctxDone, handler, out>>
    BY <1>5 DEF Leave, Delete, outcome, serverVars, loopVars, copyVars
  <2> QED BY <1>a, <2>1 DEF EndsInv, Refused
<1>6. ~InputEnds /\ ~Signal /\ ~CloseOnSignal
  BY <1>a DEF InputEnds, Signal, CloseOnSignal
<1> QED BY <1>1, <1>2, <1>3, <1>4, <1>5, <1>6 DEF Play

(* EndsInv is inductive.                                                   *)
LEMMA EndsStep == TerminalInv /\ Polite /\ EndsInv /\ [PlayNext]_allVars => EndsInv'
<1> SUFFICES ASSUME TerminalInv, Polite, EndsInv, [PlayNext]_allVars PROVE EndsInv'
  OBVIOUS
<1>0. CASE quit' # "none"
  BY <1>0 DEF EndsInv
<1>q. quit' = "none" => quit = "none"
  BY DEF PlayNext, Play, Dial, ReadOutput, ReadEvent, ReadFails, SendInput, InputEnds, Signal,
     CloseOnSignal, Leave, Delete, PlayWorld, playVars, allVars
<1>1. CASE quit' = "none" /\ Play
  BY <1>q, <1>1, UndisturbedPlay
<1>2. CASE quit' = "none" /\ Server /\ UNCHANGED playVars
  <2>1. quit = "none" /\ UNCHANGED <<client, completed, ctxDone>>
    BY <1>q, <1>2 DEF playVars, outcome
  <2>2. CASE client \in {"dial", "playing"}
    <3>1. registered /\ "client" \notin hungUp /\ (Unopened \/ Refused \/ Served \/ Won)
      BY <2>1, <2>2 DEF EndsInv
    <3>2. Unopened' \/ Refused' \/ Served' \/ Won'
      BY <1>2, <3>1, UndisturbedStep
    <3>3. registered' = registered /\ ("client" \in hungUp' => "client" \in hungUp)
      <4>1. CASE Handler \/ Tick
        BY <4>1 DEF Handler, Open, Tick, SelectError, SelectCheck, SelectTick, Authorize, Grade,
           Report, CloseRemote, CloseConnection, remoteVars, socketVars
      <4>2. CASE CopyTerminal \/ CopyClient
        BY <4>2 DEF CopyTerminal, CopyClient, ReadText, ReadMark, ReadEnd, WriteText, Flush, OutFails,
           ReadInput, ReadRefused, ReadClosed, InFails, remoteVars, socketVars
      <4> QED BY <1>2, <4>1, <4>2 DEF Server
    <3> QED BY <2>1, <2>2, <3>1, <3>2, <3>3 DEF EndsInv
  <2>3. CASE client \notin {"dial", "playing"}
    <3>1. Refused => Refused'
      <4>1. CASE Handler \/ Tick
        BY <4>1 DEF Refused, Handler, Open, Tick, SelectError, SelectCheck, SelectTick, Authorize,
           Grade, Report, CloseRemote, CloseConnection, copyVars
      <4>2. CASE CopyTerminal \/ CopyClient
        BY <4>2 DEF Refused, CopyTerminal, CopyClient, ReadText, ReadMark, ReadEnd, WriteText, Flush,
           OutFails, ReadInput, ReadRefused, ReadClosed, InFails, loopVars, copyVars
      <4> QED BY <1>2, <4>1, <4>2 DEF Server
    <3> QED BY <2>1, <2>3, <3>1 DEF EndsInv
  <2> QED BY <2>2, <2>3
<1>3. CASE quit' = "none" /\ PlayWorld
  <2>1. Solve /\ UNCHANGED <<client, completed, ctxDone>> /\ quit = "none"
    BY <1>q, <1>3 DEF PlayWorld, outcome
  <2>2. UNCHANGED <<handler, out, in, news, errors, remote, registered, toClient, hungUp>>
    BY <2>1 DEF Solve, serverVars, loopVars, copyVars, channels, socketVars
  <2>3. Frames' = Frames
    BY <2>2 DEF Frames
  <2> QED BY <2>1, <2>2, <2>3 DEF EndsInv, Unopened, Refused, Served, Won
<1>4. CASE quit' = "none" /\ UNCHANGED allVars
  <2>1. /\ UNCHANGED <<client, completed, ctxDone, quit>>
        /\ UNCHANGED <<handler, out, in, news, errors, remote, registered, toClient, hungUp>>
    BY <1>4 DEF allVars, playVars, outcome, vars, serverVars, loopVars, copyVars, channels,
       remoteVars, socketVars
  <2>2. Frames' = Frames
    BY <2>1 DEF Frames
  <2> QED BY <2>1, <2>2 DEF EndsInv, Unopened, Refused, Served, Won
<1> QED BY <1>0, <1>1, <1>2, <1>3, <1>4 DEF PlayNext

(* A game that is not won ends for a reason that the player can see: while *)
(* the shell, the session and the client's own ends are there, no check, no*)
(* goroutine and no frame closes a terminal that was opened                *)
(* (terminal.go:86-117, client.go:122-154).                                *)
THEOREM GamesEndForAReason == PlaySpec => []EndsForAReason
<1>1. PlayInit => EndsInv /\ Polite
  BY DEF PlayInit, Init, EndsInv, Unopened, Polite
<1>2. EndsInv => EndsForAReason
  BY DEF EndsInv, EndsForAReason, Refused
<1> QED BY <1>1, <1>2, EndsStep, PoliteStep, PlayTerminal, PTL DEF PlaySpec
=============================================================================
