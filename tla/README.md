# A verification of K8s Games

TLA+ specifications of the K8s Games server and player client, the TLC runs that
check them on small instances, and TLAPS proofs of the invariants and refinements
of the provider, the manager, the server process, the terminal, the marker filter, grading
and the client for instances of any size.  Definitions are translated from the Go
source; `PROJECT.json` gives the lines of each.

## The system

| Component | Source | State | Operations | Talks to |
|---|---|---|---|---|
| Cluster provider | `internal/cluster/kubectl.go` | none of its own; the namespaces in the API server | Provision, Inspect, Delete, Cleanup, Ping | `kubectl` child processes, each with a deadline |
| Session manager | `internal/game/session.go` | `sessions`, `pending` under `mu` | Create, Check, Get, Delete, DeleteExpired, OpenTerminal | the provider, never with the lock held |
| HTTP API | `internal/server/server.go` | none | one goroutine per request | the manager |
| Terminal proxy | `internal/server/terminal.go`, `internal/cluster/terminal.go` | per connection: select loop, two goroutines, channels `errors` (2) and `checks` (1), the socket's mutex, the PTY | terminal, check, copyTerminal, copyClient | manager, WebSocket, `kubectl exec` |
| Check marker filter | `terminalOutput` in `terminal.go` | `pending` bytes | write, flush | copyTerminal |
| Server process | `cmd/k8sgames-server/main.go` | the process | Cleanup at start, serve, sweep, SIGTERM | manager, Deployment |
| Player client | `internal/terminal/client.go`, `cmd/k8sgames/main.go` | the flag, the selection, `ctx`, one session at a time | main's loop, Play, attach, copyInput, watchResize | HTTP API, terminal proxy, picker, store |
| Challenge picker | `internal/terminal/menu.go` | none but the reader | Select | the store in memory |
| Progress store | `internal/progress/store.go` | `completed` in memory, `path`, `path.tmp` | Open, Has, Complete | the file system |
| Grading | `grade` in `session.go` | a verdict in the session | grade | the provider, probe by probe |
| Challenge catalog | `challenge.go`, `challenges_*.go`, `manifest.go` | constant: 25 challenges, each a manifest, setup commands and probes | Find, All | manager, provider, grading |
| Deployment | `deploy/`, `Dockerfile*`, `Makefile` | configuration | | |

What makes each of them right:

- **Provider.** An environment is built by six kinds of commands, each of which may fail,
  time out, or take effect although it timed out.  An error takes back what was
  built, touches nothing of anyone else's, and whatever remains can be found by
  its label.
- **Manager.** The limit covers environments being built and being played.  The
  map agrees with the cluster although commands run for minutes between two lock
  regions.  A slow check neither revives a session nor takes a completion back.
- **Server process.** Memory is lost with the process and the cluster is not:
  what an old process left is removed and nothing of it is ever offered again.
- **Terminal.** Four parties (select loop, two goroutines, client) can end the
  connection at once.  All must return, no check may be swallowed, and the player who
  solves the challenge must be told.
- **Marker filter.** The result does not depend on how the stream was cut.
- **Store.** A completion that was confirmed survives failures and kills; a reader
  sees marks appear one by one and none disappear.
- **Client.** What it marks was solved; whatever way it ends, it gives its
  session back; a player who goes on gets through the whole catalog.
- **Grading.** A verdict is of one grade, and means what the objective says.
- **Catalog.** No challenge is handed out solved, and each can be solved by doing
  what its pending texts say, with the rights of the player's Role.

## The modules

```text
SessionPool  <== implemented by ==  SessionManager  --extends-->  Kubectl
                                         ^
                                    GameServer

AtomicStore  <== implemented by ==  ProgressStore  <--extends--  Player  --instance of-->  SessionPool

TerminalServer  <--extends--  Attach         TerminalOutput         Grading  --extends-->  Catalog
```

The proofs are in modules of their own, each of which extends its subject and the
proofs it builds on:

```text
KubectlProofs  <--  SessionManagerProofs  <--  EnvironmentProofs  <--  GameServerProofs
PlayerProofs (of the store too)      TerminalProofs (of Attach)
TerminalOutputProofs                 GradingProofs
```

Each `MC*` module instantiates its subject for TLC.  A definition whose comment
begins "Mutant of" is a plausible bug; no specification uses it.  It is there to
show, put in the place of the original, that a property would notice.

**Kubectl.**  `phase` and `content` are what the API server knows of each
namespace, `step` and `target` where each goroutine is in Provision.  One command
is one step.  Its outcome is `ok`, `failed`, or `late`: reported as failed, and
applied.  The several Setup commands of a challenge are one command here.
`OnError` is the pattern of early returns: delete again, unless it
was `create namespace` that failed.  `lost` is a history variable: live
namespaces whose last Delete did not get through.  Alone, the provider runs with
any caller, and two calls may draw one name.

**SessionManager.**  `sessions` (the ids in the map), `completed`, `expired` (the ids whose
`ExpiresAt` is past), `pending`; `pc` is where each request's goroutine is.  A
region under `mu` is one step, a kubectl command is one step, and everything may
happen in between.  Requests with a wrong token, Get and Challenges change
nothing and are no actions.  `Fresh` says that 48 random bits name nothing the
process still refers to; an id may be drawn again once nothing refers to it,
even while an older namespace of that name is still there.
The terminal handler is the only caller of Check, and makes one check at a time;
the shipped client opens one terminal per session, but the server lets anyone
with the token open more, so that any number of calls may check one session at
once.

**SessionPool.**  What the manager promises about its limit, without counters,
locks and namespaces.  `ImplementsPool` maps the admitted calls to callers that
hold a place.  A call keeps its place in the counter a little longer than the
pool does, which is the safe side.

**GameServer.**  The manager in a process: `up` is what `main` is doing, `stale`
the rest of the list Cleanup works on.  `Halt` loses everything in memory.
`Exit` is enabled as soon as the listener is closed, because `main` returns when
`ListenAndServe` does and waits for no call.  After SIGTERM requests are refused
and what is under way may go on until `Exit`, a sweep too: its context is
cancelled, so that each of its deletions fails (`SweepCancelled`).
Cleanup has 30 seconds for all of its deletions: `CleanupTimesOut` ends it, and
the process, at any point and as often as it likes.

**TerminalServer.**  `handler`, `out` and `in` are the select loop and the two
goroutines; `errors`, `checks` and `tick` the three channels it selects on.  A
frame is written under the mutex in one step, and only if the socket has room.
Before `copyTerminal` reports the end of the PTY it may have to write what its filter
has kept back (`Flush`), and may block there.  `bad` is a message at which
`ReadMessage` fails although the client is there: one over the read limit, a
broken one, a close frame.
A check authorizes in one step and grades in another, which fails at will:
kubectl may not answer, and the session may end in between.
The handler's `ctx.Done()` is no action: after the upgrade hijacks the
connection, that context ends only when the handler returns.  Any client may be at
the other end.

**Attach.**  The shipped client instead of any client: dial, the read loop, the
goroutines that close the connection, the deferred DELETE.  `completed`,
`result` are what Play returns.  `IsAnyClient` is `TerminalServer` as the abstract
specification of the connection: the shipped client is one of its clients.

**TerminalOutput.**  The loop of `write` over `pending` and a read, with `Index`
and `markerPrefix`.  `Strip` is the reference, which looks at the uncut stream; both it
and `Scan`, the loop, are recursive functions on the sequences of bytes.

**ProgressStore.**  Complete by system call.  `fd` names the file a process is
writing, because a rename by another process moves it.

**AtomicStore.**  What the progress file promises, as one variable.
`ImplementsAtomicStore` maps `saved` to the marks of the file that a new client
would load; the temporary file and the system calls are stutters but for rename.

**Player.**  The client from its start to its end.  `at` is where `main` is,
`queue` what is left of the selection, `interrupted` whether `ctx` is cancelled,
`session` the POST it waits for, then the session in the answer, then the one it
plays.  `Launch` reads the flags, and `Listed` and `Unlisted` are the answer of GET
`/v1/challenges`, or none; `Aside` stands for `-list` and for an id that the server refuses, with
which nothing is played.  `End` is every way to end, `return` and `fail` alike, and leads through
the store's `Stop`.  The server is `SessionPool`, the abstract specification
that `SessionManager` and `GameServer` are shown to implement, so a place that a
session keeps is one the next POST does not get.  An answer on its way is a state of its own: a client that gives up
then (two minutes, a broken connection, SIGINT) leaves a session nobody knows.
`lost` collects these and the ones whose DELETE did not get through.  The
deferred DELETE runs before Play returns, in `Deleted`, and does not use `ctx`.
SIGINT at the picker changes nothing until the next selection, as in the code.
`Solve`, `Told` and `Leave` are all that is left of the terminal, which is in `Attach`:
the server finds the challenge solved, the client reads so, or the connection ends
first, perhaps between the two, and then a solved challenge is not marked.

**Catalog.**  The 25 challenges as data: the probes, with values as words for
what jsonpath prints, and of the manifests and setup commands the fields that a
probe asks for.  A probed status has stages: what controllers write as Pods become
ready, Jobs succeed or an address is assigned, and what has to hold for that.
`Granted` is the player's Role.

**Grading.**  `grade` on any challenge of the catalog, one kubectl call per step.
`objects` and `spec` are the environment, `stage` how far its Pods, Jobs and
addresses really are, `status` what a controller last wrote.  `Result` is
an exit code and an output that stdout and stderr share; `Warned` are the kinds
for which kubectl prints a warning.  The player may follow the pending
probe (`Follow`: set the field that it asks for, or those that the status needs, in either of two
right ways; the other fields of an object that is new may be right or wrong), and someone may do anything else (`Stray`: also an autoscaler or a
player who goes astray).  A replaced object may or may not keep its Pods.
`CatalogAssumption` says of the catalogue what a grade takes for granted: its
lists are not empty, setup commands alter what the manifest made.  `BrokenAssumption` says
that every challenge is handed out broken: some one of its probes passes under no status that
the controllers could write (`Written`: the fresh one, the first stage, and the later ones when
all they need is in the manifest).  Both are facts of the definitions in `Catalog`, which TLC
evaluates for all 25 challenges.

## The runs

| Run | Bounds | Shows |
|---|---|---|
| `kubectl` | 2 names, 3 calls, 2 failures | `WorkloadIsLabelled`, `BuilderIsAlone`, `FailedLeavesNothing` |
| `server` | 2 ids, 2 calls, 2 failures, limit 2 | `GTypeOK`, `Capacity`, `PendingExact`, `RegisteredHasNamespace`, `NoSilentLeak`, `CompletionSettles`, `ImplementsPool` across crashes and restarts; `ExpiredIsReclaimed`, `PlacesComeBack`, `OrphansAreReclaimed`, `ComesBack` |
| `leaver` | 1 id, 1 call, 1 failure | violated: `LeaverIsReclaimed` |
| `terminal` | 1 frame and 1 message under way | `TypeOK`, `MarkIsKept`, `NobodyWaits`; `MarkIsAnswered`, `NoStrayGoroutine`, `TerminalEnds` |
| `attach` | 1 frame, 1 message | `CompletedIsTrue`, `EndsForAReason`; `IsAnyClient`; `SolvedIsTold`, `BothEnd` |
| `attach_exit` | 1 frame, 1 message | violated: `ExitIsNoFailure` |
| `marker` | marker of 3 bytes, one other, 6 bytes | `TypeOK`, `NothingLost`, `MarksExact` |
| `player` | 1 client, 3 challenges, 2 sessions, 2 POSTs, limit 2, 3 faults | `PlayerTypeOK`, `FileIsWhole`, `MemoryIsStored`, `MarkedWasSolved`, `NothingLeftBehind`; `WinIsSaved`; `ImplementsAtomicStore`; `FinishesGame` |
| `store_two` | 2 processes, 2 challenges | violated: `ConfirmedIsStored` |
| `grading` | 25 challenges, 2 nodes, 1 failure, 1 stray change, warnings for endpoints | `TypeOK`, `FreshIsUnsolved`; `PendingIsFirst`; `PendingLeadsOn` |
| `grading_objective` | `daemonset`, 2 nodes | violated: `CompleteIsMet` |
| `grading_endpoints` | `service-selector`, warnings for endpoints | violated: `CompleteIsMet` |

Why the bounds are enough.  `MaxFaults` counts failures, crashes and stops.  Two
of them give an error and the failure of the command that undoes it, or a crash
and a failing Cleanup.  Two calls give a Create that is admitted while another one
builds, with a session there already, or a check that is overtaken by a deletion
or a sweep; what more calls might do is in the proofs, which bound nothing.  Two ids let one be drawn
again while the other is in use.  A socket that takes one frame blocks both
writers at once, which is the interesting case: an event waits behind output
that nobody has read.  Three distinct bytes make every kind of partial marker, and six
bytes two whole markers or one cut over several reads.  Three faults of the player
fill both places with sessions nobody knows and kill the client while it saves.  Three challenges make a
selection of several that is cut in the middle.  One stray change undoes any one
thing that the player has done; a challenge has no bound of its own, but for the
number of replicas, which is at most one (`Surplus`) above what is asked.  Constants that are sets
are symmetric in the runs that say so; the runs with liveness properties use none.

Some theorems are about definitions that no run lists, since a property it does list says
more: `GTypeOK` has `SMTypeOK` as a part, `NobodyWaits` has `ErrorsHaveRoom`,
`ImplementsAtomicStore` implies `ConfirmedIsStored` (each `Confirm` is of what is saved, and nothing
is taken back), and `PendingIsFirst` says `EveryProbeHeld` of the step that
completes the challenge, after which no grade begins.

Deadlock is checked except where the system stops: a connection that has ended,
a stream that has ended.

### Fairness

- Goroutines and `main` go on: kubectl commands have deadlines, locks are held
  for a few assignments.  Weak fairness of each call, of Listen, Exit and the sweeper's ticker.
- The Deployment restarts the container, and the namespace controller finishes
  deletions: weak fairness of `Boot` with a successful list, and of `Finalize`.
- Cleanup may run out of its 30 seconds before it has deleted anything, but not
  always: one command has 20 of them.  Strong fairness of a deletion by Cleanup that
  succeeds, over all restarts.
- Requests, signals, crashes and failures are never obliged to happen.
  Failures are finitely many (`MaxFaults`), so the liveness results are about
  what happens once kubectl works again.
- `select` chooses at random among ready cases, and `sync.Mutex` does not starve a waiter:
  strong fairness of each select case and of each socket write.  `Attach` gets
  by with the strong fairness of two of them: an error is selected some time, and
  an event gets its turn at the socket.  A grade may fail with kubectl; one
  that is asked for again and again completes a solved challenge some time.
- The client reads, or closes.  Nothing on the server enforces it (a socket
  write has no deadline), so `TerminalEnds`, `NoStrayGoroutine` and
  `MarkIsAnswered` are only as good as the client.  The shipped client does read, and
  `Attach` needs no such assumption beyond its own loop.
- In `Grading`, the ticker asks again, kubectl answers, controllers do their
  work, and for `PendingLeadsOn` the player does what the pending text says.
- In `Player`, the program goes on, the server answers a POST some time, and
  its sweep takes what nobody deletes.  `FinishesGame` is about a player who, time and
  again, starts the client without a flag and asks for all that remains (strong
  fairness, as both may be disabled in between), and solves what is in front of
  them.  Kills, failures, signals and giving up are at most `MaxFaults`.

### What the violated properties say

- `LeaverIsReclaimed` (`README.md:3`: the server "removes the environment when
  the player leaves").  Delete forgets the session before its one kubectl delete;
  when that fails the namespace stays until the server is restarted.
- `ExitIsNoFailure` (`internal/terminal/client.go:71` offers `exit`).  The server closes
  without a close frame, the client sees code 1006, and `exit` ends it with an error and status 1.
- `ConfirmedIsStored` with two clients (`README.md:48`).  They share `path.tmp`,
  and each saves only the marks it loaded.
- `CompleteIsMet` (`challenges_workloads.go:7, 12`).  `numberReady` is the text `0`
  in a fresh status, and `0` is not empty.
- `CompleteIsMet` again, on `service-selector` (`challenges_networking.go:66`,
  `kubectl.go:105-106`).  The deprecation warning that servers since Kubernetes
  1.33 send for Endpoints is printed on stderr, which is part of the output: it is
  never empty.  Without warnings (`Warned = {}`) the challenge is graded right.

## The proofs

Proved with TLAPS for every value of the constants, from the named assumptions
of the modules: finite sets of ids and calls, `NoId` not an id, numbers that are
numbers; a socket that takes at least one frame; for the client, that
there is one at a time, that `None` and `Aside` are something else and that sessions are not
calls; for the filter, that the first byte of the marker occurs in it once; for grading, that the challenges are of the catalogue, `CatalogAssumption` and
`BrokenAssumption`.
The bounds on failures are constants too, so that nothing here depends on how many there are.

| Theorem | States |
|---|---|
| `KubectlProofs!AllWorkloadIsLabelled` | `KSpec => []WorkloadIsLabelled` |
| `KubectlProofs!EachBuilderIsAlone` | `KSpec => []BuilderIsAlone` |
| `KubectlProofs!FailuresLeaveNothing` | `KSpec => FailedLeavesNothing` |
| `SessionManagerProofs!TypeCorrect` | `SMSpec => []SMTypeOK` |
| `SessionManagerProofs!PendingIsExact` | `SMSpec => []PendingExact` |
| `SessionManagerProofs!CapacityHolds` | `SMSpec => []Capacity` |
| `EnvironmentProofs!RegisteredHasItsNamespace` | `SMSpec => []RegisteredHasNamespace` |
| `EnvironmentProofs!ManagerImplementsPool` | `SMSpec => ImplementsPool` |
| `EnvironmentProofs!CompletionsSettle` | `SMSpec => CompletionSettles` |
| `GameServerProofs!ServerTypeCorrect` | `GSpec => [](SMTypeOK /\ GTypeOK)` |
| `GameServerProofs!ServerKeepsPlaces` | `GSpec => [](Capacity /\ PendingExact)` |
| `GameServerProofs!ServedHasItsNamespace` | `GSpec => []RegisteredHasNamespace` |
| `GameServerProofs!NothingLeaksSilently` | `GSpec => []NoSilentLeak` |
| `GameServerProofs!ServerSettles` | `GSpec => CompletionSettles` |
| `GameServerProofs!ServerImplementsPool` | `GSpec => ImplementsPool` |
| `TerminalProofs!TerminalTypeCorrect` | `Spec => []TypeOK` of `TerminalServer` |
| `TerminalProofs!ErrorsAlwaysHaveRoom` | `Spec => []ErrorsHaveRoom` |
| `TerminalProofs!MarksAreKept` | `Spec => []MarkIsKept` |
| `TerminalProofs!NobodyIsLeftWaiting` | `Spec => []NobodyWaits` |
| `TerminalProofs!AttachIsAnyClient` | `PlaySpec => IsAnyClient` |
| `TerminalProofs!CompletionIsTrue` | `PlaySpec => []CompletedIsTrue` |
| `TerminalProofs!GamesEndForAReason` | `PlaySpec => []EndsForAReason` |
| `TerminalOutputProofs!FilterTypeCorrect` | `Spec => []TypeOK` of `TerminalOutput` |
| `TerminalOutputProofs!StreamIsPreserved` | `Spec => []NothingLost` |
| `TerminalOutputProofs!EveryMarkCounts` | `Spec => []MarksExact` |
| `GradingProofs!GradingTypeCorrect` | `Spec => []TypeOK` of `Grading` |
| `GradingProofs!CompletionIsEarned` | `Spec => []EveryProbeHeld` |
| `GradingProofs!VerdictNamesTheFirst` | `Spec => PendingIsFirst` |
| `GradingProofs!NoneIsHandedOutSolved` | `Spec => []FreshIsUnsolved` |
| `PlayerProofs!FileStaysWhole` | `Spec => []FileIsWhole`, with one client at a time |
| `PlayerProofs!ConfirmedStays` | `Spec => []ConfirmedIsStored`, with one client at a time |
| `PlayerProofs!MemoryAgrees` | `Spec => []MemoryIsStored`, with one client at a time |
| `PlayerProofs!StoreIsAtomic` | `Spec => ImplementsAtomicStore`, with one client at a time |
| `PlayerProofs!PlayerTypes` | `PlayerSpec => []PlayerTypeOK` |
| `PlayerProofs!PlayerUsesStore` | `PlayerSpec => Spec /\ ImplementsAtomicStore` of the store |
| `PlayerProofs!PlayerUsesPool` | `PlayerSpec => Pool!Spec`, the pool of `SessionPool` |
| `PlayerProofs!MarkedStaysSolved` | `PlayerSpec => []MarkedWasSolved` |
| `PlayerProofs!NothingIsLeftBehind` | `PlayerSpec => []NothingLeftBehind` |
| `PlayerProofs!WinsAreSaved` | `PlayerSpec => WinIsSaved` |

`KInv` is the provider's, with any caller.  `BuilderIsAlone` needs that a call which
takes its work back still has the namespace to itself, since only one `create` of a
name can succeed; `WorkloadIsLabelled` needs that a call that applies anything has got
its label in before.  `FailedLeavesNothing` then follows for each step that ends in an error.

`PlacesInv` is the inductive invariant of the manager's types, counter and limit: the types, that a
call working on a session has one, `PendingExact` and `Capacity`.
`Capacity` alone is not inductive, because `Admit` tests the counter and not the
calls: it needs the counter to be no smaller than the number of calls in
preparation, which `PendingExact` gives, since every such call is one that has not yet
run its deferred decrement.  The bulk of the proof is how the cardinalities of the
two sets of calls change when one `pc` changes.

`EnvInv` strengthens `RegisteredHasNamespace` with what its steps need to know of
each other.  A call in Provision is alone on its namespace and has put into it
the parts of the steps it has passed, so what `Insert` adds is complete.  An id
that a Delete call or a sweep is working on has left the map, so no deletion
reaches the namespace of a registered session.

`CompletionSettles` is about two terminals that check one session at once, where
the verdict written last stays, even when it is the one that looked first.  A
completion ends that: no check begins while it stands, each of those under way
writes once, and then it is for good.  `Settles`
says so of a step, and needs no more than the types; `ServerSettles` takes it through the process, whose end forgets
sessions and checks alike.

`GInv` is the server process': the two above, that a process which does not serve has
nothing in memory (`Quiet`), and `LeakInv`.  `NoSilentLeak` speaks of a process that
serves, so what an older one left has to be followed through the restart: a
workload is labelled (`WorkloadIsLabelled`, and a deleted namespace is empty), so
that the list of Cleanup has every namespace that is not lost (`Listed`), and is
empty when `main` begins to listen.  From then on whoever lets go of a namespace
has deleted it, or the delete failed and it is lost; a call that is about to create
or returns an error is not the last to know of one (`Blameless`).

`ManagerImplementsPool` maps initial states to initial states and each step to a
step of the pool or a stutter, from `PlacesInv`.  `ServerImplementsPool` adds the steps of
the process: every end of it is the pool's `Reset`, or nothing when it was empty.
With `PlayerUsesPool`, where every step of the client and of the server it is
modelled with is one of that same pool, the two halves of the system meet in
`SessionPool`: a DELETE that comes late or for a session that is gone is a stutter.

`TerminalInv` bounds the errors under way by the goroutines that have failed: each
delivers one and ends, so two places are enough for ever, whether or not the handler still
reads.  A mark that is owed is a check in the channel; a marker that is dropped finds
one there, which has not started and will see what the player did before.
`AttachIsAnyClient` takes each step of the shipped client to a step of any client, or to the
end of a session for its DELETE, so that `TerminalInv` holds with the client at the
other end.  `CompletionIsTrue` follows an announcement from the grade over
`news`, the socket and the client's variables; on each of them it is made
only after the challenge was solved, and the client keeps no error with it.

`NobodyWaits` is the safety half of `NoStrayGoroutine`: with `ClosedOK` (a handler on its last
step has closed the PTY, one that has returned the connection too) and the room for errors of
`TerminalInv`, every wait of a goroutine is over once the handler has returned.  That the
goroutine then goes on is fairness, and TLC's.

`EndsInv` is for `EndsForAReason`.  A game that nothing of what `quit` records has disturbed is at
one of four points: not opened, refused when it was opened, served (the loop runs, both goroutines are
well, no error is under way), or won, with the event still among the frames.  Each step of the server
and of the client leads from one of them to one of them, and the client leaves only from the
last, or when it was refused.  `Served` needs that the session is still registered, so that no check reports
an error, and `Won` that no error is in front of or behind the event.

`OutInv` is the filter's.  `NothingLost` says what the client has got so far, which is not enough
for the next read: the bytes held back may turn out to be text or half of a marker.
`Follows` says it for every way the stream may go on: what the reference makes of all
that was read and some `d` is what was sent, and what it makes of the pending bytes and `d`.
A read keeps it by `ScanAgrees`: `Scan` sends what the reference would, and what it keeps is
all that the reference has to know.  There the first byte of the marker matters: the first marker
of a read is the first of the stream (`FirstStays`, as two cannot overlap), and a
marker that begins before the end of a read is one that `markerPrefix` sees coming
(`HeldBack`).  Both functions are recursive, and library theorems on induction take
a predicate as a parameter; the same with sets in its place is proved from the well-foundedness
of the numbers (`Least`, `Induct`, `ByLength`), and `Recursion` derives from it that a
function defined on smaller arguments exists, which is what `StripIs` and `ScanIs` rest on.

`GradingInv` says of a grade under way that the probes before the current one have held
since it began, and that whatever holds now is counted as well: what passes is one that
holds at that moment, as a call that was killed exits with 124.  The last probe
then completes the list.  `PendingIsFirst` is the same invariant at a step that ends the grade.
For `FreshIsUnsolved`, `FreshInv` adds that without a change by the player everything is as handed out,
each status one of those in `Written`, and no broken probe among the ones that have
held: `Grow` gets past the first stage only with all that the status needs, and nobody
but the player brings that.  A probe that `BrokenAssumption` gives is then missing from the grade, which by
`EveryProbeHeld` is not complete.  The catalogue enters only with these two assumptions: the
prover does not know the operators `:>` and `@@` that the catalogue is written with.

`StoreInv` says what a client knows of the two files while it has them for itself
(`Holds`): its marks are the file's, plus the one it is saving; the temporary file is
empty when it writes, so that the write leaves nothing of an older text behind, and
holds its marks when it renames, so that what becomes the file is whole and says no
less than before.  Both fail with a second client, which `MCProgressStoreTwo` shows.

`PlayerInv` joins `StoreInv` with where the client is.  `ClientOK` ties the place in
`main` to the session and the store's process (a session only from the POST to the
deferred DELETE, a Complete under way only in `saving`); with it every step of
the client is a step of the store or none, which carries `StoreInv` over.
`PlacesOK` adds to `NothingLeftBehind` that the client's own session is not a lost
one, `SolvedOK` to `MarkedWasSolved` that a mark on its way to the file, the head of
the selection and then the argument of Complete, is of a solved challenge.
`WinIsSaved` is about steps: from a win to the rename the challenge is the head of the
selection (`WinStep`), `Played` is the same whether or not `ctx` is cancelled, and
what Complete renames has by `StoreInv` the mark in it.

## What is only model-checked, and what is not modelled

Only by TLC:

- all liveness (`ExpiredIsReclaimed`, `PlacesComeBack`, `OrphansAreReclaimed`,
  `ComesBack`, `MarkIsAnswered`, `NoStrayGoroutine`, `TerminalEnds`, `SolvedIsTold`,
  `BothEnd`, `PendingLeadsOn`, `FinishesGame`), which is out of the prover's reach;
- `CatalogAssumption` and `BrokenAssumption`, about the 25 challenges as they are
  written: TLC evaluates them, and there is nothing to generalise.

Not modelled: the fields of manifests that no probe asks for, the toolbox Pod and
its shell functions; whether the cluster has room for the Pods a challenge wants
(`Nodes` is assumed to be below the quota); HTTP decoding and status codes, `/healthz`;
`-list`; URLs, raw mode and window sizes; input that the picker's reader has
buffered when the terminal takes over; the loss of power under the progress
file; `kubectl` itself beyond the outcome and the output of a command; a second
server replica, which the Deployment excludes.

## Plan

1. *Done.*  Provider, manager, abstract pool, server process, terminal, client,
   marker filter, store, grading; the runs above; the manager's proofs.
2. *Done.*  The client's whole run against the abstract pool (`Player`), the atomic
   store that `ProgressStore` implements, with their proofs, Cleanup's 30 seconds, and grading on the whole
   catalog (`Catalog`, `Grading`).
3. *Done.*  Proofs of `Kubectl` alone, of the whole server process with its crashes and
   restarts, of the terminal with any client and with the shipped one, of the marker filter,
   and of grading.
4. *Done.*  Every safety property that a run finds to hold is a theorem: with the last ones, of
   `FreshIsUnsolved`, `PendingIsFirst`, `WinIsSaved`, `NobodyWaits` and `EndsForAReason`.
5. When the catalog grows, the runs of `grading` are what a new challenge has to pass.
