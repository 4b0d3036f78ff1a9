--------------------------- MODULE SessionManager ---------------------------
(***************************************************************************)
(* The session manager, internal/game/session.go, on top of the cluster    *)
(* provider of Kubectl.  HTTP handlers (internal/server/server.go), the    *)
(* terminal handlers that call Check, and the sweeper run as goroutines;   *)
(* what they do under Manager.mu is one step, and between two such steps   *)
(* anything may happen, kubectl commands of their own included.            *)
(***************************************************************************)
EXTENDS Kubectl

CONSTANT Max  \* -max-sessions

ASSUME MaxAssumption == Max \in Nat

VARIABLES
  sessions,   \* Manager.sessions, by id
  completed,  \* those whose Completed is true
  expired,    \* those whose ExpiresAt is past
  pending,    \* Manager.pending
  pc,         \* where each goroutine is; its session is target
  sweep       \* the sessions DeleteExpired still has to delete

managerVars == <<sessions, completed, expired, pending, pc, sweep>>
smVars == <<managerVars, kubectlVars>>

Checking == {"grade", "pass", "fail"}
Deleting == {"unregister", "delete"}
PCs == {"idle", "reserved", "provision", "release"} \cup Checking \cup Deleting

At(pcs) == {c \in Calls : pc[c] \in pcs}

(* Calls that have been admitted and have not become a session, and those  *)
(* that the counter stands for: the deferred decrement comes last.         *)
Preparing == At({"reserved", "provision"})
Holding == At({"reserved", "provision", "release"})

Goto(c, label) == pc' = [pc EXCEPT ![c] = label]

Finish(c) == Goto(c, "idle") /\ target' = [target EXCEPT ![c] = NoId]

(* authorize: the session is there and not expired.  A wrong token is      *)
(* refused without a change, so callers are those with the right one.      *)
Authorized(i) == i \in sessions \ expired

(* Mutant of Remove: what is known of the session stays.                   *)
RemoveIdOnly(S) ==
  /\ sessions' = sessions \ S
  /\ UNCHANGED <<completed, expired>>

(* A session that leaves the map takes its fields along.                   *)
Remove(S) ==
  /\ sessions' = sessions \ S
  /\ completed' = completed \ S
  /\ expired' = expired \ S

-----------------------------------------------------------------------------
(***************************************************************************)
(* Create                                                                  *)
(***************************************************************************)

(* Mutant of Full: environments in preparation do not count.               *)
FullOfSessions == Cardinality(sessions) >= Max

Full == Cardinality(sessions) + pending >= Max

Admit(c) ==
  /\ pc[c] = "idle" /\ ~Full
  /\ pending' = pending + 1
  /\ Goto(c, "reserved")
  /\ UNCHANGED <<sessions, completed, expired, sweep, kubectlVars>>

(* Mutant of Reject: the early return does not run the deferred decrement. *)
RejectWithoutRelease(c) ==
  /\ pc[c] = "reserved"
  /\ Goto(c, "idle")
  /\ UNCHANGED <<sessions, completed, expired, pending, sweep, kubectlVars>>

(* An unknown challenge, or no random bytes.                               *)
Reject(c) ==
  /\ pc[c] = "reserved"
  /\ Goto(c, "release")
  /\ UNCHANGED <<sessions, completed, expired, pending, sweep, kubectlVars>>

(* 48 random bits do not name a session or an environment the process      *)
(* still refers to; they may name what is left of an earlier one.  Calls   *)
(* that do draw the same name are Kubectl's subject.                       *)
Fresh(i) ==
  /\ i \notin sessions \cup sweep
  /\ \A d \in Calls : target[d] # i

ChooseId(c, i) ==
  /\ pc[c] = "reserved" /\ Fresh(i)
  /\ Provision(c, i)
  /\ Goto(c, "provision")
  /\ UNCHANGED <<sessions, completed, expired, pending, sweep>>

ProvisionCommand(c) ==
  /\ pc[c] = "provision"
  /\ ProvisionStep(c)
  /\ UNCHANGED managerVars

(* Mutant of Insert: the error of Provision is not looked at.              *)
InsertAnyway(c) ==
  /\ pc[c] = "provision" /\ Returned(c)
  /\ Return(c)
  /\ sessions' = sessions \cup {target[c]}
  /\ Goto(c, "release")
  /\ UNCHANGED <<completed, expired, pending, sweep>>

Insert(c) ==
  /\ pc[c] = "provision" /\ step[c] = "ready"
  /\ Return(c)
  /\ sessions' = sessions \cup {target[c]}
  /\ Goto(c, "release")
  /\ UNCHANGED <<completed, expired, pending, sweep>>

ProvisionFailed(c) ==
  /\ pc[c] = "provision" /\ step[c] = "failed"
  /\ Return(c)
  /\ Goto(c, "release")
  /\ UNCHANGED <<sessions, completed, expired, pending, sweep>>

(* The deferred function, after everything else in Create.                 *)
Release(c) ==
  /\ pc[c] = "release"
  /\ pending' = pending - 1
  /\ Goto(c, "idle")
  /\ UNCHANGED <<sessions, completed, expired, sweep, kubectlVars>>

-----------------------------------------------------------------------------
(***************************************************************************)
(* Check: a snapshot is authorized and graded, the verdict written back.   *)
(***************************************************************************)

(* Mutant of CheckStart: a completed session is graded again.              *)
CheckAgain(c, i) ==
  /\ pc[c] = "idle" /\ Authorized(i)
  /\ Goto(c, "grade")
  /\ target' = [target EXCEPT ![c] = i]
  /\ UNCHANGED <<sessions, completed, expired, pending, sweep, clusterVars, step>>

(* A completed session is reported as it is.  A session may have several   *)
(* terminals, and each of them a check under way.                          *)
CheckStart(c, i) ==
  /\ pc[c] = "idle" /\ Authorized(i) /\ i \notin completed
  /\ Goto(c, "grade")
  /\ target' = [target EXCEPT ![c] = i]
  /\ UNCHANGED <<sessions, completed, expired, pending, sweep, clusterVars, step>>

(* The probes; in a namespace that is gone they fail.                      *)
Grade(c, verdict) ==
  /\ pc[c] = "grade"
  /\ verdict = "pass" => Exists(target[c])
  /\ Goto(c, verdict)
  /\ UNCHANGED <<sessions, completed, expired, pending, sweep, kubectlVars>>

(* Mutant of Record: the snapshot is stored instead of the fields of the   *)
(* entry that is there.                                                    *)
RecordSnapshot(c) ==
  /\ pc[c] \in {"pass", "fail"}
  /\ sessions' = sessions \cup {target[c]}
  /\ completed' = IF pc[c] = "pass" THEN completed \cup {target[c]}
                                     ELSE completed \ {target[c]}
  /\ Finish(c)
  /\ UNCHANGED <<expired, pending, sweep, clusterVars, step>>

Record(c) ==
  /\ pc[c] \in {"pass", "fail"}
  /\ completed' = IF pc[c] = "pass" THEN completed \cup ({target[c]} \cap sessions)
                                     ELSE completed \ {target[c]}
  /\ Finish(c)
  /\ UNCHANGED <<sessions, expired, pending, sweep, clusterVars, step>>

-----------------------------------------------------------------------------
(***************************************************************************)
(* Delete and DeleteExpired                                                *)
(***************************************************************************)

DeleteStart(c, i) ==
  /\ pc[c] = "idle" /\ Authorized(i)
  /\ Goto(c, "unregister")
  /\ target' = [target EXCEPT ![c] = i]
  /\ UNCHANGED <<sessions, completed, expired, pending, sweep, clusterVars, step>>

Unregister(c) ==
  /\ pc[c] = "unregister"
  /\ Remove({target[c]})
  /\ Goto(c, "delete")
  /\ UNCHANGED <<pending, sweep, kubectlVars>>

DeleteEnvironment(c, out) ==
  /\ pc[c] = "delete"
  /\ Delete(target[c], out)
  /\ Finish(c)
  /\ UNCHANGED <<sessions, completed, expired, pending, sweep, step>>

(* The clock passes ExpiresAt.                                             *)
Expire(i) ==
  /\ i \in sessions \ expired
  /\ expired' = expired \cup {i}
  /\ UNCHANGED <<sessions, completed, pending, pc, sweep, kubectlVars>>

(* Mutant of SweepStart: the sessions are dropped, not collected.          *)
SweepForgets ==
  /\ sweep = {} /\ expired # {}
  /\ Remove(expired)
  /\ UNCHANGED <<pending, pc, sweep, kubectlVars>>

(* Under the lock, every expired session leaves the map.                   *)
SweepStart ==
  /\ sweep = {} /\ expired # {}
  /\ sweep' = expired
  /\ Remove(expired)
  /\ UNCHANGED <<pending, pc, kubectlVars>>

SweepDelete(i, out) ==
  /\ i \in sweep
  /\ Delete(i, out)
  /\ sweep' = sweep \ {i}
  /\ UNCHANGED <<sessions, completed, expired, pending, pc, step, target>>

-----------------------------------------------------------------------------
SMInit ==
  /\ KInit
  /\ sessions = {} /\ completed = {} /\ expired = {}
  /\ pending = 0
  /\ pc = [c \in Calls |-> "idle"]
  /\ sweep = {}

(* A goroutine's own steps, once it has been started by a request.         *)
CallStep(c) ==
  \/ Reject(c)
  \/ \E i \in Ids : ChooseId(c, i)
  \/ ProvisionCommand(c)
  \/ Insert(c)
  \/ ProvisionFailed(c)
  \/ Release(c)
  \/ \E verdict \in {"pass", "fail"} : Grade(c, verdict)
  \/ Record(c)
  \/ Unregister(c)
  \/ \E out \in Outcomes : DeleteEnvironment(c, out)

Request(c) ==
  \/ Admit(c)
  \/ \E i \in Ids : CheckStart(c, i) \/ DeleteStart(c, i)

SweepStep ==
  \/ SweepStart
  \/ \E i \in Ids, out \in Outcomes : SweepDelete(i, out)

SMFinalize(i) == Finalize(i) /\ UNCHANGED managerVars

SMNext ==
  \/ \E c \in Calls : Request(c) \/ CallStep(c)
  \/ SweepStep
  \/ \E i \in Ids : Expire(i) \/ SMFinalize(i)

SMSpec == SMInit /\ [][SMNext]_smVars

-----------------------------------------------------------------------------
SMTypeOK ==
  /\ KTypeOK
  /\ sessions \subseteq Ids
  /\ completed \subseteq sessions
  /\ expired \subseteq sessions
  /\ pending \in Nat
  /\ pc \in [Calls -> PCs]
  /\ sweep \subseteq Ids

(* The limit counts environments from the moment Create is admitted until  *)
(* the session leaves the map: those being built and those being played    *)
(* never exceed Max together (session.go:53-64, 88-90).                    *)
Capacity == Cardinality(sessions) + Cardinality(Preparing) <= Max

(* No return path of Create forgets a place or gives one back twice: the   *)
(* counter is exactly the number of Create calls under way                 *)
(* (session.go:58-77).                                                     *)
PendingExact == pending = Cardinality(Holding)

(* A player is never offered a session without its environment: no slow    *)
(* Check, failed Provision, late Delete or sweep leaves an id in the map   *)
(* whose namespace is not there and complete (session.go:84-90, 110-116,   *)
(* 135-138).                                                               *)
RegisteredHasNamespace ==
  \A i \in sessions : phase[i] = "active" /\ content[i] = Parts

(* Two terminals may check one session at once, and the verdict that is    *)
(* written last stays.  A completion settles all the same: as long as it   *)
(* stands no check of its session begins, so that only one which was under *)
(* way when it was written can take it back, each of them once, when it    *)
(* returns; after these it is for good (session.go:107-116).               *)
Checkers(i) == {c \in At(Checking) : target[c] = i}

CompletionSettles ==
  [][\A i \in completed : i \in sessions' =>
       /\ Checkers(i)' \subseteq Checkers(i)
       /\ i \in completed' \/ Checkers(i)' # Checkers(i)]_smVars

(* The manager implements SessionPool; a call still holds its place in the *)
(* counter after Insert, which the pool does not see.                      *)
Pool == INSTANCE SessionPool WITH preparing <- Preparing, playing <- sessions

ImplementsPool == Pool!Spec
=============================================================================
