----------------------------- MODULE GameServer -----------------------------
(***************************************************************************)
(* The server process, cmd/k8sgames-server/main.go: it cleans up what an   *)
(* earlier process left in the cluster, then serves sessions, and may be   *)
(* stopped by a signal or die at any time.  Sessions, counters and calls   *)
(* are in memory and end with the process; namespaces stay.                *)
(*                                                                         *)
(* One process runs at a time (deploy/kubernetes.yaml: one replica,        *)
(* strategy Recreate), and its kubectl children die with its container.    *)
(***************************************************************************)
EXTENDS SessionManager

VARIABLES
  up,     \* what main is doing
  stale   \* the namespaces Cleanup still has to delete

gVars == <<up, stale, smVars>>

States == {"down", "cleaning", "up", "stopping"}

-----------------------------------------------------------------------------
(* The end of the process.                                                 *)
Halt ==
  /\ up' = "down"
  /\ stale' = {} /\ sessions' = {} /\ completed' = {} /\ expired' = {}
  /\ pending' = 0
  /\ sweep' = {}
  /\ pc' = [c \in Calls |-> "idle"]
  /\ step' = [c \in Calls |-> "idle"]
  /\ target' = [c \in Calls |-> NoId]

(* Cleanup lists the managed namespaces; without the list main gives up.   *)
Boot(out) ==
  /\ up = "down"
  /\ Run(out)
  /\ IF out = "ok"
       THEN up' = "cleaning" /\ stale' = Managed /\ lost' = lost \ Managed
       ELSE UNCHANGED <<up, stale, lost>>
  /\ UNCHANGED <<managerVars, phase, content, step, target>>

(* Mutant of CleanupDelete: an error goes on with the next namespace.      *)
CleanupSkip(i, out) ==
  /\ i \in stale
  /\ Delete(i, out)
  /\ stale' = stale \ {i}
  /\ UNCHANGED <<up, managerVars, step, target>>

(* An error ends Cleanup, and main with it.  Only Cleanup has a stale list.*)
CleanupDelete(i, out) ==
  /\ i \in stale
  /\ Delete(i, out)
  /\ IF out = "ok" THEN stale' = stale \ {i} /\ UNCHANGED up
                   ELSE stale' = {} /\ up' = "down"
  /\ UNCHANGED <<managerVars, step, target>>

(* The 30 seconds that main gives the list and all deletions together are  *)
(* over; the one under way is killed, before or after the API server has   *)
(* taken it.  A large backlog always ends like this.                       *)
CleanupTimesOut(i) ==
  /\ i \in stale
  /\ \/ UNCHANGED phase
     \/ phase[i] = "active" /\ phase' = [phase EXCEPT ![i] = "terminating"]
  /\ stale' = {} /\ up' = "down"
  /\ UNCHANGED <<managerVars, content, lost, faults, step, target>>

(* Mutant of Listen: main serves while Cleanup is still deleting.          *)
ListenEarly ==
  /\ up = "cleaning"
  /\ up' = "up"
  /\ UNCHANGED <<stale, smVars>>

Listen ==
  /\ up = "cleaning" /\ stale = {}
  /\ up' = "up"
  /\ UNCHANGED <<stale, smVars>>

Crash ==
  /\ up # "down" /\ faults < MaxFaults
  /\ faults' = faults + 1
  /\ Halt
  /\ UNCHANGED <<phase, content, lost>>

(* SIGTERM cancels the sweeper's context and lets Shutdown close the       *)
(* listener; calls and terminals that are there go on.                     *)
Stop ==
  /\ up = "up" /\ faults < MaxFaults
  /\ faults' = faults + 1
  /\ up' = "stopping"
  /\ UNCHANGED <<stale, managerVars, phase, content, lost, step, target>>

(* Mutant of Exit: main waits for the calls under way.                     *)
ExitWhenQuiet ==
  /\ up = "stopping" /\ At({"idle"}) = Calls
  /\ Halt
  /\ UNCHANGED clusterVars

(* ListenAndServe returns as soon as Shutdown has begun, and main with it: *)
(* nothing waits for the calls under way.                                  *)
Exit ==
  /\ up = "stopping"
  /\ Halt
  /\ UNCHANGED clusterVars

(* A cancelled context ends no sweep, it only fails its deletions: the one *)
(* under way is killed, before or after the API server has taken it, and   *)
(* the others are not started.                                             *)
SweepCancelled(i) ==
  /\ up = "stopping" /\ i \in sweep
  /\ \/ /\ i \in Active
        /\ phase' = [phase EXCEPT ![i] = "terminating"]
        /\ lost' = lost \ {i}
     \/ lost' = lost \cup ({i} \cap Active) /\ UNCHANGED phase
  /\ sweep' = sweep \ {i}
  /\ UNCHANGED <<up, stale, sessions, completed, expired, pending, pc, content, faults, step, target>>

(* A tick that is ready when the context is cancelled may still be taken:  *)
(* select chooses.                                                         *)
Serve ==
  /\ \/ up = "up" /\ (SweepStep \/ \E c \in Calls : Request(c))
     \/ up = "stopping" /\ (SweepStart \/ \E c \in Calls, i \in Ids : CheckStart(c, i))
     \/ up \in {"up", "stopping"} /\ \E i \in Ids : Expire(i)
  /\ UNCHANGED <<up, stale>>

(* Calls exist only while the process does.                                *)
Call(c) == CallStep(c) /\ UNCHANGED <<up, stale>>

Controller(i) == SMFinalize(i) /\ UNCHANGED <<up, stale>>

-----------------------------------------------------------------------------
GInit == SMInit /\ up = "down" /\ stale = {}

GNext ==
  \/ \E out \in {"ok", "failed"} : Boot(out)
  \/ \E i \in Ids, out \in Outcomes : CleanupDelete(i, out)
  \/ \E i \in Ids : CleanupTimesOut(i)
  \/ Listen
  \/ Crash
  \/ Stop
  \/ Exit
  \/ Serve
  \/ \E i \in Ids : SweepCancelled(i)
  \/ \E c \in Calls : Call(c)
  \/ \E i \in Ids : Controller(i)

(* Every kubectl command has a deadline and every lock is held for a few   *)
(* assignments, so goroutines and Cleanup go on; the sweeper has a ticker; *)
(* the Deployment starts the container again; the namespace controller     *)
(* works.  Requests, signals and crashes are never obliged to happen, and  *)
(* failures are finitely many.  How often Cleanup runs out of time is not  *)
(* bounded, but it gets a deletion done time and again.                    *)
GFairness ==
  /\ WF_gVars(Boot("ok"))
  /\ SF_gVars(\E i \in Ids : CleanupDelete(i, "ok"))
  /\ WF_gVars(Listen)
  /\ WF_gVars(Exit)
  /\ WF_gVars(up = "up" /\ SweepStep /\ UNCHANGED <<up, stale>>)
  /\ \A c \in Calls : WF_gVars(Call(c))
  /\ \A i \in Ids : WF_gVars(Controller(i))

GSpec == GInit /\ [][GNext]_gVars
GFairSpec == GSpec /\ GFairness

-----------------------------------------------------------------------------
GTypeOK ==
  /\ SMTypeOK
  /\ up \in States
  /\ stale \subseteq Ids /\ (stale # {} => up = "cleaning")
  /\ up \in {"down", "cleaning"} => pending = 0 /\ sessions \cup sweep = {}

Owned(i) ==
  \/ i \in sessions \cup sweep
  \/ \E c \in At({"provision"} \cup Deleting) : target[c] = i

(* While the server runs, it holds a reference to every environment with a *)
(* workload: a session, a sweep or a call will delete it, except when a    *)
(* Delete has already failed on it (session.go:84-90, 138, 152-154,        *)
(* kubectl.go:32-51).                                                      *)
NoSilentLeak ==
  \A i \in Active :
    up \in {"up", "stopping"} /\ content[i] # {} => Owned(i) \/ i \in lost

(* Once a session has expired, a sweep takes it away, whatever calls are   *)
(* under way, unless that one Delete fails (main.go:61-70,                 *)
(* session.go:141-155).                                                    *)
ExpiredIsReclaimed ==
  \A i \in Ids : i \in expired ~> i \notin sessions /\ (i \notin Active \/ i \in lost)

(* A server without a session does not stay full: whatever way a Create    *)
(* ends, its place comes back (session.go:54-64).                          *)
PlacesComeBack ==
  Full /\ sessions = {} ~> ~Full \/ sessions # {}

(* What a dead server leaves in the cluster with a label disappears after  *)
(* the next one has started (kubectl.go:71-83, main.go:29-35).             *)
OrphansAreReclaimed ==
  \A i \in Ids : up = "down" /\ i \in Managed ~> phase[i] = "absent"

(* With finitely many failures the server is always back some time, past   *)
(* its own Cleanup and whatever its terminals did when it was told to stop *)
(* (main.go:29-35, 46-58).                                                 *)
ComesBack == up # "up" ~> up = "up"

(* "removes the environment when the player leaves" (README.md:3): Delete  *)
(* takes the session out of the map first, and nobody tries again when its *)
(* kubectl fails (session.go:135-138).                                     *)
LeaverIsReclaimed ==
  \A c \in Calls, i \in Ids :
    pc[c] = "delete" /\ target[c] = i ~> phase[i] # "active"
=============================================================================
