--------------------------- MODULE GameServerProofs ---------------------------
(***************************************************************************)
(* Proofs about the server process: what the session manager guarantees    *)
(* survives crashes, restarts and Cleanup, and no environment is without   *)
(* somebody who will delete it, for every number of goroutines, names,     *)
(* places and failures.                                                    *)
(***************************************************************************)
EXTENDS GameServer, EnvironmentProofs

Running == {"up", "stopping"}

(* A live environment that Cleanup of this process is the last to know of. *)
Loose(i) == phase[i] = "active" /\ content[i] # {} /\ i \notin lost

AbsentIsEmpty == \A i \in Ids : phase[i] = "absent" => content[i] = {}

(* Without a process that serves there is nothing in memory.               *)
Quiet ==
  up \notin Running =>
    sessions = {} /\ sweep = {} /\ \A c \in Calls : pc[c] = "idle"

(* Cleanup's list is complete.                                             *)
Listed == up = "cleaning" => \A i \in Ids : Loose(i) => i \in stale

(* A call that is about to create its namespace, or returns an error, is   *)
(* not the last that knows of a live environment.                          *)
Blameless ==
  \A c \in Calls : pc[c] = "provision" /\ step[c] \in {"create", "failed"} => ~Loose(target[c])

ProcessOK == up \in States /\ stale \subseteq Ids /\ (stale # {} => up = "cleaning")

(* The inductive invariant.  A namespace with a workload is labelled, so   *)
(* that Cleanup lists it; whatever is not listed is lost, so that nothing  *)
(* is loose when main begins to listen; from then on whoever lets go of a  *)
(* name has deleted its namespace.                                         *)
LeakInv == WorkloadIsLabelled /\ AbsentIsEmpty /\ Listed /\ NoSilentLeak /\ Blameless
GInv == PlacesInv /\ EnvInv /\ ProcessOK /\ Quiet /\ LeakInv

-----------------------------------------------------------------------------
(***************************************************************************)
(* The steps of the manager in a process                                   *)
(***************************************************************************)

(* What a command of Provision does to the namespace of its call.          *)
LEMMA CommandLeak ==
  ASSUME GInv, NEW c \in Calls, ProvisionCommand(c)
  PROVE  /\ pc[c] = "provision" /\ target[c] \in Ids /\ Alone(c)
         /\ UNCHANGED <<managerVars, target>>
         /\ \A d \in Calls \ {c} : step'[d] = step[d]
         /\ \A j \in Ids \ {target[c]} : /\ phase'[j] = phase[j] /\ content'[j] = content[j]
                                         /\ j \in lost' <=> j \in lost
         /\ content'[target[c]] # {} => "labels" \in content'[target[c]]
         /\ phase'[target[c]] # "absent" \/ content'[target[c]] = {}
         /\ step'[c] \in {"create", "failed"} => ~Loose(target[c])'
<1>0. PICK i \in Ids : i = target[c]
  BY DEF GInv, PlacesInv, TargetOK, Bound, ProvisionCommand
<1> DEFINE Goal == /\ \A j \in Ids \ {i} : j \in lost' <=> j \in lost
                   /\ content'[i] # {} => "labels" \in content'[i]
                   /\ phase'[i] # "absent" \/ content'[i] = {}
                   /\ step'[c] \in {"create", "failed"} => ~Loose(i)'
<1>a. pc[c] = "provision" /\ UNCHANGED managerVars /\ ProvisionStep(c)
  BY DEF ProvisionCommand
<1>b. i \in Ids /\ Alone(c) /\ Built(c) /\ KTypeOK
  BY <1>a, <1>0 DEF GInv, PlacesInv, SMTypeOK, EnvInv
<1>c. /\ \A j \in Ids \ {i} : phase'[j] = phase[j] /\ content'[j] = content[j]
      /\ \A d \in Calls \ {c} : step'[d] = step[d]
      /\ UNCHANGED target
  BY <1>a, <1>b, <1>0, ProvisionFrame
<1>d. /\ content[i] # {} => "labels" \in content[i]
      /\ phase[i] = "absent" => content[i] = {}
      /\ step[c] \in {"create", "failed"} => ~Loose(i)
  BY <1>a, <1>0 DEF GInv, LeakInv, WorkloadIsLabelled, AbsentIsEmpty, Blameless
<1>1. ASSUME AlreadyExists(c) PROVE Goal
  BY <1>1, <1>0, <1>d DEF AlreadyExists, clusterVars, Loose
<1>2. ASSUME NEW out \in Outcomes, CreateNamespace(c, out) PROVE Goal
  <2>1. phase[i] = "absent" /\ UNCHANGED <<content, lost>>
    BY <1>2, <1>0 DEF CreateNamespace, Exists
  <2> QED BY <1>d, <2>1 DEF Loose
<1>3. ASSUME NEW at \in Filling, NEW part \in Parts, NEW next \in Steps \ {"create", "failed"},
             NEW out \in Outcomes, at = "label" => part = "labels", Fill(c, at, part, next, out)
      PROVE  Goal
  <2>1. /\ step[c] = at /\ UNCHANGED <<phase, lost>>
        /\ step'[c] \notin {"create", "failed"}
        /\ content'[i] = content[i] \/ content'[i] = content[i] \cup {part}
    BY <1>3, <1>b, <1>0 DEF Fill, OnError, KTypeOK, Filling
  <2>2. phase[i] = "active"
    BY <1>b, <1>0, <2>1 DEF Built, Done, Filling
  <2>3. at # "label" => "labels" \in content[i]
    BY <1>b, <1>0, <2>1 DEF Built, Done, Filling
  <2> QED BY <1>3, <1>d, <2>1, <2>2, <2>3
<1>4. ASSUME NEW out \in Outcomes,
             LabelNamespace(c, out) \/ ApplyManifest(c, out) \/ RunSetup(c, out) \/ WaitToolbox(c, out)
      PROVE  Goal
  BY <1>3, <1>4
     DEF LabelNamespace, ApplyManifest, RunSetup, WaitToolbox, Filling, Parts, Steps
<1>5. ASSUME NEW out \in Outcomes, Undo(c, out) PROVE Goal
  <2>1. /\ \A j \in Ids \ {i} : phase'[j] = phase[j] /\ (j \in lost' <=> j \in lost)
        /\ phase'[i] \in {phase[i], "terminating"}
        /\ phase'[i] # "active" \/ i \in lost'
        /\ content' = content
    BY <1>5, <1>0, <1>b, DeleteFrame DEF Undo
  <2> QED BY <1>d, <2>1 DEF Loose
<1>6. Goal
  BY <1>a, <1>1, <1>2, <1>4, <1>5 DEF ProvisionStep
<1> QED BY <1>0, <1>a, <1>b, <1>c, <1>6 DEF Loose

(* A step that leaves the cluster alone: whoever lets go of a loose        *)
(* namespace passes it on.                                                 *)
LEMMA LeakPassedOn ==
  ASSUME LeakInv, UNCHANGED <<phase, content, lost, up, stale>>,
         \A i \in Ids : Loose(i) /\ Owned(i) => Owned(i)',
         \A d \in Calls : pc'[d] = "provision" /\ step'[d] \in {"create", "failed"} =>
            ~Loose(target'[d])
  PROVE  LeakInv'
<1>1. \A i : Loose(i)' <=> Loose(i)
  BY DEF Loose
<1>2. WorkloadIsLabelled' /\ AbsentIsEmpty'
  BY DEF LeakInv, WorkloadIsLabelled, AbsentIsEmpty
<1>3. Listed'
  BY <1>1 DEF LeakInv, Listed
<1>4. Blameless'
  BY <1>1 DEF Blameless
<1>5. NoSilentLeak'
  <2> SUFFICES ASSUME NEW i \in Ids, phase[i] = "active", up \in Running, content[i] # {}, i \notin lost
               PROVE  Owned(i)'
    BY DEF NoSilentLeak, Active, Running
  <2>1. Owned(i)
    BY DEF LeakInv, NoSilentLeak, Active, Running
  <2> QED BY <2>1 DEF Loose
<1> QED BY <1>2, <1>3, <1>4, <1>5 DEF LeakInv

(* A step that changes one namespace, which is not loose after it or has   *)
(* an owner: nobody who builds elsewhere notices.                          *)
LEMMA LeakTouched ==
  ASSUME LeakInv, UNCHANGED <<up, stale>>, NEW i \in Ids,
         \A j \in Ids \ {i} : /\ phase'[j] = phase[j] /\ content'[j] = content[j]
                              /\ j \in lost' <=> j \in lost,
         content'[i] # {} => "labels" \in content'[i],
         phase'[i] # "absent" \/ content'[i] = {},
         up = "cleaning" => ~Loose(i)',
         up \in Running => ~Loose(i)' \/ Owned(i)',
         \A j \in Ids \ {i} : Owned(j) => Owned(j)',
         \A d \in Calls : pc'[d] = "provision" /\ step'[d] \in {"create", "failed"} =>
            ~Loose(target[d])' \/ (target'[d] \in Ids \ {i} /\ ~Loose(target'[d]))
  PROVE  LeakInv'
<1>1. \A j \in Ids \ {i} : Loose(j)' <=> Loose(j)
  BY DEF Loose
<1>2. WorkloadIsLabelled' /\ AbsentIsEmpty'
  BY DEF LeakInv, WorkloadIsLabelled, AbsentIsEmpty
<1>3. Listed'
  BY <1>1 DEF LeakInv, Listed
<1>4. Blameless'
  BY <1>1 DEF Blameless
<1>5. NoSilentLeak'
  <2> SUFFICES ASSUME NEW j \in Ids, Loose(j)', up \in Running PROVE Owned(j)'
    BY DEF NoSilentLeak, Active, Running, Loose
  <2>1. CASE j = i
    BY <2>1
  <2>2. CASE j # i
    <3>1. Loose(j)
      BY <1>1, <2>2
    <3>2. Owned(j)
      BY <3>1 DEF LeakInv, NoSilentLeak, Active, Running, Loose
    <3> QED BY <2>2, <3>2
  <2> QED BY <2>1, <2>2
<1> QED BY <1>2, <1>3, <1>4, <1>5 DEF LeakInv

(* A name that no session, no sweep and no call has is not loose while the *)
(* process serves.                                                         *)
LEMMA UnownedIsNotLoose ==
  ASSUME LeakInv, up \in Running, NEW i \in Ids, ~Owned(i)
  PROVE  ~Loose(i)
BY DEF LeakInv, NoSilentLeak, Active, Running, Loose

(* Goroutines that build or delete are left alone.                         *)
LEMMA OwnersKept ==
  ASSUME sessions \cup sweep \subseteq sessions' \cup sweep',
         \A d \in Calls : pc[d] \in {"provision"} \cup Deleting =>
            pc'[d] \in {"provision"} \cup Deleting /\ target'[d] = target[d]
  PROVE  \A i \in Ids : Owned(i) => Owned(i)'
BY DEF Owned, At

(* The goroutines' own steps.                                              *)
LEMMA CallLeak ==
  ASSUME GInv, NEW c \in Calls, CallStep(c), UNCHANGED <<up, stale>>
  PROVE  LeakInv'
<1>a. /\ pc \in [Calls -> PCs] /\ target \in [Calls -> Ids \cup {NoId}]
      /\ step \in [Calls -> Steps] /\ KTypeOK
  BY DEF GInv, PlacesInv, SMTypeOK, KTypeOK
<1>b. LeakInv /\ Blameless /\ up \in Running
  <2>1. pc[c] # "idle"
    BY DEF CallStep, Reject, ChooseId, ProvisionCommand, Insert, ProvisionFailed, Release, Grade,
           Record, Unregister, DeleteEnvironment
  <2> QED BY <2>1 DEF GInv, LeakInv, Quiet
<1>1. ASSUME UNCHANGED <<phase, content, lost>>, \A i \in Ids : Owned(i) => Owned(i)',
             \A d \in Calls : pc'[d] = "provision" =>
                pc[d] = "provision" /\ target'[d] = target[d] /\ step'[d] = step[d]
      PROVE  LeakInv'
  <2>1. \A d \in Calls : pc'[d] = "provision" /\ step'[d] \in {"create", "failed"} =>
           ~Loose(target'[d])
    BY <1>1, <1>b DEF Blameless
  <2> QED BY <1>1, <1>b, <2>1, LeakPassedOn
<1>2. CASE Reject(c) \/ Release(c) \/ \E verdict \in {"pass", "fail"} : Grade(c, verdict)
  <2>1. /\ UNCHANGED <<phase, content, lost, step, target, sessions, sweep>>
        /\ pc[c] \notin {"provision"} \cup Deleting /\ pc'[c] \notin {"provision"} \cup Deleting
        /\ \A d \in Calls \ {c} : pc'[d] = pc[d]
    BY <1>2, <1>a DEF Reject, Release, Grade, Goto, kubectlVars, Deleting
  <2> QED BY <2>1, <1>1, OwnersKept
<1>3. CASE Record(c)
  <2>1. /\ UNCHANGED <<phase, content, lost, step, sessions, sweep>>
        /\ pc[c] \notin {"provision"} \cup Deleting /\ pc'[c] \notin {"provision"} \cup Deleting
        /\ \A d \in Calls \ {c} : pc'[d] = pc[d] /\ target'[d] = target[d]
    BY <1>3, <1>a DEF Record, Finish, Goto, clusterVars, Deleting
  <2> QED BY <2>1, <1>1, OwnersKept
<1>4. ASSUME NEW i \in Ids, ChooseId(c, i) PROVE LeakInv'
  <2>1. /\ UNCHANGED <<phase, content, lost, sessions, sweep>>
        /\ pc[c] = "reserved" /\ pc'[c] = "provision" /\ target'[c] = i
        /\ \A d \in Calls \ {c} : pc'[d] = pc[d] /\ target'[d] = target[d] /\ step'[d] = step[d]
    BY <1>4, <1>a DEF ChooseId, Provision, Goto, clusterVars
  <2>2. ~Loose(i)
    <3>1. ~Owned(i)
      BY <1>4 DEF ChooseId, Fresh, Owned, At
    <3> QED BY <1>b, <3>1, UnownedIsNotLoose
  <2>3. \A j \in Ids : Owned(j) => Owned(j)'
    BY <2>1, OwnersKept DEF Deleting
  <2>4. \A d \in Calls : pc'[d] = "provision" /\ step'[d] \in {"create", "failed"} =>
           ~Loose(target'[d])
    BY <2>1, <2>2, <1>b DEF Blameless
  <2> QED BY <1>b, <2>1, <2>3, <2>4, LeakPassedOn
<1>5. CASE ProvisionCommand(c)
  <2>1. /\ pc[c] = "provision" /\ target[c] \in Ids /\ Alone(c) /\ UNCHANGED <<managerVars, target>>
        /\ \A d \in Calls \ {c} : step'[d] = step[d]
        /\ \A j \in Ids \ {target[c]} : /\ phase'[j] = phase[j] /\ content'[j] = content[j]
                                        /\ j \in lost' <=> j \in lost
        /\ content'[target[c]] # {} => "labels" \in content'[target[c]]
        /\ phase'[target[c]] # "absent" \/ content'[target[c]] = {}
        /\ step'[c] \in {"create", "failed"} => ~Loose(target[c])'
    BY <1>5, CommandLeak
  <2>2. PICK i \in Ids : i = target[c]
    BY <2>1
  <2>3. UNCHANGED <<pc, sessions, sweep>>
    BY <2>1 DEF managerVars
  <2>4. \A j \in Ids : Owned(j) => Owned(j)'
    BY <2>1, <2>3, OwnersKept
  <2>5. Owned(i)'
    BY <2>1, <2>2, <2>3 DEF Owned, At
  <2>6. \A d \in Calls \ {c} : pc'[d] = "provision" => target'[d] \in Ids \ {i}
    BY <2>1, <2>2, <2>3 DEF Alone, Bound, GInv, PlacesInv, TargetOK
  <2>7. \A d \in Calls : pc'[d] = "provision" /\ step'[d] \in {"create", "failed"} =>
           ~Loose(target[d])' \/ (target'[d] \in Ids \ {i} /\ ~Loose(target'[d]))
    BY <2>1, <2>2, <2>3, <2>6, <1>b DEF Blameless
  <2>8. up # "cleaning"
    BY <1>b DEF Running
  <2> QED BY <1>b, <2>1, <2>2, <2>4, <2>5, <2>7, <2>8, LeakTouched
<1>6. CASE Insert(c)
  <2>1. /\ UNCHANGED <<phase, content, lost, sweep>>
        /\ pc'[c] = "release" /\ sessions' = sessions \cup {target[c]}
        /\ \A d \in Calls \ {c} : pc'[d] = pc[d] /\ target'[d] = target[d] /\ step'[d] = step[d]
    BY <1>6, <1>a DEF Insert, Return, Goto, clusterVars
  <2>2. \A j \in Ids : Owned(j) => Owned(j)'
    BY <2>1 DEF Owned, At
  <2> QED BY <1>1, <2>1, <2>2
<1>7. CASE ProvisionFailed(c)
  <2>1. /\ UNCHANGED <<phase, content, lost, sessions, sweep>>
        /\ pc[c] = "provision" /\ step[c] = "failed" /\ pc'[c] = "release"
        /\ \A d \in Calls \ {c} : pc'[d] = pc[d] /\ target'[d] = target[d] /\ step'[d] = step[d]
    BY <1>7, <1>a DEF ProvisionFailed, Return, Goto, clusterVars
  <2>2. ~Loose(target[c])
    BY <2>1, <1>b DEF Blameless
  <2>3. \A j \in Ids : Loose(j) /\ Owned(j) => Owned(j)'
    BY <2>1, <2>2 DEF Owned, At
  <2>4. \A d \in Calls : pc'[d] = "provision" /\ step'[d] \in {"create", "failed"} =>
           ~Loose(target'[d])
    BY <2>1, <1>b DEF Blameless
  <2> QED BY <1>b, <2>1, <2>3, <2>4, LeakPassedOn
<1>8. CASE Unregister(c)
  <2>1. /\ UNCHANGED <<phase, content, lost, step, target, sweep>>
        /\ pc[c] = "unregister" /\ pc'[c] = "delete" /\ sessions' = sessions \ {target[c]}
        /\ \A d \in Calls \ {c} : pc'[d] = pc[d]
    BY <1>8, <1>a DEF Unregister, Remove, Goto, kubectlVars
  <2>2. \A j \in Ids : Owned(j) => Owned(j)'
    BY <2>1 DEF Owned, At, Deleting
  <2> QED BY <1>1, <2>1, <2>2
<1>9. ASSUME NEW out \in Outcomes, DeleteEnvironment(c, out) PROVE LeakInv'
  <2>1. /\ UNCHANGED <<step, sessions, sweep>>
        /\ pc[c] = "delete" /\ pc'[c] = "idle"
        /\ \A d \in Calls \ {c} : pc'[d] = pc[d] /\ target'[d] = target[d]
    BY <1>9, <1>a DEF DeleteEnvironment, Finish, Goto
  <2>2. PICK i \in Ids : i = target[c]
    BY <2>1 DEF GInv, PlacesInv, TargetOK, Bound, Deleting
  <2>3. /\ \A j \in Ids \ {i} : phase'[j] = phase[j] /\ (j \in lost' <=> j \in lost)
        /\ phase'[i] \in {phase[i], "terminating"}
        /\ phase'[i] # "active" \/ i \in lost'
        /\ content' = content
    BY <1>9, <1>a, <2>2, DeleteFrame DEF DeleteEnvironment
  <2>4. \A j \in Ids \ {i} : Owned(j) => Owned(j)'
    BY <2>1, <2>2 DEF Owned, At
  <2>5. \A d \in Calls : pc'[d] = "provision" => d # c /\ target'[d] \in Ids \ {i}
    BY <2>1, <2>2 DEF GInv, EnvInv, Alone, Bound, Deleting, PlacesInv, TargetOK
  <2>6. \A d \in Calls : pc'[d] = "provision" /\ step'[d] \in {"create", "failed"} =>
           target'[d] \in Ids \ {i} /\ ~Loose(target'[d])
    BY <2>1, <2>5, <1>b DEF Blameless
  <2>7. /\ content'[i] # {} => "labels" \in content'[i]
        /\ phase'[i] # "absent" \/ content'[i] = {}
        /\ ~Loose(i)'
    BY <2>3, <1>b DEF LeakInv, WorkloadIsLabelled, AbsentIsEmpty, Loose
  <2> QED BY <1>b, <2>3, <2>4, <2>6, <2>7, LeakTouched
<1> QED BY <1>2, <1>3, <1>4, <1>5, <1>6, <1>7, <1>8, <1>9 DEF CallStep

(* Requests, sweeps and the clock.                                         *)
LEMMA ServeLeak ==
  ASSUME GInv, Serve
  PROVE  LeakInv'
<1>a. /\ pc \in [Calls -> PCs] /\ target \in [Calls -> Ids \cup {NoId}]
      /\ step \in [Calls -> Steps] /\ KTypeOK
  BY DEF GInv, PlacesInv, SMTypeOK, KTypeOK
<1>b. LeakInv /\ Blameless /\ up \in Running /\ UNCHANGED <<up, stale>>
  BY DEF Serve, Running, GInv, LeakInv
<1>1. ASSUME UNCHANGED <<phase, content, lost, step>>, \A i \in Ids : Owned(i) => Owned(i)',
             \A d \in Calls : pc'[d] = "provision" => pc[d] = "provision" /\ target'[d] = target[d]
      PROVE  LeakInv'
  <2>1. \A d \in Calls : pc'[d] = "provision" /\ step'[d] \in {"create", "failed"} =>
           ~Loose(target'[d])
    BY <1>1, <1>b DEF Blameless
  <2> QED BY <1>1, <1>b, <2>1, LeakPassedOn
<1>2. ASSUME NEW c \in Calls, Request(c) PROVE LeakInv'
  <2>1. /\ UNCHANGED <<phase, content, lost, step, sessions, sweep>>
        /\ pc[c] = "idle" /\ pc'[c] # "provision"
        /\ \A d \in Calls \ {c} : pc'[d] = pc[d] /\ target'[d] = target[d]
    BY <1>2, <1>a DEF Request, Admit, CheckStart, DeleteStart, Goto, kubectlVars, clusterVars
  <2>2. \A j \in Ids : Owned(j) => Owned(j)'
    BY <2>1, OwnersKept DEF Deleting
  <2> QED BY <1>1, <2>1, <2>2
<1>3. ASSUME NEW c \in Calls, NEW i \in Ids, CheckStart(c, i) PROVE LeakInv'
  BY <1>2, <1>3 DEF Request
<1>4. CASE SweepStart
  <2>1. UNCHANGED <<phase, content, lost, step, target, pc>>
        /\ sweep = {} /\ sweep' = expired /\ sessions' = sessions \ expired
    BY <1>4 DEF SweepStart, Remove, kubectlVars
  <2>2. \A j \in Ids : Owned(j) => Owned(j)'
    BY <2>1 DEF Owned, At
  <2> QED BY <1>1, <2>1, <2>2
<1>5. ASSUME NEW i \in Ids, NEW out \in Outcomes, SweepDelete(i, out) PROVE LeakInv'
  <2>1. UNCHANGED <<pc, step, target, sessions>> /\ i \in sweep /\ sweep' = sweep \ {i}
    BY <1>5 DEF SweepDelete
  <2>2. /\ \A j \in Ids \ {i} : phase'[j] = phase[j] /\ (j \in lost' <=> j \in lost)
        /\ phase'[i] \in {phase[i], "terminating"}
        /\ phase'[i] # "active" \/ i \in lost'
        /\ content' = content
    BY <1>5, <1>a, DeleteFrame DEF SweepDelete
  <2>3. \A j \in Ids \ {i} : Owned(j) => Owned(j)'
    BY <2>1 DEF Owned, At
  <2>4. \A d \in Calls : pc'[d] = "provision" => target'[d] \in Ids \ {i}
    BY <2>1 DEF GInv, EnvInv, Alone, Bound, PlacesInv, TargetOK
  <2>5. \A d \in Calls : pc'[d] = "provision" /\ step'[d] \in {"create", "failed"} =>
           target'[d] \in Ids \ {i} /\ ~Loose(target'[d])
    BY <2>1, <2>4, <1>b DEF Blameless
  <2>6. /\ content'[i] # {} => "labels" \in content'[i]
        /\ phase'[i] # "absent" \/ content'[i] = {}
        /\ ~Loose(i)'
    BY <2>2, <1>b DEF LeakInv, WorkloadIsLabelled, AbsentIsEmpty, Loose
  <2> QED BY <1>b, <2>2, <2>3, <2>5, <2>6, LeakTouched
<1>6. ASSUME NEW i \in Ids, Expire(i) PROVE LeakInv'
  BY <1>1, <1>6, OwnersKept DEF Expire, kubectlVars
<1> QED BY <1>2, <1>3, <1>4, <1>5, <1>6 DEF Serve, SweepStep

(* A sweep after SIGTERM is a sweep whose deletions fail: it too ends with *)
(* the namespace on its way out, or lost.                                  *)
LEMMA CancelledFrame ==
  ASSUME KTypeOK, NEW i \in Ids, SweepCancelled(i)
  PROVE  /\ UNCHANGED <<up, stale, sessions, completed, expired, pending, pc, content, step, target>>
         /\ i \in sweep /\ sweep' = sweep \ {i} /\ up \in Running
         /\ \A j \in Ids \ {i} : phase'[j] = phase[j] /\ (j \in lost' <=> j \in lost)
         /\ phase'[i] \in {phase[i], "terminating"}
         /\ phase'[i] # "active" \/ i \in lost'
         /\ KTypeOK'
<1>1. UNCHANGED <<up, stale, sessions, completed, expired, pending, pc, content, step, target, faults>>
  BY DEF SweepCancelled
<1>2. phase' \in [Ids -> Phases] /\ lost' \subseteq Ids
  BY DEF SweepCancelled, KTypeOK, Phases, Active
<1> QED BY <1>1, <1>2 DEF SweepCancelled, KTypeOK, Running, Active

(* Nobody loses an environment to it.                                      *)
LEMMA CancelledInv ==
  ASSUME GInv, NEW i \in Ids, SweepCancelled(i)
  PROVE  GInv'
<1>a. KTypeOK /\ LeakInv /\ Blameless
  BY DEF GInv, PlacesInv, SMTypeOK, LeakInv
<1>b. /\ UNCHANGED <<up, stale, sessions, completed, expired, pending, pc, content, step, target>>
      /\ i \in sweep /\ sweep' = sweep \ {i} /\ up \in Running
      /\ \A j \in Ids \ {i} : phase'[j] = phase[j] /\ (j \in lost' <=> j \in lost)
      /\ phase'[i] \in {phase[i], "terminating"}
      /\ phase'[i] # "active" \/ i \in lost'
      /\ KTypeOK'
  BY <1>a, CancelledFrame
<1>1. PlacesInv'
  BY <1>b DEF GInv, PlacesInv, SMTypeOK, TargetOK, PendingExact, Capacity, Holding, Preparing, At
<1>2. \A d \in Calls : pc[d] = "provision" => target[d] \in Ids \ {i}
  BY <1>b DEF GInv, EnvInv, Alone, Bound, PlacesInv, TargetOK
<1>3. EnvInv'
  <2>1. i \notin sessions /\ sweep' \subseteq sweep
    BY <1>b DEF GInv, EnvInv
  <2> QED BY <1>b, <1>2, <2>1, EnvTouch DEF GInv
<1>4. LeakInv'
  <2>1. \A j \in Ids \ {i} : Owned(j) => Owned(j)'
    BY <1>b DEF Owned, At
  <2>2. \A d \in Calls : pc'[d] = "provision" /\ step'[d] \in {"create", "failed"} =>
           target'[d] \in Ids \ {i} /\ ~Loose(target'[d])
    BY <1>b, <1>2, <1>a DEF Blameless
  <2>3. /\ content'[i] # {} => "labels" \in content'[i]
        /\ phase'[i] # "absent" \/ content'[i] = {}
        /\ ~Loose(i)'
    BY <1>b, <1>a DEF LeakInv, WorkloadIsLabelled, AbsentIsEmpty, Loose
  <2> QED BY <1>a, <1>b, <2>1, <2>2, <2>3, LeakTouched
<1>5. ProcessOK' /\ Quiet'
  BY <1>b DEF GInv, ProcessOK, Quiet
<1> QED BY <1>1, <1>3, <1>4, <1>5 DEF GInv

(* The namespace controller.                                               *)
LEMMA ControllerLeak ==
  ASSUME GInv, NEW i \in Ids, Controller(i)
  PROVE  LeakInv'
<1>1. /\ UNCHANGED <<up, stale, pc, sessions, sweep, step, target, lost>>
      /\ phase'[i] = "absent" /\ content'[i] = {}
      /\ \A j \in Ids \ {i} : phase'[j] = phase[j] /\ content'[j] = content[j]
  BY DEF Controller, SMFinalize, Finalize, managerVars, GInv, PlacesInv, SMTypeOK, KTypeOK
<1>2. ~Loose(i)'
  BY <1>1 DEF Loose
<1>3. \A j \in Ids \ {i} : Owned(j) => Owned(j)'
  BY <1>1 DEF Owned, At
<1>4. \A d \in Calls : pc'[d] = "provision" /\ step'[d] \in {"create", "failed"} =>
         ~Loose(target[d])' \/ (target'[d] \in Ids \ {i} /\ ~Loose(target'[d]))
  <2> SUFFICES ASSUME NEW d \in Calls, pc'[d] = "provision", step'[d] \in {"create", "failed"}
               PROVE  ~Loose(target[d])' \/ (target'[d] \in Ids \ {i} /\ ~Loose(target'[d]))
    OBVIOUS
  <2>1. target[d] \in Ids /\ UNCHANGED target /\ ~Loose(target[d])
    BY <1>1 DEF GInv, PlacesInv, TargetOK, Bound, LeakInv, Blameless
  <2>2. CASE target[d] = i
    BY <2>1, <2>2, <1>2 DEF Loose
  <2> QED BY <2>1, <2>2
<1> QED BY <1>1, <1>2, <1>3, <1>4, LeakTouched DEF GInv

-----------------------------------------------------------------------------
(***************************************************************************)
(* The life of a process                                                   *)
(***************************************************************************)

(* A process with nothing in memory owes nothing.                          *)
AtRest ==
  /\ sessions = {} /\ completed = {} /\ expired = {} /\ sweep = {} /\ pending = 0
  /\ pc \in [Calls -> PCs] /\ \A c \in Calls : pc[c] = "idle"
  /\ KTypeOK

(* A manager at rest has its invariants.                                   *)
LEMMA NothingHeld == AtRest => PlacesInv /\ EnvInv
<1> SUFFICES ASSUME AtRest PROVE PlacesInv /\ EnvInv
  OBVIOUS
<1> USE DEF AtRest
<1>1. Holding = {} /\ Preparing = {}
  BY DEF Holding, Preparing, At
<1>2. PendingExact /\ Capacity
  BY <1>1, FS_EmptySet, MaxAssumption DEF PendingExact, Capacity
<1>3. TargetOK /\ EnvInv
  BY DEF TargetOK, Bound, Checking, Deleting, EnvInv, RegisteredHasNamespace
<1> QED BY <1>2, <1>3 DEF PlacesInv, SMTypeOK

(* ... which holds of a process that does not serve yet, or no longer.     *)
LEMMA QuietHolds ==
  ASSUME GInv, up \notin Running
  PROVE  /\ sessions = {} /\ completed = {} /\ expired = {} /\ sweep = {} /\ pending = 0
         /\ \A c \in Calls : pc[c] = "idle"
<1>1. sessions = {} /\ completed = {} /\ expired = {} /\ sweep = {}
  BY DEF GInv, Quiet, PlacesInv, SMTypeOK
<1>2. \A c \in Calls : pc[c] = "idle"
  BY DEF GInv, Quiet
<1>3. Holding = {}
  BY <1>2 DEF Holding, At
<1>4. pending = 0
  BY <1>3, FS_EmptySet DEF GInv, PlacesInv, PendingExact
<1> QED BY <1>1, <1>2, <1>4

(* While main has not begun to listen its steps change the cluster only.   *)
LEMMA QuietStep ==
  ASSUME GInv, up \notin Running, UNCHANGED managerVars, KTypeOK', ProcessOK', LeakInv'
  PROVE  GInv'
<1>1. /\ sessions = {} /\ completed = {} /\ expired = {} /\ sweep = {} /\ pending = 0
      /\ \A c \in Calls : pc[c] = "idle"
  BY QuietHolds
<1>2. pc \in [Calls -> PCs]
  BY DEF GInv, PlacesInv, SMTypeOK
<1>3. /\ sessions' = {} /\ completed' = {} /\ expired' = {} /\ sweep' = {} /\ pending' = 0
      /\ pc' \in [Calls -> PCs] /\ \A c \in Calls : pc'[c] = "idle"
  BY <1>1, <1>2 DEF managerVars
<1>4. AtRest'
  BY <1>3 DEF AtRest
<1>5. (PlacesInv /\ EnvInv)'
  BY <1>4, NothingHeld, PTL
<1> QED BY <1>3, <1>5 DEF GInv, Quiet

(* Nothing is loose, or it is on Cleanup's list.                           *)
LEMMA QuietLeak ==
  ASSUME GInv, up \notin Running, UNCHANGED managerVars, up' \in {"down", "cleaning"},
         WorkloadIsLabelled', AbsentIsEmpty', Listed'
  PROVE  LeakInv'
<1>1. \A c \in Calls : pc'[c] = "idle"
  BY DEF GInv, Quiet, managerVars
<1>2. Blameless'
  BY <1>1 DEF Blameless
<1> QED BY <1>2 DEF LeakInv, NoSilentLeak

(* The steps before the server listens.                                    *)
LEMMA BootInv ==
  ASSUME GInv, NEW out \in {"ok", "failed"}, Boot(out)
  PROVE  GInv'
<1>a. /\ up = "down" /\ up' \in {"down", "cleaning"}
      /\ UNCHANGED <<phase, content, step, target>> /\ UNCHANGED managerVars
  BY DEF Boot
<1>b. up \notin Running /\ KTypeOK /\ ProcessOK /\ WorkloadIsLabelled /\ AbsentIsEmpty
  BY <1>a DEF Running, GInv, PlacesInv, SMTypeOK, LeakInv
<1>1. Managed \subseteq Ids /\ \A i \in Ids : Loose(i) => i \in Managed
  BY <1>b DEF Managed, Loose, WorkloadIsLabelled, Exists
<1>2. KTypeOK'
  <2>1. faults' \in 0..MaxFaults
    BY <1>b, MaxFaultsAssumption DEF Boot, Run, KTypeOK
  <2>2. lost' \subseteq Ids
    BY <1>b DEF Boot, KTypeOK
  <2> QED BY <1>a, <1>b, <2>1, <2>2 DEF KTypeOK
<1>3. ProcessOK'
  BY <1>a, <1>b, <1>1 DEF Boot, ProcessOK, States
<1>4. Listed'
  <2> SUFFICES ASSUME up' = "cleaning", NEW i \in Ids, phase'[i] = "active", content'[i] # {}
               PROVE  i \in stale'
    BY DEF Listed, Loose
  <2>1. i \in Managed
    BY <1>a, <1>b DEF Managed, Exists, WorkloadIsLabelled
  <2> QED BY <1>a, <2>1 DEF Boot
<1>5. LeakInv'
  BY <1>a, <1>b, <1>4, QuietLeak DEF WorkloadIsLabelled, AbsentIsEmpty
<1> QED BY <1>a, <1>b, <1>2, <1>3, <1>5, QuietStep

(* The steps of the clean-up.                                              *)
LEMMA CleanupInv ==
  ASSUME GInv, NEW i \in Ids,
         (\E out \in Outcomes : CleanupDelete(i, out)) \/ CleanupTimesOut(i)
  PROVE  GInv'
<1>a. up = "cleaning" /\ UNCHANGED managerVars
  BY DEF CleanupDelete, CleanupTimesOut, GInv, ProcessOK
<1>b. /\ up \notin Running /\ KTypeOK /\ ProcessOK
      /\ WorkloadIsLabelled /\ AbsentIsEmpty /\ Listed
  BY <1>a DEF Running, GInv, PlacesInv, SMTypeOK, LeakInv
<1>1. ASSUME NEW out \in Outcomes, CleanupDelete(i, out) PROVE GInv'
  <2>1. /\ \A j \in Ids \ {i} : phase'[j] = phase[j] /\ (j \in lost' <=> j \in lost)
        /\ phase'[i] \in {phase[i], "terminating"}
        /\ phase'[i] # "active" \/ i \in lost'
        /\ content' = content
    BY <1>1, <1>b, DeleteFrame DEF CleanupDelete
  <2>2. \/ stale' = stale \ {i} /\ up' = up
        \/ stale' = {} /\ up' = "down"
    BY <1>1 DEF CleanupDelete
  <2>3. KTypeOK'
    BY <1>1, <1>b, DeleteType DEF CleanupDelete, KTypeOK
  <2>4. ProcessOK'
    BY <1>a, <1>b, <2>2 DEF ProcessOK, States
  <2>5. Listed'
    BY <1>a, <1>b, <2>1, <2>2 DEF Listed, Loose
  <2>6. LeakInv'
    BY <1>a, <1>b, <2>1, <2>2, <2>5, QuietLeak DEF WorkloadIsLabelled, AbsentIsEmpty
  <2> QED BY <1>a, <1>b, <2>3, <2>4, <2>6, QuietStep
<1>2. ASSUME CleanupTimesOut(i) PROVE GInv'
  <2>1. /\ UNCHANGED <<content, lost, faults, step, target>>
        /\ \A j \in Ids \ {i} : phase'[j] = phase[j]
        /\ phase'[i] \in {phase[i], "terminating"} /\ phase' \in [Ids -> Phases]
        /\ stale' = {} /\ up' = "down"
    BY <1>2, <1>b DEF CleanupTimesOut, KTypeOK, Phases
  <2>2. KTypeOK' /\ ProcessOK' /\ Listed'
    BY <1>b, <2>1 DEF KTypeOK, ProcessOK, States, Listed
  <2>3. LeakInv'
    BY <1>a, <1>b, <2>1, <2>2, QuietLeak DEF WorkloadIsLabelled, AbsentIsEmpty
  <2> QED BY <1>a, <1>b, <2>2, <2>3, QuietStep
<1> QED BY <1>1, <1>2

(* What is still live when main begins to listen is lost: nothing is left  *)
(* on the list.                                                            *)
LEMMA ListenInv ==
  ASSUME GInv, Listen
  PROVE  GInv'
<1>a. /\ up = "cleaning" /\ stale = {} /\ up' = "up" /\ stale' = stale
      /\ UNCHANGED smVars
  BY DEF Listen
<1>b. UNCHANGED managerVars /\ UNCHANGED <<phase, content, lost, step, target, faults>>
  BY <1>a DEF smVars, kubectlVars
<1>c. KTypeOK /\ LeakInv /\ up \notin Running
  BY <1>a DEF GInv, PlacesInv, SMTypeOK, Running
<1>1. \A i \in Ids : ~Loose(i)
  BY <1>a, <1>c DEF LeakInv, Listed
<1>2. \A c \in Calls : pc'[c] = "idle"
  BY <1>a, <1>b DEF GInv, Quiet, Running, managerVars
<1>3. NoSilentLeak' /\ Blameless' /\ Listed'
  BY <1>a, <1>b, <1>1, <1>2 DEF NoSilentLeak, Active, Loose, Blameless, Listed
<1>4. WorkloadIsLabelled' /\ AbsentIsEmpty'
  BY <1>b, <1>c DEF LeakInv, WorkloadIsLabelled, AbsentIsEmpty
<1>5. KTypeOK' /\ ProcessOK'
  BY <1>a, <1>b, <1>c DEF KTypeOK, ProcessOK, States
<1>6. LeakInv'
  BY <1>3, <1>4 DEF LeakInv
<1> QED BY <1>b, <1>c, <1>5, <1>6, QuietStep

(* A process that ends takes its memory with it, and nothing else.         *)
LEMMA HaltInv ==
  ASSUME GInv, Halt, UNCHANGED <<phase, content, lost>>, faults' \in 0..MaxFaults
  PROVE  GInv'
<1>1. KTypeOK'
  BY DEF Halt, GInv, PlacesInv, SMTypeOK, KTypeOK, Steps
<1>2. pc' \in [Calls -> PCs] /\ \A c \in Calls : pc'[c] = "idle"
  BY DEF Halt, PCs
<1>a. AtRest'
  BY <1>1, <1>2 DEF Halt, AtRest
<1>3. (PlacesInv /\ EnvInv)'
  BY <1>a, NothingHeld, PTL
<1>4. ProcessOK' /\ Quiet'
  BY <1>2 DEF Halt, ProcessOK, States, Quiet
<1>5. LeakInv'
  BY <1>2 DEF Halt, GInv, LeakInv, WorkloadIsLabelled, AbsentIsEmpty, Listed, NoSilentLeak, Blameless
<1> QED BY <1>3, <1>4, <1>5 DEF GInv

(* The steps that end the process.                                         *)
LEMMA StopInv ==
  ASSUME GInv, Stop
  PROVE  GInv'
<1>a. /\ up = "up" /\ up' = "stopping" /\ stale' = stale /\ faults' \in 0..MaxFaults
      /\ UNCHANGED <<sessions, completed, expired, pending, pc, sweep>>
      /\ UNCHANGED <<phase, content, lost, step, target>>
  BY MaxFaultsAssumption DEF Stop, managerVars, GInv, PlacesInv, SMTypeOK, KTypeOK
<1>1. PlacesInv'
  BY <1>a DEF GInv, PlacesInv, SMTypeOK, KTypeOK, TargetOK, PendingExact, Capacity, Holding,
              Preparing, At
<1>2. EnvInv'
  BY <1>a DEF GInv, EnvInv, Alone, Built, RegisteredHasNamespace
<1>3. ProcessOK' /\ Quiet'
  BY <1>a DEF GInv, ProcessOK, States, Quiet, Running
<1>4. LeakInv'
  BY <1>a DEF GInv, LeakInv, WorkloadIsLabelled, AbsentIsEmpty, Listed, NoSilentLeak, Blameless,
              Loose, Active, Owned, At
<1> QED BY <1>1, <1>2, <1>3, <1>4 DEF GInv

(* What the process does with its sessions are steps of the manager.       *)
LEMMA ManagerStep ==
  ASSUME \/ Serve
         \/ \E c \in Calls : Call(c)
         \/ \E i \in Ids : Controller(i)
  PROVE  SMNext /\ UNCHANGED <<up, stale>>
BY DEF Serve, Call, Controller, SMNext, Request, SweepStep

(* The steps of the manager, its callers and the cluster's controllers.    *)
LEMMA ServingInv ==
  ASSUME GInv,
         \/ Serve
         \/ \E c \in Calls : Call(c)
         \/ \E i \in Ids : Controller(i)
  PROVE  GInv'
<1>1. [SMNext]_smVars /\ UNCHANGED <<up, stale>>
  BY ManagerStep
<1>2. PlacesInv' /\ EnvInv'
  BY <1>1, PlacesStep, EnvStep DEF GInv
<1>3. LeakInv'
  BY <1>1, ServeLeak, CallLeak, ControllerLeak DEF Call
<1>4. ProcessOK'
  BY <1>1 DEF GInv, ProcessOK
<1>5. Quiet'
  <2> SUFFICES ASSUME up \notin Running PROVE sessions' = {} /\ sweep' = {} /\ \A c \in Calls : pc'[c] = "idle"
    BY <1>1 DEF Quiet
  <2>1. \A c \in Calls : pc[c] = "idle"
    BY DEF GInv, Quiet
  <2>2. \A c \in Calls : ~Call(c)
    BY <2>1 DEF Call, CallStep, Reject, ChooseId, ProvisionCommand, Insert, ProvisionFailed,
                Release, Grade, Record, Unregister, DeleteEnvironment
  <2>3. ~Serve
    BY DEF Serve, Running
  <2>4. UNCHANGED managerVars
    BY <2>2, <2>3 DEF Controller, SMFinalize
  <2> QED BY <2>4 DEF GInv, Quiet, managerVars
<1> QED BY <1>2, <1>3, <1>4, <1>5 DEF GInv

(* The first state.                                                        *)
LEMMA GInvInit == GInit => GInv
<1> SUFFICES ASSUME GInit PROVE GInv
  OBVIOUS
<1>1. PlacesInv /\ EnvInv
  BY PlacesInit, EnvInit DEF GInit
<1>2. ProcessOK /\ Quiet
  BY DEF GInit, SMInit, ProcessOK, States, Quiet
<1>3. LeakInv
  BY DEF GInit, SMInit, KInit, LeakInv, WorkloadIsLabelled, AbsentIsEmpty, Listed, NoSilentLeak,
         Blameless
<1> QED BY <1>1, <1>2, <1>3 DEF GInv

(* Every step.                                                             *)
LEMMA GInvNext == GInv /\ [GNext]_gVars => GInv'
<1> SUFFICES ASSUME GInv, [GNext]_gVars PROVE GInv'
  OBVIOUS
<1>1. ASSUME NEW out \in {"ok", "failed"}, Boot(out) PROVE GInv'
  BY <1>1, BootInv
<1>2. ASSUME NEW i \in Ids, NEW out \in Outcomes, CleanupDelete(i, out) PROVE GInv'
  BY <1>2, CleanupInv
<1>3. ASSUME NEW i \in Ids, CleanupTimesOut(i) PROVE GInv'
  BY <1>3, CleanupInv
<1>4. CASE Listen
  BY <1>4, ListenInv
<1>5. CASE Crash \/ Exit
  <2>1. Halt /\ UNCHANGED <<phase, content, lost>> /\ faults' \in 0..MaxFaults
    BY <1>5, MaxFaultsAssumption DEF Crash, Exit, clusterVars, GInv, PlacesInv, SMTypeOK, KTypeOK
  <2> QED BY <2>1, HaltInv
<1>6. CASE Stop
  BY <1>6, StopInv
<1>7. CASE \/ Serve
           \/ \E c \in Calls : Call(c)
           \/ \E i \in Ids : Controller(i)
  BY <1>7, ServingInv
<1>9. ASSUME NEW i \in Ids, SweepCancelled(i) PROVE GInv'
  BY <1>9, CancelledInv
<1>8. CASE UNCHANGED gVars
  <2>1. UNCHANGED <<up, stale>> /\ UNCHANGED smVars
    BY <1>8 DEF gVars
  <2>2. UNCHANGED <<sessions, completed, expired, pending, pc, sweep, phase, content, step, target,
                    lost, faults>>
    BY <2>1 DEF smVars, managerVars, kubectlVars
  <2>3. PlacesInv' /\ EnvInv'
    BY <2>1, PlacesStep, EnvStep DEF GInv
  <2>4. ProcessOK' /\ Quiet'
    BY <2>1, <2>2 DEF GInv, ProcessOK, Quiet
  <2>5. LeakInv'
    BY <2>1, <2>2 DEF GInv, LeakInv, WorkloadIsLabelled, AbsentIsEmpty, Listed, NoSilentLeak,
                      Blameless, Loose, Active, Owned, At
  <2> QED BY <2>3, <2>4, <2>5 DEF GInv
<1> QED BY <1>1, <1>2, <1>3, <1>4, <1>5, <1>6, <1>7, <1>8, <1>9 DEF GNext

(* Every state.                                                            *)
LEMMA GInvHolds == GSpec => []GInv
BY GInvInit, GInvNext, PTL DEF GSpec

-----------------------------------------------------------------------------
(***************************************************************************)
(* What a player and an operator can rely on                               *)
(***************************************************************************)

(* Type correctness of the whole server, the quiet of a process that does  *)
(* not serve included.                                                     *)
THEOREM ServerTypeCorrect == GSpec => [](SMTypeOK /\ GTypeOK)
<1>1. GInv => SMTypeOK /\ GTypeOK
  <2> SUFFICES ASSUME GInv PROVE SMTypeOK /\ GTypeOK
    OBVIOUS
  <2>1. SMTypeOK /\ ProcessOK
    BY DEF GInv, PlacesInv
  <2>2. up \in {"down", "cleaning"} => pending = 0 /\ sessions \cup sweep = {}
    BY QuietHolds DEF Running
  <2> QED BY <2>1, <2>2 DEF GTypeOK, ProcessOK
<1> QED BY <1>1, GInvHolds, PTL

(* Neither crashes nor restarts break the limit or the counter             *)
(* (session.go:53-77).                                                     *)
THEOREM ServerKeepsPlaces == GSpec => [](Capacity /\ PendingExact)
<1>1. GInv => Capacity /\ PendingExact
  BY DEF GInv, PlacesInv
<1> QED BY <1>1, GInvHolds, PTL

(* A session that a player can use has its environment, whatever Cleanup   *)
(* of the process before did (main.go:29-35, session.go:84-90).            *)
THEOREM ServedHasItsNamespace == GSpec => []RegisteredHasNamespace
<1>1. GInv => RegisteredHasNamespace
  BY DEF GInv, EnvInv
<1> QED BY <1>1, GInvHolds, PTL

(* While the server runs, every environment with a workload has a session, *)
(* a sweep or a call that will delete it, or a Delete has failed on it     *)
(* (session.go:84-90, 138, 152-154, kubectl.go:32-51, main.go:29-35).      *)
THEOREM NothingLeaksSilently == GSpec => []NoSilentLeak
<1>1. GInv => NoSilentLeak
  BY DEF GInv, LeakInv
<1> QED BY <1>1, GInvHolds, PTL

(* Checks of one session that overlap, in a process that may end between   *)
(* their steps, let its completion settle all the same: only those which   *)
(* were under way when it was written can take it back (session.go:107-116,*)
(* main.go:46-58).                                                         *)
THEOREM ServerSettles == GSpec => CompletionSettles
<1>1. GInv /\ [GNext]_gVars => [Settles]_smVars
  <2> SUFFICES ASSUME GInv, [GNext]_gVars PROVE [Settles]_smVars
    OBVIOUS
  <2>1. ASSUME [SMNext]_smVars PROVE Settles
    BY <2>1, SettlesStep DEF GInv
  <2>2. ASSUME UNCHANGED <<managerVars, target>> PROVE Settles
    BY <2>2 DEF managerVars, Settles, Checkers, At
  <2>3. CASE Crash \/ Exit
    BY <2>3 DEF Crash, Exit, Halt, Settles
  <2>4. CASE \/ Serve
             \/ \E c \in Calls : Call(c)
             \/ \E i \in Ids : Controller(i)
    BY <2>4, <2>1, ManagerStep
  <2>5. CASE Listen
    BY <2>5, <2>1 DEF Listen
  <2>6. CASE Stop
    BY <2>6, <2>2 DEF Stop
  <2>7. CASE \/ \E out \in {"ok", "failed"} : Boot(out)
             \/ \E i \in Ids : CleanupTimesOut(i) \/ \E out \in Outcomes : CleanupDelete(i, out)
    BY <2>7, <2>2 DEF Boot, CleanupTimesOut, CleanupDelete
  <2>8. CASE UNCHANGED gVars
    BY <2>8, <2>1 DEF gVars
  <2>9. ASSUME NEW i \in Ids, SweepCancelled(i) PROVE Settles
    BY <2>9 DEF SweepCancelled, Settles, Checkers, At
  <2> QED BY <2>3, <2>4, <2>5, <2>6, <2>7, <2>8, <2>9 DEF GNext
<1> QED BY <1>1, GInvHolds, PTL DEF GSpec, CompletionSettles, Settles

(* The server implements the pool: the end of a process is the pool's      *)
(* Reset, and everything between two of them is the manager's.             *)
THEOREM ServerImplementsPool == GSpec => ImplementsPool
<1>1. GInit => Pool!Init
  BY PoolInit DEF GInit
<1>2. GInv /\ [GNext]_gVars => [Pool!Next]_(Pool!vars)
  <2> SUFFICES ASSUME GInv, [GNext]_gVars PROVE [Pool!Next]_(Pool!vars)
    OBVIOUS
  <2>1. ASSUME [SMNext]_smVars PROVE [Pool!Next]_(Pool!vars)
    BY <2>1, PoolStep DEF GInv
  <2>2. ASSUME UNCHANGED managerVars PROVE [Pool!Next]_(Pool!vars)
    BY <2>2, PoolStutter DEF managerVars, Preparing, At
  <2>3. CASE Crash \/ Exit
    <3>1. Preparing' = {} /\ sessions' = {}
      BY <2>3 DEF Crash, Exit, Halt, Preparing, At
    <3> QED BY <3>1 DEF Pool!Next, Pool!Reset
  <2>4. CASE \/ Serve
             \/ \E c \in Calls : Call(c)
             \/ \E i \in Ids : Controller(i)
    BY <2>4, <2>1, ManagerStep
  <2>5. CASE Listen
    BY <2>5, <2>1 DEF Listen
  <2>6. CASE Stop
    BY <2>6, <2>2 DEF Stop
  <2>7. CASE \/ \E out \in {"ok", "failed"} : Boot(out)
             \/ \E i \in Ids : CleanupTimesOut(i) \/ \E out \in Outcomes : CleanupDelete(i, out)
    BY <2>7, <2>2 DEF Boot, CleanupTimesOut, CleanupDelete
  <2>8. CASE UNCHANGED gVars
    BY <2>8, <2>1 DEF gVars
  <2>9. ASSUME NEW i \in Ids, SweepCancelled(i) PROVE [Pool!Next]_(Pool!vars)
    BY <2>9, PoolStutter DEF SweepCancelled, Preparing, At
  <2> QED BY <2>3, <2>4, <2>5, <2>6, <2>7, <2>8, <2>9 DEF GNext
<1> QED BY <1>1, <1>2, GInvHolds, PTL DEF GSpec, ImplementsPool, Pool!Spec
=============================================================================
