-------------------------- MODULE EnvironmentProofs --------------------------
(***************************************************************************)
(* That a session in the map has its environment, whatever Create, Check,  *)
(* Delete, the sweeper and failing kubectl commands do meanwhile; and what *)
(* the manager promises its callers: that it implements SessionPool, and   *)
(* that a completed session stays completed.                               *)
(***************************************************************************)
EXTENDS SessionManagerProofs

(* What Provision has put into the namespace when it is at a step.         *)
Done == [label |-> {}, apply |-> {"labels"}, setup |-> {"labels", "manifest"},
         wait |-> {"labels", "manifest", "scenario"}, ready |-> Parts]

Built(c) ==
  step[c] \in DOMAIN Done =>
    phase[target[c]] = "active" /\ Done[step[c]] \subseteq content[target[c]]

(* Nobody else refers to the name a call builds under.                     *)
Alone(c) ==
  /\ target[c] \notin sessions \cup sweep
  /\ \A d \in Calls \ {c} : pc[d] \in Bound => target[d] # target[c]

(* The inductive invariant.  A namespace is deleted only under names that  *)
(* have left the map, and enters the map only from a call that built it    *)
(* alone.                                                                  *)
EnvInv ==
  /\ \A c \in Calls : pc[c] = "provision" => Alone(c) /\ Built(c)
  /\ \A c \in Calls : pc[c] = "delete" => target[c] \notin sessions
  /\ sweep \cap sessions = {}
  /\ RegisteredHasNamespace

-----------------------------------------------------------------------------
(* A command that fills a namespace touches only that one, and goes on to  *)
(* the next step only with its part in place.                              *)
LEMMA FillFrame ==
  ASSUME KTypeOK, NEW c \in Calls, target[c] \in Ids, NEW at \in Filling,
         NEW part \in Parts, NEW next \in DOMAIN Done, NEW out \in Outcomes,
         Built(c), Done[next] = Done[at] \cup {part}, Fill(c, at, part, next, out)
  PROVE  /\ \A j \in Ids \ {target[c]} : phase'[j] = phase[j] /\ content'[j] = content[j]
         /\ \A d \in Calls \ {c} : step'[d] = step[d]
         /\ UNCHANGED target
         /\ Built(c)'
<1>1. /\ \A j \in Ids \ {target[c]} : phase'[j] = phase[j] /\ content'[j] = content[j]
      /\ \A d \in Calls \ {c} : step'[d] = step[d]
      /\ UNCHANGED <<target, phase>>
  BY DEF Fill, KTypeOK
<1>2. CASE out = "ok"
  <2>1. step'[c] = next /\ content'[target[c]] = content[target[c]] \cup {part}
    BY <1>2 DEF Fill, KTypeOK
  <2>2. at \in DOMAIN Done
    BY DEF Done, Filling
  <2>3. phase[target[c]] = "active" /\ Done[at] \subseteq content[target[c]]
    BY <2>2 DEF Fill, Built
  <2> QED BY <1>1, <2>1, <2>3 DEF Built
<1>3. CASE out # "ok"
  <2>1. step'[c] \in {"failed", "undo"}
    BY <1>3 DEF Fill, KTypeOK, OnError
  <2> QED BY <1>1, <2>1 DEF Built, Done
<1> QED BY <1>1, <1>2, <1>3

(* Every command of Provision touches only the namespace of its call, and  *)
(* leaves it built as far as the call has come (kubectl.go:24-54).         *)
LEMMA ProvisionFrame ==
  ASSUME KTypeOK, NEW c \in Calls, target[c] \in Ids, Built(c), ProvisionStep(c)
  PROVE  /\ \A j \in Ids \ {target[c]} : phase'[j] = phase[j] /\ content'[j] = content[j]
         /\ \A d \in Calls \ {c} : step'[d] = step[d]
         /\ UNCHANGED target
         /\ Built(c)'
<1> DEFINE Goal ==
      /\ \A j \in Ids \ {target[c]} : phase'[j] = phase[j] /\ content'[j] = content[j]
      /\ \A d \in Calls \ {c} : step'[d] = step[d]
      /\ UNCHANGED target
      /\ Built(c)'
<1>1. CASE AlreadyExists(c)
  <2>1. step'[c] = "failed"
    BY <1>1 DEF AlreadyExists, KTypeOK, OnError
  <2> QED BY <1>1, <2>1 DEF AlreadyExists, clusterVars, KTypeOK, Built, Done
<1>2. ASSUME NEW out \in Outcomes, CreateNamespace(c, out) PROVE Goal
  <2>1. /\ \A j \in Ids \ {target[c]} : phase'[j] = phase[j] /\ content'[j] = content[j]
        /\ \A d \in Calls \ {c} : step'[d] = step[d]
        /\ UNCHANGED target
    BY <1>2 DEF CreateNamespace, KTypeOK
  <2>2. CASE out = "ok"
    <3>1. step'[c] = "label" /\ phase'[target[c]] = "active" /\ target' = target
      BY <1>2, <2>2 DEF CreateNamespace, KTypeOK
    <3> QED BY <2>1, <3>1 DEF Built, Done
  <2>3. CASE out # "ok"
    <3>1. step'[c] = "failed"
      BY <1>2, <2>3 DEF CreateNamespace, KTypeOK, OnError
    <3> QED BY <2>1, <3>1 DEF Built, Done
  <2> QED BY <2>1, <2>2, <2>3
<1>3. ASSUME NEW out \in Outcomes, LabelNamespace(c, out) PROVE Goal
  BY <1>3, FillFrame DEF LabelNamespace, Done, Filling, Parts
<1>4. ASSUME NEW out \in Outcomes, ApplyManifest(c, out) PROVE Goal
  BY <1>4, FillFrame DEF ApplyManifest, Done, Filling, Parts
<1>5. ASSUME NEW out \in Outcomes, RunSetup(c, out) PROVE Goal
  BY <1>5, FillFrame DEF RunSetup, Done, Filling, Parts
<1>6. ASSUME NEW out \in Outcomes, WaitToolbox(c, out) PROVE Goal
  BY <1>6, FillFrame DEF WaitToolbox, Done, Filling, Parts
<1>7. ASSUME NEW out \in Outcomes, Undo(c, out) PROVE Goal
  <2>1. step'[c] = "failed" /\ \A d \in Calls \ {c} : step'[d] = step[d]
    BY <1>7 DEF Undo, KTypeOK
  <2>2. \A j \in Ids \ {target[c]} : phase'[j] = phase[j] /\ content'[j] = content[j]
    BY <1>7, DeleteFrame DEF Undo
  <2> QED BY <1>7, <2>1, <2>2 DEF Undo, Built, Done
<1> QED BY <1>1, <1>2, <1>3, <1>4, <1>5, <1>6, <1>7 DEF ProvisionStep

-----------------------------------------------------------------------------
(* Nothing is held before the first request.                               *)
LEMMA EnvInit == SMInit => EnvInv
BY DEF SMInit, EnvInv, RegisteredHasNamespace

(* Steps that touch neither a namespace nor a name: only goroutines that   *)
(* build nothing move, and the map only shrinks.                           *)
LEMMA EnvQuiet ==
  ASSUME PlacesInv, EnvInv, sessions' \subseteq sessions, UNCHANGED <<phase, content, step>>,
         sweep' \subseteq sweep \cup sessions, sweep' \cap sessions' = {},
         \A d \in Calls : pc'[d] = "provision" => pc[d] = "provision" /\ target'[d] = target[d],
         \A d \in Calls : pc'[d] = "delete" => target'[d] \notin sessions',
         \A d \in Calls : pc'[d] \in Bound =>
            target'[d] \in sessions \/ (pc[d] \in Bound /\ target'[d] = target[d])
  PROVE  EnvInv'
<1>1. ASSUME NEW c \in Calls, pc'[c] = "provision" PROVE Alone(c)' /\ Built(c)'
  <2>1. pc[c] = "provision" /\ target'[c] = target[c] /\ Alone(c) /\ Built(c)
    BY <1>1 DEF EnvInv
  <2> QED BY <2>1 DEF Alone, Built
<1>2. RegisteredHasNamespace'
  BY DEF EnvInv, RegisteredHasNamespace
<1> QED BY <1>1, <1>2 DEF EnvInv

(* A namespace under one name changes: no session has it, and no call      *)
(* builds there but, perhaps, the one that makes the change.               *)
LEMMA EnvTouch ==
  ASSUME PlacesInv, EnvInv, NEW i \in Ids, i \notin sessions,
         \A j \in Ids \ {i} : phase'[j] = phase[j] /\ content'[j] = content[j],
         UNCHANGED sessions, sweep' \subseteq sweep,
         \A d \in Calls : pc'[d] \in Bound => pc[d] = pc'[d] /\ target'[d] = target[d],
         \A d \in Calls : pc'[d] = "provision" =>
            Built(d)' \/ (target[d] # i /\ step'[d] = step[d])
  PROVE  EnvInv'
<1>1. ASSUME NEW c \in Calls, pc'[c] = "provision" PROVE Alone(c)' /\ Built(c)'
  <2>1. pc[c] = "provision" /\ target'[c] = target[c] /\ target[c] \in Ids
    BY <1>1 DEF Bound, PlacesInv, TargetOK
  <2>2. Alone(c) /\ Built(c)
    BY <2>1 DEF EnvInv
  <2>3. Alone(c)'
    BY <2>1, <2>2 DEF Alone
  <2>4. Built(c)'
    BY <1>1, <2>1, <2>2 DEF Built
  <2> QED BY <2>3, <2>4
<1>2. RegisteredHasNamespace'
  BY DEF EnvInv, RegisteredHasNamespace, PlacesInv, SMTypeOK
<1>3. \A c \in Calls : pc'[c] = "delete" => target'[c] \notin sessions'
  BY DEF EnvInv, Bound, Deleting
<1> QED BY <1>1, <1>2, <1>3 DEF EnvInv

(* An entry put in an empty place.                                         *)
LEMMA InsertEnv ==
  ASSUME PlacesInv, EnvInv, NEW c \in Calls, Insert(c)
  PROVE  EnvInv'
<1>1. /\ pc[c] = "provision" /\ step[c] = "ready" /\ target[c] \in Ids
      /\ sessions' = sessions \cup {target[c]}
      /\ UNCHANGED <<phase, content, sweep>>
  BY DEF Insert, Return, clusterVars, PlacesInv, TargetOK, Bound
<1>2. Alone(c) /\ Built(c)
  BY <1>1 DEF EnvInv
<1>3. phase[target[c]] = "active" /\ content[target[c]] = Parts
  <2>1. content[target[c]] \subseteq Parts
    BY <1>1 DEF PlacesInv, SMTypeOK, KTypeOK
  <2>2. "ready" \in DOMAIN Done /\ Done["ready"] = Parts
    BY DEF Done
  <2> QED BY <1>1, <1>2, <2>1, <2>2 DEF Built
<1>4. \A d \in Calls \ {c} :
        /\ pc'[d] = pc[d] /\ target'[d] = target[d] /\ step'[d] = step[d]
        /\ pc[d] \in Bound => target[d] # target[c]
  BY <1>2 DEF Insert, Goto, Return, PlacesInv, SMTypeOK, KTypeOK, Alone
<1>5. pc'[c] = "release"
  BY DEF Insert, Goto, PlacesInv, SMTypeOK
<1>6. ASSUME NEW d \in Calls, pc'[d] = "provision" PROVE Alone(d)' /\ Built(d)'
  <2>1. d # c
    BY <1>5, <1>6
  <2>2. /\ pc[d] = "provision" /\ target'[d] = target[d] /\ step'[d] = step[d]
        /\ target[d] # target[c]
    BY <1>4, <1>6, <2>1 DEF Bound
  <2>3. Alone(d) /\ Built(d)
    BY <2>2 DEF EnvInv
  <2>4. Built(d)'
    BY <1>1, <2>2, <2>3 DEF Built
  <2>5. ASSUME NEW e \in Calls \ {d}, pc'[e] \in Bound PROVE target'[e] # target'[d]
    <3>1. e # c
      BY <1>5, <2>5 DEF Bound, Checking, Deleting
    <3> QED BY <1>4, <2>2, <2>3, <2>5, <3>1 DEF Alone
  <2> QED BY <1>1, <2>2, <2>3, <2>4, <2>5 DEF Alone
<1>7. ASSUME NEW d \in Calls, pc'[d] = "delete" PROVE target'[d] \notin sessions'
  <2>1. d # c
    BY <1>5, <1>7
  <2> QED BY <1>1, <1>4, <1>7, <2>1 DEF EnvInv, Bound, Deleting
<1>8. RegisteredHasNamespace'
  BY <1>1, <1>3 DEF EnvInv, RegisteredHasNamespace
<1>9. sweep' \cap sessions' = {}
  BY <1>1, <1>2 DEF EnvInv, Alone
<1> QED BY <1>6, <1>7, <1>8, <1>9 DEF EnvInv

(* createID and the entry of reserve, on one identifier.                   *)
LEMMA ChooseIdEnv ==
  ASSUME PlacesInv, EnvInv, NEW c \in Calls, NEW i \in Ids, ChooseId(c, i)
  PROVE  EnvInv'
<1>1. /\ UNCHANGED <<phase, content, sessions, sweep>>
      /\ pc'[c] = "provision" /\ target'[c] = i /\ step'[c] = "create"
      /\ \A d \in Calls \ {c} : pc'[d] = pc[d] /\ target'[d] = target[d] /\ step'[d] = step[d]
  BY DEF ChooseId, Provision, Goto, clusterVars, PlacesInv, SMTypeOK, KTypeOK
<1>2. i \notin sessions \cup sweep /\ \A d \in Calls : target[d] # i
  BY DEF ChooseId, Fresh
<1>3. Alone(c)' /\ Built(c)'
  BY <1>1, <1>2 DEF Alone, Built, Done
<1>4. ASSUME NEW d \in Calls \ {c}, pc'[d] = "provision" PROVE Alone(d)' /\ Built(d)'
  <2>1. Alone(d) /\ Built(d) /\ target'[d] = target[d] /\ step'[d] = step[d]
    BY <1>1, <1>4 DEF EnvInv
  <2>2. Built(d)'
    BY <1>1, <2>1 DEF Built
  <2>3. Alone(d)'
    BY <1>1, <1>2, <2>1 DEF Alone
  <2> QED BY <2>2, <2>3
<1>5. \A d \in Calls : pc'[d] = "delete" => target'[d] \notin sessions'
  BY <1>1 DEF EnvInv
<1> QED BY <1>1, <1>3, <1>4, <1>5 DEF EnvInv, RegisteredHasNamespace

(* Every step of the manager keeps the environments.                       *)
LEMMA EnvStep == PlacesInv /\ EnvInv /\ [SMNext]_smVars => EnvInv'
<1> SUFFICES ASSUME PlacesInv, EnvInv, [SMNext]_smVars PROVE EnvInv'
  OBVIOUS
<1> USE DEF PlacesInv, SMTypeOK, KTypeOK
<1>1. ASSUME NEW c \in Calls, Admit(c) \/ Reject(c) \/ Release(c) PROVE EnvInv'
  <2>1. /\ UNCHANGED <<phase, content, step, target, sessions, sweep>>
        /\ \A d \in Calls : pc'[d] = pc[d] \/ pc'[d] \in {"reserved", "release", "idle"}
    BY <1>1 DEF Admit, Reject, Release, Goto, kubectlVars
  <2> QED BY <2>1, EnvQuiet DEF EnvInv, Bound, Checking, Deleting
<1>2. ASSUME NEW c \in Calls, NEW i \in Ids, CheckStart(c, i) \/ DeleteStart(c, i)
      PROVE  EnvInv'
  <2>1. /\ UNCHANGED <<phase, content, step, sessions, sweep>>
        /\ pc'[c] \in {"grade", "unregister"} /\ target'[c] \in sessions
        /\ \A d \in Calls \ {c} : pc'[d] = pc[d] /\ target'[d] = target[d]
    BY <1>2 DEF CheckStart, DeleteStart, Authorized, Goto, clusterVars
  <2>2. \A d \in Calls : pc'[d] = "provision" => pc[d] = "provision" /\ target'[d] = target[d]
    BY <2>1
  <2>3. \A d \in Calls : pc'[d] = "delete" => target'[d] \notin sessions'
    BY <2>1 DEF EnvInv
  <2>4. \A d \in Calls : pc'[d] \in Bound =>
           target'[d] \in sessions \/ (pc[d] \in Bound /\ target'[d] = target[d])
    BY <2>1
  <2>5. sweep' \cap sessions' = {}
    BY <2>1 DEF EnvInv
  <2> HIDE DEF PlacesInv
  <2> QED BY <2>1, <2>2, <2>3, <2>4, <2>5, EnvQuiet
<1>3. ASSUME NEW c \in Calls, NEW i \in Ids, ChooseId(c, i) PROVE EnvInv'
  BY <1>3, ChooseIdEnv
<1>4. ASSUME NEW c \in Calls, ProvisionCommand(c) PROVE EnvInv'
  <2>1. pc[c] = "provision" /\ UNCHANGED <<sessions, sweep, pc>>
    BY <1>4 DEF ProvisionCommand, managerVars
  <2>2. target[c] \in Ids /\ Alone(c) /\ Built(c)
    BY <2>1 DEF TargetOK, Bound, EnvInv
  <2>3. /\ \A j \in Ids \ {target[c]} : phase'[j] = phase[j] /\ content'[j] = content[j]
        /\ \A d \in Calls \ {c} : step'[d] = step[d]
        /\ UNCHANGED target
        /\ Built(c)'
    BY <1>4, <2>2, ProvisionFrame DEF ProvisionCommand
  <2>4. target[c] \notin sessions /\ \A d \in Calls \ {c} : pc[d] = "provision" => target[d] # target[c]
    BY <2>2 DEF Alone, Bound
  <2>5. ASSUME NEW d \in Calls, pc'[d] = "provision"
        PROVE  Built(d)' \/ (target[d] # target[c] /\ step'[d] = step[d])
    BY <2>1, <2>3, <2>4, <2>5
  <2>6. \A d \in Calls : pc'[d] \in Bound => pc[d] = pc'[d] /\ target'[d] = target[d]
    BY <2>1, <2>3
  <2> HIDE DEF PlacesInv
  <2> QED BY <2>1, <2>2, <2>3, <2>4, <2>5, <2>6, EnvTouch
<1>5. ASSUME NEW c \in Calls, Insert(c) PROVE EnvInv'
  BY <1>5, InsertEnv
<1>6. ASSUME NEW c \in Calls, ProvisionFailed(c) PROVE EnvInv'
  <2>1. /\ UNCHANGED <<phase, content, sessions, sweep>>
        /\ pc'[c] = "release" /\ pc[c] = "provision" /\ target[c] \in Ids
        /\ \A d \in Calls \ {c} : pc'[d] = pc[d] /\ target'[d] = target[d] /\ step'[d] = step[d]
    BY <1>6 DEF ProvisionFailed, Return, Goto, clusterVars, TargetOK, Bound
  <2>2. Alone(c)
    BY <2>1 DEF EnvInv
  <2>3. target[c] \notin sessions /\ \A d \in Calls \ {c} : pc[d] = "provision" => target[d] # target[c]
    BY <2>2 DEF Alone, Bound
  <2>4. \A d \in Calls : pc'[d] \in Bound => d # c
    BY <2>1 DEF Bound, Checking, Deleting
  <2>5. \A d \in Calls : pc'[d] = "provision" => d # c
    BY <2>1
  <2> QED BY <2>1, <2>3, <2>4, <2>5, EnvTouch
<1>7. ASSUME NEW c \in Calls, NEW verdict \in {"pass", "fail"}, Grade(c, verdict)
      PROVE  EnvInv'
  <2>1. /\ UNCHANGED <<phase, content, step, target, sessions, sweep>>
        /\ pc[c] = "grade" /\ pc'[c] = verdict
        /\ \A d \in Calls \ {c} : pc'[d] = pc[d]
    BY <1>7 DEF Grade, Goto, kubectlVars
  <2>2. \A d \in Calls : pc'[d] \in Bound => pc[d] \in Bound
    BY <2>1 DEF Bound, Checking
  <2> QED BY <2>1, <2>2, EnvQuiet DEF EnvInv
<1>8. ASSUME NEW c \in Calls, Record(c) PROVE EnvInv'
  <2>1. /\ UNCHANGED <<phase, content, step, sessions, sweep>>
        /\ pc'[c] = "idle"
        /\ \A d \in Calls \ {c} : pc'[d] = pc[d] /\ target'[d] = target[d]
    BY <1>8 DEF Record, Finish, Goto, clusterVars
  <2>2. "idle" \notin Bound
    BY DEF Bound, Checking, Deleting
  <2> QED BY <2>1, <2>2, EnvQuiet DEF EnvInv
<1>9. ASSUME NEW c \in Calls, Unregister(c) PROVE EnvInv'
  <2>1. /\ UNCHANGED <<phase, content, step, target, sweep>>
        /\ sessions' = sessions \ {target[c]}
        /\ pc[c] = "unregister" /\ pc'[c] = "delete"
        /\ \A d \in Calls \ {c} : pc'[d] = pc[d]
    BY <1>9 DEF Unregister, Remove, Goto, kubectlVars
  <2>2. \A d \in Calls : pc'[d] \in Bound => pc[d] \in Bound
    BY <2>1 DEF Bound, Deleting
  <2>3. \A d \in Calls : pc'[d] = "delete" => target'[d] \notin sessions'
    BY <2>1 DEF EnvInv
  <2> QED BY <2>1, <2>2, <2>3, EnvQuiet DEF EnvInv
<1>10. ASSUME NEW c \in Calls, NEW out \in Outcomes, DeleteEnvironment(c, out)
       PROVE  EnvInv'
  <2>1. /\ UNCHANGED <<step, sessions, sweep>>
        /\ pc[c] = "delete" /\ pc'[c] = "idle" /\ target[c] \in Ids
        /\ \A d \in Calls \ {c} : pc'[d] = pc[d] /\ target'[d] = target[d]
    BY <1>10 DEF DeleteEnvironment, Finish, Goto, TargetOK, Bound, Deleting
  <2>2. /\ \A j \in Ids \ {target[c]} : phase'[j] = phase[j] /\ content'[j] = content[j]
        /\ target[c] \notin sessions
    BY <1>10, <2>1, DeleteFrame DEF DeleteEnvironment, EnvInv
  <2>3. \A d \in Calls : pc[d] = "provision" => target[d] # target[c]
    BY <2>1 DEF EnvInv, Alone, Bound, Deleting
  <2>4. \A d \in Calls : pc'[d] \in Bound => d # c
    BY <2>1 DEF Bound, Checking, Deleting
  <2>5. \A d \in Calls : pc'[d] = "provision" => d # c
    BY <2>1
  <2> QED BY <2>1, <2>2, <2>3, <2>4, <2>5, EnvTouch
<1>11. ASSUME SweepStart PROVE EnvInv'
  <2>1. /\ UNCHANGED <<phase, content, step, target, pc>>
        /\ sessions' = sessions \ expired /\ sweep' = expired
    BY <1>11 DEF SweepStart, Remove, kubectlVars
  <2> QED BY <2>1, EnvQuiet DEF EnvInv
<1>12. ASSUME NEW i \in Ids, NEW out \in Outcomes, SweepDelete(i, out) PROVE EnvInv'
  <2>1. /\ UNCHANGED <<pc, step, target, sessions>> /\ sweep' \subseteq sweep
        /\ i \in sweep /\ i \notin sessions
    BY <1>12 DEF SweepDelete, EnvInv
  <2>2. \A j \in Ids \ {i} : phase'[j] = phase[j] /\ content'[j] = content[j]
    BY <1>12, DeleteFrame DEF SweepDelete
  <2>3. \A d \in Calls : pc[d] = "provision" => target[d] # i
    BY <2>1 DEF EnvInv, Alone
  <2> QED BY <2>1, <2>2, <2>3, EnvTouch
<1>13. ASSUME NEW i \in Ids, Expire(i) PROVE EnvInv'
  BY <1>13, EnvQuiet DEF Expire, kubectlVars, EnvInv
<1>14. ASSUME NEW i \in Ids, SMFinalize(i) PROVE EnvInv'
  <2>1. /\ phase[i] = "terminating"
        /\ \A j \in Ids \ {i} : phase'[j] = phase[j] /\ content'[j] = content[j]
        /\ UNCHANGED <<pc, step, target, sessions, sweep>>
    BY <1>14 DEF SMFinalize, Finalize, managerVars
  <2>2. i \notin sessions
    BY <2>1 DEF EnvInv, RegisteredHasNamespace
  <2>3. ASSUME NEW d \in Calls, pc'[d] = "provision"
        PROVE  Built(d)' \/ (target[d] # i /\ step'[d] = step[d])
    <3>1. Built(d) /\ step'[d] = step[d] /\ target'[d] = target[d]
      BY <2>1, <2>3 DEF EnvInv
    <3>2. CASE step[d] \in DOMAIN Done
      BY <2>1, <3>1, <3>2 DEF Built
    <3>3. CASE step[d] \notin DOMAIN Done
      BY <3>1, <3>3 DEF Built
    <3> QED BY <3>2, <3>3
  <2> QED BY <2>1, <2>2, <2>3, EnvTouch
<1>15. CASE UNCHANGED smVars
  BY <1>15, EnvQuiet DEF smVars, managerVars, kubectlVars, EnvInv
<1> QED BY <1>1, <1>2, <1>3, <1>4, <1>5, <1>6, <1>7, <1>8, <1>9, <1>10, <1>11, <1>12,
           <1>13, <1>14, <1>15
        DEF SMNext, Request, CallStep, SweepStep

(* In every state of the manager and its environments, the places and the  *)
(* namespaces agree (session.go:45-214).                                   *)
THEOREM EnvironmentInvariant == SMSpec => [](PlacesInv /\ EnvInv)
BY PlacesInit, PlacesStep, EnvInit, EnvStep, PTL DEF SMSpec

(* A session in the map has its namespace, active and complete, however    *)
(* many calls, sweeps and failures there are (session.go:84-90, 135-138).  *)
THEOREM RegisteredHasItsNamespace == SMSpec => []RegisteredHasNamespace
BY EnvironmentInvariant, PTL DEF EnvInv

-----------------------------------------------------------------------------
(***************************************************************************)
(* SessionPool                                                             *)
(***************************************************************************)

(* A manager at its start is an empty pool.                                *)
LEMMA PoolInit == SMInit => Pool!Init
BY DEF SMInit, Pool!Init, Preparing, At

(* A step that leaves the calls in Create and the map as they are.         *)
LEMMA PoolStutter ==
  ASSUME Preparing' = Preparing, UNCHANGED sessions
  PROVE  [Pool!Next]_(Pool!vars)
BY DEF Pool!vars

(* A goroutine that moves enters or leaves the callers being prepared for. *)
LEMMA PreparingMoves ==
  ASSUME pc \in [Calls -> PCs], NEW c \in Calls, NEW label \in PCs, Goto(c, label)
  PROVE  /\ c \in Preparing <=> pc[c] \in {"reserved", "provision"}
         /\ label \in {"reserved", "provision"} => Preparing' = Preparing \cup {c}
         /\ label \notin {"reserved", "provision"} => Preparing' = Preparing \ {c}
<1>1. c \in Preparing <=> pc[c] \in {"reserved", "provision"}
  BY DEF Preparing, At
<1>2. Preparing' = IF label \in {"reserved", "provision"} THEN Preparing \cup {c}
                                                          ELSE Preparing \ {c}
  BY GotoAt DEF Preparing
<1> QED BY <1>1, <1>2

(* Every step of the manager is a step of the pool or leaves it alone.     *)
LEMMA PoolStep == PlacesInv /\ EnvInv /\ [SMNext]_smVars => [Pool!Next]_(Pool!vars)
<1> SUFFICES ASSUME PlacesInv, EnvInv, [SMNext]_smVars PROVE [Pool!Next]_(Pool!vars)
  OBVIOUS
<1>a. pc \in [Calls -> PCs] /\ sessions \subseteq Ids /\ expired \subseteq sessions
  BY DEF PlacesInv, SMTypeOK
<1>1. ASSUME NEW c \in Calls, Admit(c) PROVE Pool!Next
  <2>1. Preparing' = Preparing \cup {c} /\ c \notin Preparing
    BY <1>1, <1>a, PreparingMoves DEF Admit, PCs
  <2>2. Preparing \subseteq Holding
    BY DEF Preparing, Holding, At
  <2>3. Cardinality(Preparing) <= Cardinality(Holding)
    BY <2>2, AtFinite, FS_Subset DEF Holding
  <2>4. Cardinality(sessions) \in Nat /\ Cardinality(Preparing) \in Nat /\ Cardinality(Holding) \in Nat
    BY <1>a, SessionsFinite, AtFinite DEF Preparing, Holding
  <2>5. Cardinality(Preparing) + Cardinality(sessions) < Max
    BY <1>1, <2>3, <2>4, MaxAssumption DEF Admit, Full, PlacesInv, PendingExact
  <2>6. UNCHANGED sessions
    BY <1>1 DEF Admit
  <2>7. \A S : Pool!Cardinality(S) = Cardinality(S)
    BY DEF Pool!Cardinality, Cardinality
  <2>8. Pool!Reserve(c)
    BY <2>1, <2>5, <2>6, <2>7 DEF Pool!Reserve
  <2> QED BY <2>8 DEF Pool!Next
<1>2. ASSUME NEW c \in Calls, Reject(c) \/ ProvisionFailed(c) PROVE Pool!Next
  <2>1. pc[c] \in {"reserved", "provision"} /\ Goto(c, "release") /\ UNCHANGED sessions
    BY <1>2 DEF Reject, ProvisionFailed
  <2>2. Preparing' = Preparing \ {c} /\ c \in Preparing
    BY <2>1, <1>a, PreparingMoves DEF PCs
  <2> QED BY <2>1, <2>2 DEF Pool!Next, Pool!Abort
<1>3. ASSUME NEW c \in Calls, Insert(c) PROVE Pool!Next
  <2>1. /\ pc[c] = "provision" /\ Goto(c, "release")
        /\ sessions' = sessions \cup {target[c]}
    BY <1>3 DEF Insert
  <2>2. Preparing' = Preparing \ {c} /\ c \in Preparing
    BY <2>1, <1>a, PreparingMoves DEF PCs
  <2>3. target[c] \in Ids /\ target[c] \notin sessions
    BY <2>1 DEF PlacesInv, TargetOK, Bound, EnvInv, Alone
  <2> QED BY <2>1, <2>2, <2>3 DEF Pool!Next, Pool!Activate
<1>4. ASSUME NEW c \in Calls, NEW i \in Ids, ChooseId(c, i) PROVE [Pool!Next]_(Pool!vars)
  <2>1. pc[c] = "reserved" /\ Goto(c, "provision") /\ UNCHANGED sessions
    BY <1>4 DEF ChooseId
  <2>2. Preparing' = Preparing \cup {c} /\ c \in Preparing
    BY <2>1, <1>a, PreparingMoves DEF PCs
  <2> QED BY <2>1, <2>2, PoolStutter
<1>5. ASSUME NEW c \in Calls, Release(c) PROVE [Pool!Next]_(Pool!vars)
  <2>1. pc[c] = "release" /\ Goto(c, "idle") /\ UNCHANGED sessions
    BY <1>5 DEF Release
  <2>2. Preparing' = Preparing \ {c} /\ c \notin Preparing
    BY <2>1, <1>a, PreparingMoves DEF PCs
  <2> QED BY <2>1, <2>2, PoolStutter
<1>6. ASSUME NEW c \in Calls, NEW label \in {"idle"} \cup Checking \cup Deleting,
             pc[c] \in {"idle"} \cup Checking \cup Deleting, Goto(c, label), UNCHANGED sessions
      PROVE  [Pool!Next]_(Pool!vars)
  BY <1>6, OutsideCreate, PoolStutter
<1>7. ASSUME NEW c \in Calls, Unregister(c) PROVE [Pool!Next]_(Pool!vars)
  <2>1. Preparing' = Preparing
    BY <1>7, OutsideCreate DEF Unregister, Deleting
  <2>2. sessions' = sessions \ {target[c]} /\ target[c] \in Ids
    BY <1>7 DEF Unregister, Remove, PlacesInv, TargetOK, Bound, Deleting
  <2>3. CASE target[c] \in sessions
    <3>1. Pool!Leave({target[c]})
      BY <2>1, <2>2, <2>3 DEF Pool!Leave
    <3> QED BY <2>2, <3>1 DEF Pool!Next
  <2>4. CASE target[c] \notin sessions
    BY <2>1, <2>2, <2>4, PoolStutter
  <2> QED BY <2>3, <2>4
<1>8. ASSUME SweepStart PROVE [Pool!Next]_(Pool!vars)
  <2>1. Preparing' = Preparing
    BY <1>8 DEF SweepStart, Preparing, At
  <2>2. Pool!Leave(expired)
    BY <1>8, <1>a, <2>1 DEF SweepStart, Remove, Pool!Leave
  <2> QED BY <1>a, <2>2 DEF Pool!Next
<1>9. ASSUME UNCHANGED <<pc, sessions>> PROVE [Pool!Next]_(Pool!vars)
  BY <1>9, PoolStutter DEF Preparing, At
<1>10. ASSUME NEW c \in Calls, Request(c) \/ CallStep(c) PROVE [Pool!Next]_(Pool!vars)
  <2>1. ASSUME NEW i \in Ids, CheckStart(c, i) \/ DeleteStart(c, i)
        PROVE  [Pool!Next]_(Pool!vars)
    BY <2>1, <1>6 DEF CheckStart, DeleteStart, Checking, Deleting
  <2>2. ASSUME NEW verdict \in {"pass", "fail"}, Grade(c, verdict)
        PROVE  [Pool!Next]_(Pool!vars)
    BY <2>2, <1>6 DEF Grade, Checking
  <2>3. ASSUME Record(c) PROVE [Pool!Next]_(Pool!vars)
    BY <2>3, <1>6 DEF Record, Finish, Checking
  <2>4. ASSUME NEW out \in Outcomes, DeleteEnvironment(c, out)
        PROVE  [Pool!Next]_(Pool!vars)
    BY <2>4, <1>6 DEF DeleteEnvironment, Finish, Deleting
  <2>5. ASSUME ProvisionCommand(c) PROVE [Pool!Next]_(Pool!vars)
    BY <2>5, <1>9 DEF ProvisionCommand, managerVars
  <2> QED BY <1>10, <1>1, <1>2, <1>3, <1>4, <1>5, <1>7, <2>1, <2>2, <2>3, <2>4, <2>5
          DEF Request, CallStep
<1>11. ASSUME NEW i \in Ids, NEW out \in Outcomes, SweepDelete(i, out)
       PROVE  [Pool!Next]_(Pool!vars)
  BY <1>11, <1>9 DEF SweepDelete
<1>12. ASSUME NEW i \in Ids, Expire(i) \/ SMFinalize(i) PROVE [Pool!Next]_(Pool!vars)
  BY <1>12, <1>9 DEF Expire, SMFinalize, managerVars
<1>13. CASE UNCHANGED smVars
  BY <1>13, <1>9 DEF smVars, managerVars
<1> QED BY <1>8, <1>10, <1>11, <1>12, <1>13 DEF SMNext, SweepStep

(* The session manager implements the pool: a caller's place is reserved   *)
(* under the limit, becomes a session or comes back, and a session leaves  *)
(* once (session.go:52-92, 130-155).                                       *)
THEOREM ManagerImplementsPool == SMSpec => ImplementsPool
<1>1. SMInit => Pool!Init
  BY PoolInit
<1>2. PlacesInv /\ EnvInv /\ [SMNext]_smVars => [Pool!Next]_(Pool!vars)
  BY PoolStep
<1> QED BY <1>1, <1>2, EnvironmentInvariant, PTL DEF SMSpec, ImplementsPool, Pool!Spec

-----------------------------------------------------------------------------
(***************************************************************************)
(* Completed                                                               *)
(***************************************************************************)

(* No step gives a completed session that stays a new check, and the only  *)
(* one that takes a completion back ends a check.                          *)
Settles ==
  \A i \in completed : i \in sessions' =>
    /\ Checkers(i)' \subseteq Checkers(i)
    /\ i \in completed' \/ Checkers(i)' # Checkers(i)

(* Every step of the manager is such a step.                               *)
LEMMA SettlesStep ==
  ASSUME PlacesInv, [SMNext]_smVars
  PROVE  Settles
<1>a. /\ pc \in [Calls -> PCs] /\ target \in [Calls -> Ids \cup {NoId}]
      /\ step \in [Calls -> Steps]
  BY DEF PlacesInv, SMTypeOK, KTypeOK
<1>1. ASSUME completed \cap sessions' \subseteq completed',
             \A d \in Calls : pc'[d] \in Checking => pc[d] \in Checking /\ target'[d] = target[d]
      PROVE  Settles
  BY <1>1 DEF Settles, Checkers, At
<1>2. ASSUME NEW c \in Calls, NEW label \in PCs \ Checking, Goto(c, label),
             completed \cap sessions' \subseteq completed',
             \A d \in Calls \ {c} : target'[d] = target[d]
      PROVE  Settles
  <2>1. \A d \in Calls : pc'[d] \in Checking => pc[d] \in Checking /\ target'[d] = target[d]
    BY <1>2, <1>a DEF Goto
  <2> QED BY <2>1, <1>1, <1>2
<1>3. ASSUME NEW c \in Calls, NEW i \in Ids, CheckStart(c, i) PROVE Settles
  <2>1. /\ UNCHANGED completed /\ i \notin completed
        /\ pc'[c] = "grade" /\ target'[c] = i
        /\ \A d \in Calls \ {c} : pc'[d] = pc[d] /\ target'[d] = target[d]
    BY <1>3, <1>a DEF CheckStart, Goto
  <2> QED BY <2>1 DEF Settles, Checkers, At
<1>4. ASSUME NEW c \in Calls, NEW i \in Ids, DeleteStart(c, i) PROVE Settles
  BY <1>4, <1>2, <1>a DEF DeleteStart, PCs, Checking, Deleting
<1>5. ASSUME NEW c \in Calls, Admit(c) \/ Reject(c) \/ Release(c) PROVE Settles
  BY <1>5, <1>2 DEF Admit, Reject, Release, kubectlVars, PCs, Checking
<1>6. ASSUME NEW c \in Calls, NEW i \in Ids, ChooseId(c, i) PROVE Settles
  BY <1>6, <1>2, <1>a DEF ChooseId, Provision, PCs, Checking
<1>7. ASSUME NEW c \in Calls, ProvisionCommand(c) PROVE Settles
  <2>1. target[c] \in Ids
    BY <1>7 DEF ProvisionCommand, PlacesInv, TargetOK, Bound
  <2>2. UNCHANGED target
    BY <1>7, <2>1, ProvisionStepType DEF ProvisionCommand, PlacesInv, SMTypeOK
  <2> QED BY <1>7, <2>2, <1>1 DEF ProvisionCommand, managerVars
<1>8. ASSUME NEW c \in Calls, Insert(c) \/ ProvisionFailed(c) PROVE Settles
  BY <1>8, <1>2, <1>a DEF Insert, ProvisionFailed, Return, PCs, Checking
<1>9. ASSUME NEW c \in Calls, NEW verdict \in {"pass", "fail"}, Grade(c, verdict)
      PROVE  Settles
  <2>1. \A d \in Calls : pc'[d] \in Checking => pc[d] \in Checking
    BY <1>9, <1>a DEF Grade, Goto, Checking
  <2> QED BY <1>9, <2>1, <1>1 DEF Grade, kubectlVars
<1>10. ASSUME NEW c \in Calls, Record(c) PROVE Settles
  <2>1. /\ pc[c] \in Checking /\ pc'[c] \notin Checking
        /\ \A d \in Calls \ {c} : pc'[d] = pc[d] /\ target'[d] = target[d]
        /\ completed \ {target[c]} \subseteq completed'
    BY <1>10, <1>a DEF Record, Finish, Goto, Checking
  <2>2. \A i : Checkers(i)' \subseteq Checkers(i)
    BY <2>1 DEF Checkers, At
  <2>3. \A i : i = target[c] => c \in Checkers(i) /\ c \notin Checkers(i)'
    BY <2>1 DEF Checkers, At
  <2>4. \A i \in completed : i \in completed' \/ Checkers(i)' # Checkers(i)
    BY <2>1, <2>3
  <2> QED BY <2>2, <2>4 DEF Settles
<1>11. ASSUME NEW c \in Calls, Unregister(c) PROVE Settles
  BY <1>11, <1>2 DEF Unregister, Remove, kubectlVars, PCs, Checking, Deleting
<1>12. ASSUME NEW c \in Calls, NEW out \in Outcomes, DeleteEnvironment(c, out)
       PROVE  Settles
  BY <1>12, <1>2, <1>a DEF DeleteEnvironment, Finish, PCs, Checking
<1>13. CASE SweepStart
  BY <1>13, <1>1 DEF SweepStart, Remove, kubectlVars
<1>14. ASSUME NEW i \in Ids, NEW out \in Outcomes, SweepDelete(i, out)
       PROVE  Settles
  BY <1>14, <1>1 DEF SweepDelete
<1>15. ASSUME NEW i \in Ids, Expire(i) \/ SMFinalize(i) PROVE Settles
  BY <1>15, <1>1 DEF Expire, SMFinalize, Finalize, managerVars, kubectlVars
<1>16. CASE UNCHANGED smVars
  BY <1>16, <1>1 DEF smVars, managerVars, kubectlVars
<1> QED BY <1>3, <1>4, <1>5, <1>6, <1>7, <1>8, <1>9, <1>10, <1>11, <1>12, <1>13, <1>14,
           <1>15, <1>16
        DEF SMNext, Request, CallStep, SweepStep

(* However many checks of one session run at once, only those which were   *)
(* under way when it was completed can take the completion back, each of   *)
(* them once (session.go:107-116).                                         *)
THEOREM CompletionsSettle == SMSpec => CompletionSettles
<1>1. PlacesInv /\ [SMNext]_smVars => [Settles]_smVars
  BY SettlesStep
<1> QED BY <1>1, EnvironmentInvariant, PTL DEF SMSpec, CompletionSettles, Settles
=============================================================================
