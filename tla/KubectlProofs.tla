----------------------------- MODULE KubectlProofs -----------------------------
(***************************************************************************)
(* Proofs about Kubectl with any caller: what Provision leaves in the      *)
(* cluster, for every number of calls, names and failures.                 *)
(***************************************************************************)
EXTENDS Kubectl, TLAPS

(* Between `create' and its end a call has a namespace to itself.          *)
Working == Filling \cup {"undo"}

(* A call that has labelled its namespace, up to its return or its error.  *)
Labelled == {"apply", "setup", "wait"}

TargetsInv == \A c \in Calls : target[c] \in IF step[c] = "idle" THEN {NoId} ELSE Ids

WorkersInv ==
  \A c \in Calls : step[c] \in Working =>
    /\ phase[target[c]] = "active"
    /\ \A d \in Calls \ {c} : step[d] \in Working => target[d] # target[c]

LabelsInv == \A c \in Calls : step[c] \in Labelled => "labels" \in content[target[c]]

(* The inductive invariant: who works in a namespace is alone there, since *)
(* only one `create' succeeds and no other caller deletes it; and no part  *)
(* but the labels comes before the labels.                                 *)
KInv == KTypeOK /\ TargetsInv /\ WorkersInv /\ LabelsInv /\ WorkloadIsLabelled

-----------------------------------------------------------------------------
(***************************************************************************)
(* Types                                                                   *)
(***************************************************************************)

(* kubectl delete keeps the cluster well typed (kubectl.go:60-69).         *)
LEMMA DeleteType ==
  ASSUME KTypeOK, NEW i \in Ids, NEW out \in Outcomes, Delete(i, out)
  PROVE  /\ phase' \in [Ids -> Phases]
         /\ content' \in [Ids -> SUBSET Parts]
         /\ lost' \subseteq Ids
         /\ faults' \in 0..MaxFaults
<1>1. phase' \in [Ids -> Phases]
  BY DEF Delete, KTypeOK, Phases
<1>2. content' \in [Ids -> SUBSET Parts]
  BY DEF Delete, KTypeOK
<1>3. lost' \subseteq Ids
  BY DEF Delete, KTypeOK, Active
<1>4. faults' \in 0..MaxFaults
  BY MaxFaultsAssumption DEF Delete, Run, KTypeOK
<1> QED BY <1>1, <1>2, <1>3, <1>4

(* ... and touches one namespace, which is not active after it, or lost.   *)
LEMMA DeleteFrame ==
  ASSUME KTypeOK, NEW i \in Ids, NEW out \in Outcomes, Delete(i, out)
  PROVE  /\ \A j \in Ids \ {i} : phase'[j] = phase[j] /\ (j \in lost' <=> j \in lost)
         /\ phase'[i] \in {phase[i], "terminating"}
         /\ phase'[i] # "active" \/ i \in lost'
         /\ content' = content
BY DEF Delete, KTypeOK, Active, Outcomes

(* A command that fills a namespace keeps the types (kubectl.go:31-52).    *)
LEMMA FillType ==
  ASSUME KTypeOK, NEW c \in Calls, NEW at \in Steps, NEW part \in Parts,
         NEW next \in Steps, NEW out \in Outcomes, Fill(c, at, part, next, out)
  PROVE  KTypeOK' /\ UNCHANGED target
<1>1. content' \in [Ids -> SUBSET Parts]
  BY DEF Fill, KTypeOK
<1>2. step' \in [Calls -> Steps]
  BY DEF Fill, KTypeOK, OnError, Steps
<1>3. faults' \in 0..MaxFaults
  BY MaxFaultsAssumption DEF Fill, Run, KTypeOK
<1> QED BY <1>1, <1>2, <1>3 DEF Fill, KTypeOK

(* Every command of Provision keeps the types and the call's namespace     *)
(* (kubectl.go:24-54).                                                     *)
LEMMA ProvisionStepType ==
  ASSUME KTypeOK, NEW c \in Calls, target[c] \in Ids, ProvisionStep(c)
  PROVE  KTypeOK' /\ UNCHANGED target
<1>1. CASE AlreadyExists(c)
  BY <1>1 DEF AlreadyExists, KTypeOK, OnError, Steps, clusterVars
<1>2. ASSUME NEW out \in Outcomes, CreateNamespace(c, out)
      PROVE  KTypeOK' /\ UNCHANGED target
  <2>1. phase' \in [Ids -> Phases]
    BY <1>2 DEF CreateNamespace, KTypeOK, Phases
  <2>2. step' \in [Calls -> Steps]
    BY <1>2 DEF CreateNamespace, KTypeOK, OnError, Steps, Filling
  <2>3. faults' \in 0..MaxFaults
    BY <1>2, MaxFaultsAssumption DEF CreateNamespace, Run, KTypeOK
  <2> QED BY <1>2, <2>1, <2>2, <2>3 DEF CreateNamespace, KTypeOK
<1>3. ASSUME NEW out \in Outcomes, LabelNamespace(c, out)
      PROVE  KTypeOK' /\ UNCHANGED target
  BY <1>3, FillType DEF LabelNamespace, Steps, Filling, Parts
<1>4. ASSUME NEW out \in Outcomes, ApplyManifest(c, out)
      PROVE  KTypeOK' /\ UNCHANGED target
  BY <1>4, FillType DEF ApplyManifest, Steps, Filling, Parts
<1>5. ASSUME NEW out \in Outcomes, RunSetup(c, out)
      PROVE  KTypeOK' /\ UNCHANGED target
  BY <1>5, FillType DEF RunSetup, Steps, Filling, Parts
<1>6. ASSUME NEW out \in Outcomes, WaitToolbox(c, out)
      PROVE  KTypeOK' /\ UNCHANGED target
  BY <1>6, FillType DEF WaitToolbox, Steps, Filling, Parts
<1>7. ASSUME NEW out \in Outcomes, Undo(c, out)
      PROVE  KTypeOK' /\ UNCHANGED target
  <2>1. step' \in [Calls -> Steps]
    BY <1>7 DEF Undo, KTypeOK, Steps
  <2>2. Delete(target[c], out)
    BY <1>7 DEF Undo
  <2> QED BY <1>7, <2>1, <2>2, DeleteType DEF Undo, KTypeOK
<1> QED BY <1>1, <1>2, <1>3, <1>4, <1>5, <1>6, <1>7 DEF ProvisionStep

(* Returning from Provision keeps the types.                               *)
LEMMA ReturnType ==
  ASSUME KTypeOK, NEW c \in Calls, Return(c)
  PROVE  KTypeOK'
BY DEF Return, KTypeOK, Steps, clusterVars

-----------------------------------------------------------------------------
(***************************************************************************)
(* One call                                                                *)
(***************************************************************************)

(* The four commands that fill: an error leads to `undo', and only the     *)
(* first of them may be without the labels.                                *)
LEMMA FillStep ==
  ASSUME KInv, NEW c \in Calls, NEW at \in Filling, NEW part \in Parts, NEW out \in Outcomes,
         NEW next \in Labelled \cup {"ready"}, at = "label" => part = "labels",
         at # "label" => at \in Labelled, Fill(c, at, part, next, out)
  PROVE  /\ step[c] = at /\ step'[c] \in {next, "undo"}
         /\ UNCHANGED <<phase, target>>
         /\ \A d \in Calls \ {c} : step'[d] = step[d]
         /\ \A j \in Ids \ {target[c]} : content'[j] = content[j]
         /\ content[target[c]] \subseteq content'[target[c]]
         /\ step'[c] \in Labelled => "labels" \in content'[target[c]]
         /\ content'[target[c]] # {} => "labels" \in content'[target[c]]
<1>1. /\ step[c] = at /\ step'[c] = (IF out = "ok" THEN next ELSE "undo")
      /\ UNCHANGED <<phase, target>>
      /\ \A d \in Calls \ {c} : step'[d] = step[d]
  BY DEF Fill, OnError, KInv, KTypeOK, Filling
<1>2. target[c] \in Ids
  BY <1>1 DEF KInv, TargetsInv, Filling
<1>3. /\ \A j \in Ids \ {target[c]} : content'[j] = content[j]
      /\ content'[target[c]] = IF out = "failed" THEN content[target[c]]
                               ELSE content[target[c]] \cup {part}
  BY <1>2 DEF Fill, KInv, KTypeOK
<1>4. at \in Labelled => "labels" \in content[target[c]]
  BY <1>1 DEF KInv, LabelsInv
<1>5. content[target[c]] # {} => "labels" \in content[target[c]]
  BY <1>2 DEF KInv, WorkloadIsLabelled
<1>6. step'[c] \in Labelled => out = "ok"
  BY <1>1 DEF Labelled
<1>7. CASE at = "label"
  BY <1>1, <1>3, <1>5, <1>6, <1>7
<1>8. CASE at \in Labelled
  BY <1>1, <1>3, <1>4, <1>8
<1> QED BY <1>1, <1>3, <1>7, <1>8

(* What a command of Provision does to its own namespace, and to no other. *)
LEMMA CommandStep ==
  ASSUME KInv, NEW c \in Calls, ProvisionStep(c)
  PROVE  /\ target[c] \in Ids /\ UNCHANGED target
         /\ step[c] # "idle" /\ step'[c] \in Steps \ {"idle"}
         /\ \A d \in Calls \ {c} : step'[d] = step[d]
         /\ \A j \in Ids \ {target[c]} : phase'[j] = phase[j] /\ content'[j] = content[j]
         /\ content[target[c]] \subseteq content'[target[c]]
         /\ step[c] \notin Working => phase[target[c]] = "absent" \/ UNCHANGED phase
         /\ step'[c] \in Working => phase'[target[c]] = "active"
         /\ step'[c] \in Working /\ step[c] \notin Working => phase[target[c]] = "absent"
         /\ step'[c] \in Labelled => "labels" \in content'[target[c]]
         /\ content'[target[c]] # {} => "labels" \in content'[target[c]]
         /\ step[c] \in Working /\ step'[c] = "failed" =>
              phase'[target[c]] # "active" \/ target[c] \in lost'
<1> DEFINE Goal ==
         /\ target[c] \in Ids /\ UNCHANGED target
         /\ step[c] # "idle" /\ step'[c] \in Steps \ {"idle"}
         /\ \A d \in Calls \ {c} : step'[d] = step[d]
         /\ \A j \in Ids \ {target[c]} : phase'[j] = phase[j] /\ content'[j] = content[j]
         /\ content[target[c]] \subseteq content'[target[c]]
         /\ step[c] \notin Working => phase[target[c]] = "absent" \/ UNCHANGED phase
         /\ step'[c] \in Working => phase'[target[c]] = "active"
         /\ step'[c] \in Working /\ step[c] \notin Working => phase[target[c]] = "absent"
         /\ step'[c] \in Labelled => "labels" \in content'[target[c]]
         /\ content'[target[c]] # {} => "labels" \in content'[target[c]]
         /\ step[c] \in Working /\ step'[c] = "failed" =>
              phase'[target[c]] # "active" \/ target[c] \in lost'
<1>a. KTypeOK /\ \A i \in Ids : content[i] # {} => "labels" \in content[i]
  BY DEF KInv, WorkloadIsLabelled
<1>1. step[c] # "idle"
  BY DEF ProvisionStep, AlreadyExists, CreateNamespace, LabelNamespace, ApplyManifest, RunSetup,
         WaitToolbox, Undo, Fill
<1>2. target[c] \in Ids
  BY <1>1 DEF KInv, TargetsInv
<1>3. CASE AlreadyExists(c)
  <2>1. step[c] = "create" /\ step'[c] = "failed" /\ UNCHANGED <<phase, content, target>>
        /\ \A d \in Calls \ {c} : step'[d] = step[d]
    BY <1>3, <1>a DEF AlreadyExists, OnError, clusterVars, KTypeOK
  <2> QED BY <1>a, <1>2, <2>1 DEF Working, Filling, Labelled, Steps
<1>4. ASSUME NEW out \in Outcomes, CreateNamespace(c, out) PROVE Goal
  <2>1. /\ step[c] = "create" /\ UNCHANGED <<content, target>>
        /\ step'[c] = (IF out = "ok" THEN "label" ELSE "failed")
        /\ \A d \in Calls \ {c} : step'[d] = step[d]
    BY <1>4, <1>a DEF CreateNamespace, OnError, KTypeOK
  <2>2. /\ phase[target[c]] = "absent" /\ \A j \in Ids \ {target[c]} : phase'[j] = phase[j]
        /\ out = "ok" => phase'[target[c]] = "active"
    BY <1>4, <1>2, <1>a DEF CreateNamespace, Exists, KTypeOK
  <2> QED BY <1>a, <1>2, <2>1, <2>2 DEF Working, Filling, Labelled, Steps
<1>5. ASSUME NEW at \in Filling, NEW part \in Parts, NEW out \in Outcomes,
             NEW next \in Labelled \cup {"ready"}, at = "label" => part = "labels",
             at # "label" => at \in Labelled, Fill(c, at, part, next, out)
      PROVE  Goal
  <2>1. /\ step[c] = at /\ step'[c] \in {next, "undo"} /\ UNCHANGED <<phase, target>>
        /\ \A d \in Calls \ {c} : step'[d] = step[d]
        /\ \A j \in Ids \ {target[c]} : content'[j] = content[j]
        /\ content[target[c]] \subseteq content'[target[c]]
        /\ step'[c] \in Labelled => "labels" \in content'[target[c]]
        /\ content'[target[c]] # {} => "labels" \in content'[target[c]]
    BY <1>5, FillStep
  <2>2. step[c] \in Working /\ phase[target[c]] = "active"
    BY <2>1 DEF Working, KInv, WorkersInv
  <2>3. step'[c] \in Steps \ {"idle", "failed"}
    BY <2>1 DEF Labelled, Steps, Filling
  <2> QED BY <1>1, <1>2, <2>1, <2>2, <2>3
<1>6. ASSUME NEW out \in Outcomes,
             LabelNamespace(c, out) \/ ApplyManifest(c, out) \/ RunSetup(c, out) \/ WaitToolbox(c, out)
      PROVE  Goal
  BY <1>5, <1>6 DEF LabelNamespace, ApplyManifest, RunSetup, WaitToolbox, Filling, Parts, Labelled
<1>7. ASSUME NEW out \in Outcomes, Undo(c, out) PROVE Goal
  <2>1. /\ step[c] = "undo" /\ step'[c] = "failed" /\ UNCHANGED target
        /\ \A d \in Calls \ {c} : step'[d] = step[d]
    BY <1>7, <1>a DEF Undo, KTypeOK
  <2>2. /\ \A j \in Ids \ {target[c]} : phase'[j] = phase[j]
        /\ phase'[target[c]] # "active" \/ target[c] \in lost'
        /\ content' = content
    BY <1>7, <1>2, <1>a, DeleteFrame DEF Undo
  <2> QED BY <1>a, <1>2, <2>1, <2>2 DEF Working, Filling, Labelled, Steps
<1> QED BY <1>1, <1>2, <1>3, <1>4, <1>6, <1>7 DEF ProvisionStep

-----------------------------------------------------------------------------
(***************************************************************************)
(* All calls, any caller                                                   *)
(***************************************************************************)

(* The first state.                                                        *)
LEMMA KInvInit == KInit => KInv
BY MaxFaultsAssumption
   DEF KInit, KInv, KTypeOK, TargetsInv, WorkersInv, LabelsInv, WorkloadIsLabelled, Phases, Steps,
       Working, Labelled, Filling

(* The steps of ProvisionEnvironment.                                      *)
LEMMA ProvisionStepInv ==
  ASSUME KInv, NEW c \in Calls, ProvisionStep(c)
  PROVE  KInv'
<1>a. /\ target[c] \in Ids /\ UNCHANGED target
      /\ step[c] # "idle" /\ step'[c] # "idle"
      /\ \A d \in Calls \ {c} : step'[d] = step[d]
      /\ \A j \in Ids \ {target[c]} : phase'[j] = phase[j] /\ content'[j] = content[j]
      /\ content[target[c]] \subseteq content'[target[c]]
  BY CommandStep
<1>b. /\ step[c] \notin Working => phase[target[c]] = "absent" \/ UNCHANGED phase
      /\ step'[c] \in Working => phase'[target[c]] = "active"
      /\ step'[c] \in Working /\ step[c] \notin Working => phase[target[c]] = "absent"
  BY CommandStep
<1>c. /\ step'[c] \in Labelled => "labels" \in content'[target[c]]
      /\ content'[target[c]] # {} => "labels" \in content'[target[c]]
  BY CommandStep
<1>d. Working \subseteq Steps \ {"idle"} /\ Labelled \subseteq Working
  BY DEF Working, Labelled, Filling, Steps
<1>1. KTypeOK'
  BY <1>a, ProvisionStepType DEF KInv
<1>2. TargetsInv'
  BY <1>a DEF KInv, TargetsInv
<1>3. WorkersInv'
  <2>1. \A d \in Calls : step[d] \in Working => phase[target[d]] = "active" /\ target[d] \in Ids
    BY <1>d DEF KInv, WorkersInv, TargetsInv
  <2>2. ASSUME NEW d \in Calls \ {c}, step[d] \in Working, target[d] = target[c]
        PROVE  step[c] \notin Working /\ UNCHANGED phase /\ step'[c] \notin Working
    BY <2>1, <2>2, <1>b DEF KInv, WorkersInv
  <2>3. ASSUME NEW d \in Calls \ {c}, step'[d] \in Working PROVE phase'[target'[d]] = "active"
    BY <1>a, <2>1, <2>2, <2>3
  <2>4. ASSUME NEW d \in Calls, NEW e \in Calls \ {d}, step'[d] \in Working, step'[e] \in Working
        PROVE  target'[e] # target'[d]
    BY <1>a, <2>2, <2>4 DEF KInv, WorkersInv
  <2> QED BY <1>a, <1>b, <2>3, <2>4 DEF WorkersInv
<1>4. LabelsInv'
  <2>1. ASSUME NEW d \in Calls \ {c}, step'[d] \in Labelled PROVE "labels" \in content'[target'[d]]
    <3>1. "labels" \in content[target[d]] /\ target[d] \in Ids
      BY <1>a, <1>d, <2>1 DEF KInv, LabelsInv, TargetsInv
    <3> QED BY <1>a, <3>1
  <2> QED BY <1>a, <1>c, <2>1 DEF LabelsInv
<1>5. WorkloadIsLabelled'
  BY <1>a, <1>c DEF KInv, WorkloadIsLabelled
<1> QED BY <1>1, <1>2, <1>3, <1>4, <1>5 DEF KInv

(* Every step.                                                             *)
LEMMA KInvNext == KInv /\ [KNext]_kubectlVars => KInv'
<1> SUFFICES ASSUME KInv, [KNext]_kubectlVars PROVE KInv'
  OBVIOUS
<1>a. KTypeOK /\ TargetsInv /\ WorkersInv /\ LabelsInv /\ WorkloadIsLabelled
  BY DEF KInv
<1>b. "create" \notin Working /\ "idle" \notin Working /\ Labelled \subseteq Working
      /\ "ready" \notin Working /\ "failed" \notin Working
  BY DEF Working, Labelled, Filling
<1>1. ASSUME NEW c \in Calls, NEW i \in Ids, Provision(c, i) PROVE KInv'
  <2>1. /\ step'[c] = "create" /\ target'[c] = i /\ UNCHANGED <<phase, content, lost, faults>>
        /\ \A d \in Calls \ {c} : step'[d] = step[d] /\ target'[d] = target[d]
    BY <1>1, <1>a DEF Provision, clusterVars, KTypeOK
  <2>2. KTypeOK'
    BY <1>1, <1>a DEF Provision, clusterVars, KTypeOK, Steps
  <2>3. TargetsInv' /\ LabelsInv' /\ WorkloadIsLabelled'
    BY <1>a, <1>b, <2>1 DEF TargetsInv, LabelsInv, WorkloadIsLabelled
  <2>4. WorkersInv'
    BY <1>a, <1>b, <2>1 DEF WorkersInv
  <2> QED BY <2>2, <2>3, <2>4 DEF KInv
<1>2. ASSUME NEW c \in Calls, ProvisionStep(c) PROVE KInv'
  BY <1>2, ProvisionStepInv
<1>3. ASSUME NEW c \in Calls, Return(c) PROVE KInv'
  <2>1. /\ step'[c] = "idle" /\ target'[c] = NoId /\ UNCHANGED <<phase, content, lost, faults>>
        /\ \A d \in Calls \ {c} : step'[d] = step[d] /\ target'[d] = target[d]
    BY <1>3, <1>a DEF Return, clusterVars, KTypeOK
  <2>2. KTypeOK'
    BY <1>3, <1>a, ReturnType
  <2>3. TargetsInv' /\ LabelsInv' /\ WorkloadIsLabelled'
    BY <1>a, <1>b, <2>1 DEF TargetsInv, LabelsInv, WorkloadIsLabelled
  <2>4. WorkersInv'
    BY <1>a, <1>b, <2>1 DEF WorkersInv
  <2> QED BY <2>2, <2>3, <2>4 DEF KInv
<1>4. ASSUME NEW i \in Ids, CallerDeletes(i) PROVE KInv'
  <2>1. PICK out \in Outcomes : Delete(i, out)
    BY <1>4 DEF CallerDeletes
  <2>2. UNCHANGED <<step, target, content>> /\ \A j \in Ids \ {i} : phase'[j] = phase[j]
    BY <1>4, <2>1, <1>a, DeleteFrame DEF CallerDeletes
  <2>3. \A c \in Calls : step[c] \in Working => target[c] # i /\ target[c] \in Ids
    BY <1>4, <1>a, <1>b DEF CallerDeletes, Building, Working, TargetsInv
  <2>4. KTypeOK'
    BY <1>a, <2>1, <2>2, DeleteType DEF KTypeOK
  <2>5. WorkersInv'
    BY <1>a, <2>2, <2>3 DEF WorkersInv
  <2> QED BY <1>a, <2>2, <2>4, <2>5 DEF KInv, TargetsInv, LabelsInv, WorkloadIsLabelled
<1>5. ASSUME NEW i \in Ids, Finalize(i) PROVE KInv'
  <2>1. /\ phase[i] = "terminating" /\ UNCHANGED <<step, target, lost, faults>>
        /\ content'[i] = {}
        /\ \A j \in Ids \ {i} : phase'[j] = phase[j] /\ content'[j] = content[j]
    BY <1>5, <1>a DEF Finalize, KTypeOK
  <2>2. \A c \in Calls : step[c] \in Working => target[c] # i /\ target[c] \in Ids
    BY <1>a, <1>b, <2>1 DEF WorkersInv, TargetsInv
  <2>3. KTypeOK'
    BY <1>5, <1>a DEF Finalize, KTypeOK, Phases
  <2>4. WorkersInv' /\ LabelsInv'
    BY <1>a, <1>b, <2>1, <2>2 DEF WorkersInv, LabelsInv
  <2> QED BY <1>a, <2>1, <2>3, <2>4 DEF KInv, TargetsInv, WorkloadIsLabelled
<1>6. CASE UNCHANGED kubectlVars
  BY <1>6, <1>a DEF kubectlVars, KInv, KTypeOK, TargetsInv, WorkersInv, LabelsInv, WorkloadIsLabelled
<1> QED BY <1>1, <1>2, <1>3, <1>4, <1>5, <1>6 DEF KNext

(* Every state.                                                            *)
LEMMA KInvHolds == KSpec => []KInv
BY KInvInit, KInvNext, PTL DEF KSpec

-----------------------------------------------------------------------------
(* Nothing but a labelled namespace holds a workload, so that Cleanup      *)
(* finds whatever a failed command left (kubectl.go:31-41, 71).            *)
THEOREM AllWorkloadIsLabelled == KSpec => []WorkloadIsLabelled
<1>1. KInv => WorkloadIsLabelled
  BY DEF KInv
<1> QED BY <1>1, KInvHolds, PTL

(* Calls that draw the same name never build in the same namespace         *)
(* (kubectl.go:28-30).                                                     *)
THEOREM EachBuilderIsAlone == KSpec => []BuilderIsAlone
<1>1. KInv => BuilderIsAlone
  <2> SUFFICES ASSUME KInv, NEW c \in Calls, step[c] \in Filling
               PROVE  /\ phase[target[c]] = "active"
                      /\ \A d \in Calls \ {c} :
                           target[d] = target[c] => step[d] \in {"create", "failed", "ready"}
    BY DEF BuilderIsAlone
  <2>1. phase[target[c]] = "active" /\ target[c] # NoId
    BY NoIdAssumption DEF KInv, WorkersInv, TargetsInv, Working, Filling
  <2>2. ASSUME NEW d \in Calls \ {c}, target[d] = target[c] PROVE step[d] \notin Working /\ step[d] # "idle"
    BY <2>1, <2>2 DEF KInv, WorkersInv, TargetsInv, Working
  <2>3. \A d \in Calls : step[d] \in Steps
    BY DEF KInv, KTypeOK
  <2> QED BY <2>1, <2>2, <2>3 DEF Steps, Working
<1> QED BY <1>1, KInvHolds, PTL

(* A call that made its namespace returns its error when that is gone, or  *)
(* going, or known as lost (kubectl.go:32-51).                             *)
THEOREM FailuresLeaveNothing == KSpec => FailedLeavesNothing
<1> DEFINE Left == \A c \in Calls : step[c] \in Filling \cup {"undo"} /\ step'[c] = "failed" =>
                     phase'[target[c]] # "active" \/ target[c] \in lost'
<1>1. KInv /\ [KNext]_kubectlVars => [Left]_kubectlVars
  <2> SUFFICES ASSUME KInv, KNext, NEW c \in Calls, step[c] \in Working, step'[c] = "failed"
               PROVE  phase'[target[c]] # "active" \/ target[c] \in lost'
    BY DEF Working
  <2>1. CASE ProvisionStep(c)
    BY <2>1, CommandStep
  <2>2. ASSUME NEW d \in Calls, NEW i \in Ids, Provision(d, i) PROVE FALSE
    BY <2>2 DEF Provision, KInv, KTypeOK, Working, Filling
  <2>3. ASSUME NEW d \in Calls, Return(d) PROVE FALSE
    BY <2>3 DEF Return, KInv, KTypeOK, Working, Filling
  <2>4. ASSUME NEW d \in Calls \ {c}, ProvisionStep(d) PROVE FALSE
    <3>1. step'[c] = step[c]
      BY <2>4, CommandStep
    <3> QED BY <3>1 DEF Working, Filling
  <2>5. ASSUME NEW i \in Ids, CallerDeletes(i) \/ Finalize(i) PROVE FALSE
    BY <2>5 DEF CallerDeletes, Finalize, Working, Filling
  <2> QED BY <2>1, <2>2, <2>3, <2>4, <2>5 DEF KNext
<1> QED BY <1>1, KInvHolds, PTL DEF KSpec, FailedLeavesNothing
=============================================================================
