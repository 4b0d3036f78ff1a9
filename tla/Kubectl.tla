------------------------------- MODULE Kubectl -------------------------------
(***************************************************************************)
(* The cluster provider, internal/cluster/kubectl.go: how a namespace is   *)
(* built step by step by Provision, removed by Delete, and what is left of *)
(* it when a kubectl command fails, times out or is cancelled half way.    *)
(*                                                                         *)
(* One kubectl command is one step.  Its exit status does not say whether  *)
(* the API server applied it: a command killed by its deadline may have    *)
(* been applied ("late") or not ("failed"); only "ok" is certain.          *)
(***************************************************************************)
EXTENDS Naturals, FiniteSets

CONSTANTS
  Ids,        \* namespaces: the "k8sgames-<id>" names Create may draw
  NoId,       \* no namespace
  Calls,      \* goroutines that may be inside Provision
  MaxFaults   \* bound: kubectl failures, crashes and stops in a behaviour

ASSUME NoIdAssumption == NoId \notin Ids
ASSUME FiniteAssumption == IsFiniteSet(Ids) /\ IsFiniteSet(Calls)
ASSUME MaxFaultsAssumption == MaxFaults \in Nat

VARIABLES
  phase,      \* what the API server says of each namespace
  content,    \* what Provision has put into it so far
  step,       \* the command of Provision each goroutine is about to run
  target,     \* the namespace a goroutine works on (session.Namespace)
  lost,       \* history: live namespaces whose last Delete did not get through
  faults      \* failures so far, at most MaxFaults

clusterVars == <<phase, content, lost, faults>>
kubectlVars == <<phase, content, step, target, lost, faults>>

Phases == {"absent", "active", "terminating"}

(* In the order of Provision: label, apply, the Setup commands, wait.      *)
Parts == {"labels", "manifest", "scenario", "toolbox"}

Filling == {"label", "apply", "setup", "wait"}
Steps == {"idle", "create", "undo", "ready", "failed"} \cup Filling

Outcomes == {"ok", "failed", "late"}

Exists(i) == phase[i] # "absent"
Active == {i \in Ids : phase[i] = "active"}

(* The label query of Cleanup: it lists terminating namespaces as well.    *)
Managed == {i \in Ids : Exists(i) /\ "labels" \in content[i]}

-----------------------------------------------------------------------------
(***************************************************************************)
(* Running kubectl                                                         *)
(***************************************************************************)

(* Every outcome but "ok" spends one of the MaxFaults failures.            *)
Run(out) ==
  \/ out = "ok" /\ UNCHANGED faults
  \/ out # "ok" /\ faults < MaxFaults /\ faults' = faults + 1

(* kubectl delete namespace --wait=false: marks the namespace for the      *)
(* namespace controller; NotFound and an earlier mark both count as done.  *)
Delete(i, out) ==
  /\ Run(out)
  /\ phase' = IF out # "failed" /\ phase[i] = "active"
                THEN [phase EXCEPT ![i] = "terminating"] ELSE phase
  /\ lost' = IF out # "failed" THEN lost \ {i} ELSE lost \cup ({i} \cap Active)
  /\ UNCHANGED content

(* The namespace controller finishes a deletion.                           *)
Finalize(i) ==
  /\ phase[i] = "terminating"
  /\ phase' = [phase EXCEPT ![i] = "absent"]
  /\ content' = [content EXCEPT ![i] = {}]
  /\ UNCHANGED <<step, target, lost, faults>>

-----------------------------------------------------------------------------
(***************************************************************************)
(* Provision                                                               *)
(***************************************************************************)

Provision(c, i) ==
  /\ step[c] = "idle"
  /\ step' = [step EXCEPT ![c] = "create"]
  /\ target' = [target EXCEPT ![c] = i]
  /\ UNCHANGED clusterVars

(* Mutants of OnError: no compensating Delete, and one even when the       *)
(* namespace is not this call's.                                           *)
NeverUndo(at) == "failed"
AlwaysUndo(at) == "undo"

(* Where Provision goes when a command fails: the namespace is deleted     *)
(* again, except when it was `create namespace' that failed.               *)
OnError(at) == IF at = "create" THEN "failed" ELSE "undo"

(* The name is taken: kubectl create fails and nothing of it is touched.   *)
AlreadyExists(c) ==
  /\ step[c] = "create" /\ Exists(target[c])
  /\ step' = [step EXCEPT ![c] = OnError("create")]
  /\ UNCHANGED <<clusterVars, target>>

CreateNamespace(c, out) ==
  /\ step[c] = "create" /\ ~Exists(target[c])
  /\ Run(out)
  /\ phase' = IF out = "failed" THEN phase
              ELSE [phase EXCEPT ![target[c]] = "active"]
  /\ step' = [step EXCEPT ![c] = IF out = "ok" THEN "label" ELSE OnError("create")]
  /\ UNCHANGED <<content, target, lost>>

(* Mutant of Fill: an error is not looked at.                              *)
FillOnError(c, at, part, next, out) ==
  /\ step[c] = at
  /\ Run(out)
  /\ content' = IF out = "failed" THEN content
                ELSE [content EXCEPT ![target[c]] = @ \cup {part}]
  /\ step' = [step EXCEPT ![c] = next]
  /\ UNCHANGED <<phase, target, lost>>

(* One command that adds a part to the namespace it runs in.               *)
Fill(c, at, part, next, out) ==
  /\ step[c] = at
  /\ Run(out)
  /\ content' = IF out = "failed" THEN content
                ELSE [content EXCEPT ![target[c]] = @ \cup {part}]
  /\ step' = [step EXCEPT ![c] = IF out = "ok" THEN next ELSE OnError(at)]
  /\ UNCHANGED <<phase, target, lost>>

LabelNamespace(c, out) == Fill(c, "label", "labels", "apply", out)
ApplyManifest(c, out) == Fill(c, "apply", "manifest", "setup", out)
RunSetup(c, out) == Fill(c, "setup", "scenario", "wait", out)
WaitToolbox(c, out) == Fill(c, "wait", "toolbox", "ready", out)

(* The deletion after an error; its own error is dropped.                  *)
Undo(c, out) ==
  /\ step[c] = "undo"
  /\ Delete(target[c], out)
  /\ step' = [step EXCEPT ![c] = "failed"]
  /\ UNCHANGED target

ProvisionStep(c) ==
  \/ AlreadyExists(c)
  \/ \E out \in Outcomes :
       \/ CreateNamespace(c, out)
       \/ LabelNamespace(c, out)
       \/ ApplyManifest(c, out)
       \/ RunSetup(c, out)
       \/ WaitToolbox(c, out)
       \/ Undo(c, out)

(* Provision has returned to its caller.                                   *)
Returned(c) == step[c] \in {"ready", "failed"}

Return(c) ==
  /\ Returned(c)
  /\ step' = [step EXCEPT ![c] = "idle"]
  /\ target' = [target EXCEPT ![c] = NoId]
  /\ UNCHANGED clusterVars

-----------------------------------------------------------------------------
(***************************************************************************)
(* The provider alone, with any caller: Delete is called on namespaces     *)
(* whose Provision is over, which is what the session manager guarantees.  *)
(***************************************************************************)

Building(i) == \E c \in Calls : step[c] \in Filling \cup {"undo"} /\ target[c] = i

KInit ==
  /\ phase = [i \in Ids |-> "absent"]
  /\ content = [i \in Ids |-> {}]
  /\ step = [c \in Calls |-> "idle"]
  /\ target = [c \in Calls |-> NoId]
  /\ lost = {}
  /\ faults = 0

CallerDeletes(i) ==
  /\ Exists(i) /\ ~Building(i)
  /\ \E out \in Outcomes : Delete(i, out)
  /\ UNCHANGED <<step, target>>

KNext ==
  \/ \E c \in Calls, i \in Ids : Provision(c, i)
  \/ \E c \in Calls : ProvisionStep(c)
  \/ \E c \in Calls : Return(c)
  \/ \E i \in Ids : CallerDeletes(i)
  \/ \E i \in Ids : Finalize(i)

KSpec == KInit /\ [][KNext]_kubectlVars

-----------------------------------------------------------------------------
KTypeOK ==
  /\ phase \in [Ids -> Phases]
  /\ content \in [Ids -> SUBSET Parts]
  /\ step \in [Calls -> Steps]
  /\ target \in [Calls -> Ids \cup {NoId}]
  /\ lost \subseteq Ids
  /\ faults \in 0..MaxFaults

(* Cleanup finds environments by their label.  Whatever a command in       *)
(* between does, a namespace that holds any of a player's workload was     *)
(* labelled before, so a later Cleanup sees it (kubectl.go:31-41, 71).     *)
WorkloadIsLabelled ==
  \A i \in Ids : content[i] # {} => "labels" \in content[i]

(* An error from Provision leaves no environment behind: once a call has   *)
(* created its namespace, it does not return its error before the          *)
(* namespace is gone or going, or its Delete did not get through           *)
(* (kubectl.go:32-51).                                                     *)
FailedLeavesNothing ==
  [][\A c \in Calls : step[c] \in Filling \cup {"undo"} /\ step'[c] = "failed" =>
       phase'[target[c]] # "active" \/ target[c] \in lost']_kubectlVars

(* No two Provision calls build in one namespace, even when they drew the  *)
(* same name, and a call never deletes the namespace another one built:    *)
(* while a call fills a namespace it stays active (kubectl.go:28-30).      *)
BuilderIsAlone ==
  \A c \in Calls : step[c] \in Filling =>
    /\ phase[target[c]] = "active"
    /\ \A d \in Calls \ {c} :
         target[d] = target[c] => step[d] \in {"create", "failed", "ready"}
=============================================================================
