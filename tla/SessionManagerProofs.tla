------------------------- MODULE SessionManagerProofs -------------------------
(***************************************************************************)
(* Proofs about SessionManager for every number of goroutines, ids and     *)
(* places, and every number of failures.                                   *)
(***************************************************************************)
EXTENDS SessionManager, KubectlProofs, FiniteSetTheorems, TLAPS

(* A goroutine that is past ChooseId, or that a request has bound to a     *)
(* session, has an id.                                                     *)
Bound == {"provision"} \cup Checking \cup Deleting
TargetOK == \A c \in Calls : pc[c] \in Bound => target[c] \in Ids

(* The inductive invariant: Capacity survives Admit only because pending   *)
(* counts every call in Holding, and pending stays in Nat for the same     *)
(* reason.                                                                 *)
PlacesInv ==
  /\ SMTypeOK
  /\ TargetOK
  /\ PendingExact
  /\ Capacity

-----------------------------------------------------------------------------
(***************************************************************************)
(* Lemmas about the goroutines                                             *)
(***************************************************************************)

(* Where the goroutines are after one of them has moved.                   *)
LEMMA GotoAt ==
  ASSUME pc \in [Calls -> PCs], NEW c \in Calls, NEW label \in PCs,
         Goto(c, label), NEW CONSTANT S
  PROVE  /\ pc' \in [Calls -> PCs]
         /\ At(S)' = IF label \in S THEN At(S) \cup {c} ELSE At(S) \ {c}
BY DEF Goto, At

(* Sets of goroutines are finite.                                          *)
LEMMA AtFinite ==
  ASSUME NEW CONSTANT S
  PROVE  IsFiniteSet(At(S)) /\ Cardinality(At(S)) \in Nat
<1>1. At(S) \subseteq Calls
  BY DEF At
<1> QED BY <1>1, FiniteAssumption, FS_Subset, FS_CardinalityType

(* The map holds finitely many sessions.                                   *)
LEMMA SessionsFinite ==
  ASSUME sessions \subseteq Ids
  PROVE  IsFiniteSet(sessions) /\ Cardinality(sessions) \in Nat
BY FiniteAssumption, FS_Subset, FS_CardinalityType

-----------------------------------------------------------------------------
(***************************************************************************)
(* The places                                                              *)
(***************************************************************************)

(* The first state.                                                        *)
LEMMA PlacesInit == SMInit => PlacesInv
<1> SUFFICES ASSUME SMInit PROVE PlacesInv
  OBVIOUS
<1>1. SMTypeOK /\ TargetOK
  BY MaxFaultsAssumption
     DEF SMInit, KInit, SMTypeOK, KTypeOK, TargetOK, PCs, Phases, Steps, Bound,
         Checking, Deleting
<1>2. Holding = {} /\ Preparing = {}
  BY DEF SMInit, Holding, Preparing, At
<1>3. PendingExact /\ Capacity
  BY <1>2, FS_EmptySet, MaxAssumption DEF SMInit, PendingExact, Capacity
<1> QED BY <1>1, <1>3 DEF PlacesInv

(* A step that moves no goroutine into or out of Create, and adds no       *)
(* session, leaves the places alone.                                       *)
LEMMA PlacesKept ==
  ASSUME PlacesInv, sessions' \subseteq sessions, UNCHANGED pending,
         Holding' = Holding, Preparing' = Preparing
  PROVE  PendingExact' /\ Capacity'
<1>1. Cardinality(sessions') <= Cardinality(sessions) /\ Cardinality(sessions') \in Nat
  BY SessionsFinite, FS_Subset, FS_CardinalityType DEF PlacesInv, SMTypeOK
<1>2. Cardinality(sessions) \in Nat /\ Cardinality(Preparing) \in Nat
  BY SessionsFinite, AtFinite DEF PlacesInv, SMTypeOK, Preparing
<1> QED BY <1>1, <1>2, MaxAssumption DEF PlacesInv, PendingExact, Capacity

(* A goroutine that is not in Create, before or after its step, does not   *)
(* count.                                                                  *)
LEMMA OutsideCreate ==
  ASSUME PlacesInv, NEW c \in Calls, NEW label \in {"idle"} \cup Checking \cup Deleting,
         pc[c] \in {"idle"} \cup Checking \cup Deleting, Goto(c, label)
  PROVE  pc' \in [Calls -> PCs] /\ Holding' = Holding /\ Preparing' = Preparing
<1>1. label \in PCs
  BY DEF PCs, Checking, Deleting
<1>2. c \notin Holding /\ c \notin Preparing
  BY DEF Holding, Preparing, At, Checking, Deleting
<1>3. Holding' = Holding \ {c} /\ Preparing' = Preparing \ {c}
  BY <1>1, GotoAt DEF Holding, Preparing, PlacesInv, SMTypeOK, Checking, Deleting
<1> QED BY <1>1, <1>2, <1>3, GotoAt DEF PlacesInv, SMTypeOK

(* An entry for a call of Create.                                          *)
LEMMA AdmitPlaces ==
  ASSUME PlacesInv, NEW c \in Calls, Admit(c)
  PROVE  PlacesInv'
<1>1. pc' \in [Calls -> PCs]
  BY GotoAt DEF Admit, PlacesInv, SMTypeOK, PCs
<1>2. SMTypeOK' /\ TargetOK'
  BY <1>1 DEF Admit, Goto, PlacesInv, SMTypeOK, KTypeOK, TargetOK, Bound, Checking,
              Deleting, kubectlVars
<1>3. Holding' = Holding \cup {c} /\ Preparing' = Preparing \cup {c}
  BY GotoAt DEF Admit, PlacesInv, SMTypeOK, PCs, Holding, Preparing
<1>4. c \notin Holding /\ c \notin Preparing
  BY DEF Admit, Holding, Preparing, At
<1>5. Cardinality(Holding') = Cardinality(Holding) + 1
      /\ Cardinality(Preparing') = Cardinality(Preparing) + 1
  BY <1>3, <1>4, AtFinite, FS_AddElement DEF Holding, Preparing
<1>6. Cardinality(Preparing) <= Cardinality(Holding)
  <2>1. Preparing \subseteq Holding
    BY DEF Preparing, Holding, At
  <2> QED BY <2>1, AtFinite, FS_Subset DEF Holding
<1>7. Cardinality(sessions) + pending < Max
  BY SessionsFinite, MaxAssumption DEF Admit, Full, PlacesInv, SMTypeOK
<1>8. /\ Cardinality(sessions) \in Nat /\ Cardinality(Holding) \in Nat
      /\ Cardinality(Preparing) \in Nat
  BY SessionsFinite, AtFinite DEF PlacesInv, SMTypeOK, Holding, Preparing
<1>9. PendingExact' /\ Capacity'
  BY <1>5, <1>6, <1>7, <1>8, MaxAssumption DEF Admit, PlacesInv, PendingExact, Capacity
<1> QED BY <1>2, <1>9 DEF PlacesInv

(* The call leaves Preparing for Holding, and no session is added.         *)
LEMMA AbortPlaces ==
  ASSUME PlacesInv, NEW c \in Calls, pc[c] \in {"reserved", "provision"},
         Goto(c, "release"), UNCHANGED <<sessions, pending>>
  PROVE  pc' \in [Calls -> PCs] /\ PendingExact' /\ Capacity'
<1>1. pc' \in [Calls -> PCs] /\ Holding' = Holding \cup {c} /\ Preparing' = Preparing \ {c}
  BY GotoAt DEF PlacesInv, SMTypeOK, PCs, Holding, Preparing
<1>2. c \in Holding /\ c \in Preparing
  BY DEF Holding, Preparing, At
<1>3. Cardinality(Preparing') = Cardinality(Preparing) - 1
  BY <1>1, <1>2, AtFinite, FS_RemoveElement DEF Preparing
<1>4. Holding' = Holding
  BY <1>1, <1>2
<1>5. Cardinality(sessions) \in Nat /\ Cardinality(Preparing) \in Nat
  BY SessionsFinite, AtFinite DEF PlacesInv, SMTypeOK, Preparing
<1>6. PendingExact'
  BY <1>4 DEF PlacesInv, PendingExact
<1>7. Capacity'
  BY <1>3, <1>5, MaxAssumption DEF PlacesInv, Capacity
<1> QED BY <1>1, <1>6, <1>7

(* An entry put in an empty place.                                         *)
LEMMA InsertPlaces ==
  ASSUME PlacesInv, NEW c \in Calls, Insert(c)
  PROVE  PlacesInv'
<1>1. target[c] \in Ids
  BY DEF Insert, PlacesInv, TargetOK, Bound
<1>2. pc' \in [Calls -> PCs] /\ Holding' = Holding \cup {c} /\ Preparing' = Preparing \ {c}
  BY GotoAt DEF Insert, PlacesInv, SMTypeOK, PCs, Holding, Preparing
<1>3. c \in Holding /\ c \in Preparing
  BY DEF Insert, Holding, Preparing, At
<1>4. KTypeOK'
  BY ReturnType DEF Insert, PlacesInv, SMTypeOK
<1>5. SMTypeOK'
  BY <1>1, <1>2, <1>4 DEF Insert, PlacesInv, SMTypeOK
<1>6. TargetOK'
  BY DEF Insert, Goto, Return, PlacesInv, TargetOK, SMTypeOK, KTypeOK, Bound, Checking, Deleting
<1>7. Cardinality(Preparing') = Cardinality(Preparing) - 1
  BY <1>2, <1>3, AtFinite, FS_RemoveElement DEF Preparing
<1>8. Cardinality(sessions') <= Cardinality(sessions) + 1 /\ Cardinality(sessions') \in Nat
  <2>1. IsFiniteSet(sessions) /\ Cardinality(sessions) \in Nat
    BY SessionsFinite DEF PlacesInv, SMTypeOK
  <2>2. sessions' = sessions \cup {target[c]}
    BY DEF Insert
  <2>3. /\ IsFiniteSet(sessions')
        /\ \/ Cardinality(sessions') = Cardinality(sessions)
           \/ Cardinality(sessions') = Cardinality(sessions) + 1
    BY <2>1, <2>2, FS_AddElement
  <2> QED BY <2>1, <2>3
<1>9. Cardinality(sessions) \in Nat /\ Cardinality(Preparing) \in Nat
  BY SessionsFinite, AtFinite DEF PlacesInv, SMTypeOK, Preparing
<1>10. PendingExact'
  BY <1>2, <1>3 DEF Insert, PlacesInv, PendingExact
<1>11. Capacity'
  BY <1>7, <1>8, <1>9, MaxAssumption DEF PlacesInv, Capacity
<1> QED BY <1>5, <1>6, <1>10, <1>11 DEF PlacesInv

(* An entry taken out.                                                     *)
LEMMA ReleasePlaces ==
  ASSUME PlacesInv, NEW c \in Calls, Release(c)
  PROVE  PlacesInv'
<1>1. pc' \in [Calls -> PCs] /\ Holding' = Holding \ {c} /\ Preparing' = Preparing \ {c}
  BY GotoAt DEF Release, PlacesInv, SMTypeOK, PCs, Holding, Preparing
<1>2. c \in Holding /\ c \notin Preparing
  BY DEF Release, Holding, Preparing, At
<1>3. Cardinality(Holding') = Cardinality(Holding) - 1
  BY <1>1, <1>2, AtFinite, FS_RemoveElement DEF Holding
<1>4. Cardinality(Holding') \in Nat
  <2>1. IsFiniteSet(Holding')
    BY <1>1, AtFinite, FS_Subset DEF Holding
  <2> QED BY <2>1, FS_CardinalityType
<1>5. PendingExact' /\ pending' \in Nat
  BY <1>3, <1>4 DEF Release, PlacesInv, PendingExact
<1>6. Preparing' = Preparing
  BY <1>1, <1>2
<1>7. Capacity'
  BY <1>6 DEF Release, PlacesInv, Capacity
<1>8. SMTypeOK' /\ TargetOK'
  BY <1>1, <1>5 DEF Release, Goto, PlacesInv, SMTypeOK, KTypeOK, TargetOK, Bound,
                    Checking, Deleting, kubectlVars
<1> QED BY <1>5, <1>7, <1>8 DEF PlacesInv

(* Every step of the manager keeps the places.                             *)
LEMMA PlacesStep == PlacesInv /\ [SMNext]_smVars => PlacesInv'
<1> SUFFICES ASSUME PlacesInv, [SMNext]_smVars PROVE PlacesInv'
  OBVIOUS
<1>1. ASSUME NEW c \in Calls, Admit(c) PROVE PlacesInv'
  BY <1>1, AdmitPlaces
<1>2. ASSUME NEW c \in Calls, NEW i \in Ids, CheckStart(c, i) \/ DeleteStart(c, i)
      PROVE  PlacesInv'
  <2>1. \E label \in Checking \cup Deleting : pc[c] = "idle" /\ Goto(c, label)
    BY <1>2 DEF CheckStart, DeleteStart, Checking, Deleting
  <2>2. pc' \in [Calls -> PCs] /\ Holding' = Holding /\ Preparing' = Preparing
    BY <2>1, OutsideCreate
  <2>3. SMTypeOK'
    BY <1>2, <2>2 DEF CheckStart, DeleteStart, clusterVars, PlacesInv, SMTypeOK, KTypeOK
  <2>4. TargetOK'
    BY <1>2, <2>2 DEF CheckStart, DeleteStart, Goto, PlacesInv, SMTypeOK, KTypeOK, TargetOK
  <2>5. PendingExact' /\ Capacity'
    BY <1>2, <2>2, PlacesKept DEF CheckStart, DeleteStart
  <2> QED BY <2>3, <2>4, <2>5 DEF PlacesInv
<1>3. ASSUME NEW c \in Calls, Reject(c) PROVE PlacesInv'
  <2>1. pc' \in [Calls -> PCs] /\ PendingExact' /\ Capacity'
    BY <1>3, AbortPlaces DEF Reject
  <2>2. SMTypeOK' /\ TargetOK'
    BY <1>3, <2>1 DEF Reject, Goto, kubectlVars, PlacesInv, SMTypeOK, KTypeOK, TargetOK,
                      Bound, Checking, Deleting
  <2> QED BY <2>1, <2>2 DEF PlacesInv
<1>4. ASSUME NEW c \in Calls, NEW i \in Ids, ChooseId(c, i) PROVE PlacesInv'
  <2>1. /\ pc' \in [Calls -> PCs]
        /\ Holding' = Holding \cup {c} /\ Preparing' = Preparing \cup {c}
    BY <1>4, GotoAt DEF ChooseId, PlacesInv, SMTypeOK, PCs, Holding, Preparing
  <2>2. c \in Holding /\ c \in Preparing
    BY <1>4 DEF ChooseId, Holding, Preparing, At
  <2>3. SMTypeOK' /\ TargetOK'
    BY <1>4, <2>1 DEF ChooseId, Provision, Goto, clusterVars, Steps, PlacesInv, SMTypeOK,
                      KTypeOK, TargetOK
  <2>4. PendingExact' /\ Capacity'
    BY <1>4, <2>1, <2>2, PlacesKept DEF ChooseId
  <2> QED BY <2>3, <2>4 DEF PlacesInv
<1>5. ASSUME NEW c \in Calls, ProvisionCommand(c) PROVE PlacesInv'
  <2>1. target[c] \in Ids
    BY <1>5 DEF ProvisionCommand, PlacesInv, TargetOK, Bound
  <2>2. KTypeOK' /\ UNCHANGED target
    BY <1>5, <2>1, ProvisionStepType DEF ProvisionCommand, PlacesInv, SMTypeOK
  <2> QED BY <1>5, <2>2
      DEF ProvisionCommand, managerVars, PlacesInv, SMTypeOK, TargetOK, PendingExact,
          Capacity, Holding, Preparing, At
<1>6. ASSUME NEW c \in Calls, Insert(c) PROVE PlacesInv'
  BY <1>6, InsertPlaces
<1>7. ASSUME NEW c \in Calls, ProvisionFailed(c) PROVE PlacesInv'
  <2>1. pc' \in [Calls -> PCs] /\ PendingExact' /\ Capacity'
    BY <1>7, AbortPlaces DEF ProvisionFailed
  <2>2. KTypeOK'
    BY <1>7, ReturnType DEF ProvisionFailed, PlacesInv, SMTypeOK
  <2>3. TargetOK'
    BY <1>7 DEF ProvisionFailed, Return, Goto, PlacesInv, SMTypeOK, KTypeOK, TargetOK, Bound,
                Checking, Deleting
  <2> QED BY <1>7, <2>1, <2>2, <2>3 DEF ProvisionFailed, PlacesInv, SMTypeOK
<1>8. ASSUME NEW c \in Calls, Release(c) PROVE PlacesInv'
  BY <1>8, ReleasePlaces
<1>9. ASSUME NEW c \in Calls, NEW verdict \in {"pass", "fail"}, Grade(c, verdict)
      PROVE  PlacesInv'
  <2>1. pc' \in [Calls -> PCs] /\ Holding' = Holding /\ Preparing' = Preparing
    BY <1>9, OutsideCreate DEF Grade, Checking
  <2>2. SMTypeOK' /\ TargetOK'
    BY <1>9, <2>1 DEF Grade, Goto, kubectlVars, PlacesInv, SMTypeOK, KTypeOK, TargetOK, Bound,
                      Checking
  <2>3. PendingExact' /\ Capacity'
    BY <1>9, <2>1, PlacesKept DEF Grade
  <2> QED BY <2>2, <2>3 DEF PlacesInv
<1>10. ASSUME NEW c \in Calls, Record(c) PROVE PlacesInv'
  <2>1. pc' \in [Calls -> PCs] /\ Holding' = Holding /\ Preparing' = Preparing
    BY <1>10, OutsideCreate DEF Record, Finish, Checking
  <2>2. SMTypeOK' /\ TargetOK'
    BY <1>10, <2>1 DEF Record, Finish, Goto, clusterVars, PlacesInv, SMTypeOK, KTypeOK,
                       TargetOK, Bound, Checking, Deleting
  <2>3. PendingExact' /\ Capacity'
    BY <1>10, <2>1, PlacesKept DEF Record
  <2> QED BY <2>2, <2>3 DEF PlacesInv
<1>11. ASSUME NEW c \in Calls, Unregister(c) PROVE PlacesInv'
  <2>1. pc' \in [Calls -> PCs] /\ Holding' = Holding /\ Preparing' = Preparing
    BY <1>11, OutsideCreate DEF Unregister, Deleting
  <2>2. SMTypeOK' /\ TargetOK'
    BY <1>11, <2>1 DEF Unregister, Remove, Goto, kubectlVars, PlacesInv, SMTypeOK, KTypeOK,
                       TargetOK, Bound, Deleting
  <2>3. PendingExact' /\ Capacity'
    BY <1>11, <2>1, PlacesKept DEF Unregister, Remove
  <2> QED BY <2>2, <2>3 DEF PlacesInv
<1>12. ASSUME NEW c \in Calls, NEW out \in Outcomes, DeleteEnvironment(c, out)
       PROVE  PlacesInv'
  <2>1. pc' \in [Calls -> PCs] /\ Holding' = Holding /\ Preparing' = Preparing
    BY <1>12, OutsideCreate DEF DeleteEnvironment, Finish, Deleting
  <2>2. target[c] \in Ids
    BY <1>12 DEF DeleteEnvironment, PlacesInv, TargetOK, Bound, Deleting
  <2>3. KTypeOK'
    BY <1>12, <2>2, DeleteType DEF DeleteEnvironment, Finish, PlacesInv, SMTypeOK, KTypeOK
  <2>4. TargetOK'
    BY <1>12 DEF DeleteEnvironment, Finish, Goto, PlacesInv, SMTypeOK, KTypeOK, TargetOK,
                 Bound, Checking, Deleting
  <2>5. PendingExact' /\ Capacity'
    BY <1>12, <2>1, PlacesKept DEF DeleteEnvironment
  <2> QED BY <1>12, <2>1, <2>3, <2>4, <2>5 DEF DeleteEnvironment, PlacesInv, SMTypeOK
<1>13. ASSUME SweepStart PROVE PlacesInv'
  <2>1. Holding' = Holding /\ Preparing' = Preparing
    BY <1>13 DEF SweepStart, Holding, Preparing, At
  <2>2. PendingExact' /\ Capacity'
    BY <1>13, <2>1, PlacesKept DEF SweepStart, Remove
  <2> QED BY <1>13, <2>2 DEF SweepStart, Remove, kubectlVars, PlacesInv, SMTypeOK, KTypeOK,
                             TargetOK
<1>14. ASSUME NEW i \in Ids, NEW out \in Outcomes, SweepDelete(i, out) PROVE PlacesInv'
  <2>1. KTypeOK'
    BY <1>14, DeleteType DEF SweepDelete, PlacesInv, SMTypeOK, KTypeOK
  <2> QED BY <1>14, <2>1 DEF SweepDelete, PlacesInv, SMTypeOK, TargetOK, PendingExact,
                             Capacity, Holding, Preparing, At
<1>15. ASSUME NEW i \in Ids, Expire(i) PROVE PlacesInv'
  BY <1>15 DEF Expire, kubectlVars, PlacesInv, SMTypeOK, KTypeOK, TargetOK, PendingExact,
               Capacity, Holding, Preparing, At
<1>16. ASSUME NEW i \in Ids, SMFinalize(i) PROVE PlacesInv'
  <2>1. KTypeOK'
    BY <1>16 DEF SMFinalize, Finalize, Phases, PlacesInv, SMTypeOK, KTypeOK
  <2> QED BY <1>16, <2>1 DEF SMFinalize, Finalize, managerVars, PlacesInv, SMTypeOK, TargetOK,
                             PendingExact, Capacity, Holding, Preparing, At
<1>17. CASE UNCHANGED smVars
  BY <1>17 DEF smVars, managerVars, kubectlVars, PlacesInv, SMTypeOK, KTypeOK, TargetOK,
               PendingExact, Capacity, Holding, Preparing, At
<1> QED BY <1>1, <1>2, <1>3, <1>4, <1>5, <1>6, <1>7, <1>8, <1>9, <1>10, <1>11, <1>12,
           <1>13, <1>14, <1>15, <1>16, <1>17
        DEF SMNext, Request, CallStep, SweepStep

(* The places are accounted for in every reachable state.                  *)
THEOREM PlacesInvariant == SMSpec => []PlacesInv
BY PlacesInit, PlacesStep, PTL DEF SMSpec

(* Type correctness of the session manager and the provider.               *)
THEOREM TypeCorrect == SMSpec => []SMTypeOK
BY PlacesInvariant, PTL DEF PlacesInv

(* The counter is exactly the number of Create calls under way             *)
(* (session.go:58-77), whatever the number of goroutines.                  *)
THEOREM PendingIsExact == SMSpec => []PendingExact
BY PlacesInvariant, PTL DEF PlacesInv

(* Environments being built and being played never exceed the limit        *)
(* (session.go:53-64, 88-90), whatever the limit.                          *)
THEOREM CapacityHolds == SMSpec => []Capacity
BY PlacesInvariant, PTL DEF PlacesInv
=============================================================================
