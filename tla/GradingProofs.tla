---------------------------- MODULE GradingProofs ----------------------------
(***************************************************************************)
(* A completion is earned: whatever the challenges, the cluster and kubectl*)
(* do, every probe has held in the course of the grade that completes.     *)
(* A verdict names the first obstacle, and nothing is handed out solved.   *)
(* Of the catalogue nothing is used but CatalogAssumption and, for the last*)
(* of these, BrokenAssumption.                                             *)
(***************************************************************************)
EXTENDS Grading, TLAPS

(* What a grade under way has shown so far: the probes before the current  *)
(* one have held, and so has whatever holds now.                           *)
Shown ==
  at # 0 => /\ ~Complete
            /\ 1..at - 1 \subseteq passed
            /\ Holding \subseteq passed

(* The environment always has the same fields and statuses to look at.     *)
Kept ==
  /\ DOMAIN spec = DOMAIN Fields[challenge]
  /\ DOMAIN stage = DOMAIN Kinds
  /\ DOMAIN status = DOMAIN Kinds

(* The objects that an environment may have.                               *)
Known == {Probes[i].object : i \in DOMAIN Probes} \cup {q[1] : q \in DOMAIN spec} \cup DOMAIN stage

GradingInv == TypeOK /\ Kept /\ Shown /\ EveryProbeHeld

-----------------------------------------------------------------------------
(* A nonempty list is numbered from one.                                   *)
LEMMA ListLen ==
  ASSUME NEW s, IsList(s)
  PROVE  Len(s) \in Nat \ {0} /\ DOMAIN s = 1..Len(s)
<1>1. s \in Seq(Range(s)) /\ s # <<>>
  BY DEF IsList
<1> HIDE DEF IsList
<1> QED BY <1>1

(* The probes and stages of a challenge in play are lists.                 *)
LEMMA ChallengeLists ==
  ASSUME challenge \in Challenges
  PROVE  /\ Len(Probes) \in Nat \ {0}
         /\ DOMAIN Probes = 1..Len(Probes)
         /\ \A o \in DOMAIN Kinds :
              /\ Len(Kinds[o].stages) \in Nat \ {0}
              /\ DOMAIN Kinds[o].stages = 1..Len(Kinds[o].stages)
<1>1. WellFormed(allChallenges[challenge])
  BY CatalogAssumption
<1>2. IsList(Probes) /\ \A o \in DOMAIN Kinds : IsList(Kinds[o].stages)
  BY <1>1 DEF WellFormed, Probes, Kinds
<1> QED BY <1>2, ListLen

(* What a status needs is a field that the environment keeps.              *)
LEMMA NeedsAreKept ==
  ASSUME NEW c \in Challenges, NEW o \in DOMAIN allChallenges[c].status,
         NEW f \in allChallenges[c].status[o].needs
  PROVE  <<f.object, f.field>> \in DOMAIN Fields[c]
BY DEF Fields

(* A result that is not an exit code of zero passes no probe.              *)
LEMMA TimeoutNeverPasses ==
  ASSUME NEW p
  PROVE  ~Passes(p, TimedOut)
BY DEF Passes, TimedOut

(* The next probe of the list, or none after the last one.                 *)
LEMMA NextProbe ==
  ASSUME NEW n \in Nat \ {0}, NEW i \in 1..n
  PROVE  /\ (i + 1) % (n + 1) = IF i = n THEN 0 ELSE i + 1
         /\ (i + 1) % (n + 1) \in 0..n
         /\ (i + 1) % (n + 1) = 0 => i = n
<1>1. (i + 1) % (n + 1) = IF i = n THEN 0 ELSE i + 1
  OBVIOUS
<1> QED BY <1>1

-----------------------------------------------------------------------------
(* Objects as the manifest gives them, fields as it or the setup sets them.*)
LEMMA InitHolds == Init => GradingInv
<1> SUFFICES ASSUME Init PROVE GradingInv
  OBVIOUS
<1>1. WellFormed(allChallenges[challenge]) /\ challenge \in Challenges
  BY CatalogAssumption DEF Init
<1>2. Kept
  BY DEF Init, Kept, Provisioned
<1>3. objects \subseteq Known
  <2>1. ASSUME NEW o \in DOMAIN Kinds, NEW f \in Kinds[o].needs
        PROVE  f.object \in Known
    <3>1. <<f.object, f.field>> \in DOMAIN spec
      BY <1>1, <1>2, <2>1, NeedsAreKept DEF Kept, Kinds
    <3>2. <<f.object, f.field>>[1] = f.object
      OBVIOUS
    <3> QED BY <3>1, <3>2 DEF Known
  <2>2. {f.object : f \in allChallenges[challenge].given}
          \subseteq {Probes[i].object : i \in DOMAIN Probes}
                    \cup {f.object : f \in UNION {Kinds[o].needs : o \in DOMAIN Kinds}}
    BY <1>1 DEF WellFormed, Probes, Kinds
  <2>3. {f.object : f \in UNION {Kinds[o].needs : o \in DOMAIN Kinds}} \subseteq Known
    BY <2>1
  <2>4. {Probes[i].object : i \in DOMAIN Probes} \subseteq Known
    BY DEF Known
  <2>5. objects = {f.object : f \in allChallenges[challenge].given}
    BY DEF Init, Given
  <2> HIDE DEF Known, Probes, Kinds
  <2> QED BY <2>2, <2>3, <2>4, <2>5
<1>4. ASSUME NEW q \in DOMAIN spec, q[1] \notin objects
      PROVE  spec[q] = <<>>
  <2>1. Says(allChallenges[challenge].given, q) = {}
    BY <1>4 DEF Init, Given, Says
  <2>2. Says(allChallenges[challenge].setup, q) = {}
    BY <1>1, <1>4 DEF Init, Given, Says, WellFormed
  <2> QED BY <2>1, <2>2, <1>2, <1>4 DEF Init, Provisioned
<1>5. \A o \in DOMAIN stage : stage[o] \in DOMAIN Kinds[o].stages
  BY <1>1, ChallengeLists DEF Init
<1>6. Len(Probes) \in Nat \ {0}
  BY <1>1, ChallengeLists
<1>7. TypeOK
  <2>1. /\ at \in 0..Len(Probes) /\ verdict \in 0..Done
        /\ failures \in 0..MaxFailures /\ strays \in 0..MaxStrays
    BY <1>6, MaxAssumption DEF Init, Done
  <2>2. passed \subseteq DOMAIN Probes /\ met \in BOOLEAN /\ touched \in BOOLEAN
    BY DEF Init
  <2> QED BY <1>1, <1>3, <1>4, <1>5, <2>1, <2>2 DEF TypeOK, Known
<1> QED BY <1>2, <1>6, <1>7 DEF GradingInv, Shown, EveryProbeHeld, Complete, Done, Init

(* A check begins with nothing behind it.                                  *)
LEMMA BeginKeeps == GradingInv /\ Begin => GradingInv'
<1> SUFFICES ASSUME GradingInv, Begin PROVE GradingInv'
  OBVIOUS
<1>1. Len(Probes) \in Nat \ {0} /\ DOMAIN Probes = 1..Len(Probes)
  BY ChallengeLists DEF GradingInv, TypeOK
<1>2. Probes' = Probes /\ Kinds' = Kinds /\ Done' = Done
  BY DEF Begin, Probes, Kinds, Done
<1>3. Holding' = Holding /\ Holding \subseteq DOMAIN Probes
  BY <1>2 DEF Begin, cluster, Holding, Result, Value
<1>4. Kept'
  BY <1>2 DEF GradingInv, Kept, Begin, cluster
<1>5. TypeOK'
  BY <1>1, <1>2, <1>3 DEF GradingInv, TypeOK, Begin, cluster, Objective
<1>6. Shown' /\ EveryProbeHeld'
  BY <1>1, <1>2, <1>3 DEF Begin, Shown, EveryProbeHeld, Complete
<1> QED BY <1>4, <1>5, <1>6 DEF GradingInv

(* One probe's result: the next probe, a verdict, or completion.           *)
LEMMA GradeKeeps ==
  ASSUME NEW result, GradingInv, Grade(result), failures' \in 0..MaxFailures, strays' = strays,
         Passes(Probes[at], result) => at \in Holding
  PROVE  GradingInv'
<1>1. Len(Probes) \in Nat \ {0} /\ DOMAIN Probes = 1..Len(Probes) /\ at \in 1..Len(Probes)
  <2>1. challenge \in Challenges /\ at \in 0..Len(Probes) /\ at # 0
    BY DEF GradingInv, TypeOK, Grade
  <2>2. Len(Probes) \in Nat \ {0} /\ DOMAIN Probes = 1..Len(Probes)
    BY <2>1, ChallengeLists
  <2> QED BY <2>1, <2>2
<1>2. Probes' = Probes /\ Kinds' = Kinds /\ Done' = Done
  BY DEF Grade, Probes, Kinds, Done
<1>3. Holding' = Holding
  BY <1>2 DEF Grade, cluster, Holding, Result, Value
<1>4. Kept'
  BY <1>2 DEF GradingInv, Kept, Grade, cluster
<1>5. passed' = passed /\ passed \subseteq DOMAIN Probes /\ Holding \subseteq passed
      /\ 1..at - 1 \subseteq passed /\ verdict # Done
  BY DEF GradingInv, TypeOK, Shown, Grade, Complete
<1>6. UNCHANGED <<challenge, objects, spec, stage, touched>> /\ met' = met
  BY DEF Grade, cluster
<1>7. at' \in 0..Len(Probes) /\ verdict' \in 0..Done => TypeOK'
  BY <1>2, <1>5, <1>6 DEF GradingInv, TypeOK
<1>8. verdict \in 0..Done /\ Done = Len(Probes) + 1
  BY DEF GradingInv, TypeOK, Done
<1>9. CASE Passes(Probes[at], result)
  <2>1. 1..at \subseteq passed
    <3>1. at \in passed
      BY <1>5, <1>9
    <3> QED BY <1>1, <1>5, <3>1
  <2>2. at' = (at + 1) % (Len(Probes) + 1)
        /\ verdict' = IF at = Len(Probes) THEN Done ELSE verdict
    BY <1>9 DEF Grade, Done
  <2>3. CASE at = Len(Probes)
    <3>1. at' = 0 /\ verdict' = Done
      BY <1>1, <2>2, <2>3, NextProbe
    <3>2. at' \in 0..Len(Probes) /\ verdict' \in 0..Done
      BY <1>1, <1>8, <3>1
    <3>3. passed = DOMAIN Probes
      BY <1>1, <1>5, <2>1, <2>3
    <3>4. Shown' /\ EveryProbeHeld'
      BY <1>2, <1>5, <3>1, <3>3 DEF Shown, EveryProbeHeld
    <3> QED BY <1>4, <1>7, <3>2, <3>4 DEF GradingInv
  <2>4. CASE at # Len(Probes)
    <3>1. at' = at + 1 /\ verdict' = verdict
      BY <1>1, <2>2, <2>4, NextProbe
    <3>2. at' \in 0..Len(Probes) /\ verdict' \in 0..Done
      <4>1. at' \in 0..Len(Probes)
        BY <1>1, <2>2, NextProbe
      <4> QED BY <1>8, <3>1, <4>1
    <3>3. at' - 1 = at
      BY <1>1, <3>1
    <3>4. ~Complete'
      BY <1>2, <1>5, <3>1 DEF Complete
    <3>5. Shown' /\ EveryProbeHeld'
      BY <1>3, <1>5, <2>1, <3>3, <3>4 DEF Shown, EveryProbeHeld
    <3> QED BY <1>4, <1>7, <3>2, <3>5 DEF GradingInv
  <2> QED BY <2>3, <2>4
<1>10. CASE ~Passes(Probes[at], result)
  <2>1. at' = 0 /\ verdict' = at
    BY <1>10 DEF Grade
  <2>2. at' \in 0..Len(Probes) /\ verdict' \in 0..Done /\ at # Done
    BY <1>1, <1>8, <2>1
  <2>3. Shown' /\ EveryProbeHeld'
    BY <1>2, <2>1, <2>2 DEF Shown, EveryProbeHeld, Complete
  <2> QED BY <1>4, <1>7, <2>2, <2>3 DEF GradingInv
<1> QED BY <1>9, <1>10

(* kubectl answers: what passes holds at this very moment.                 *)
LEMMA InspectKeeps == GradingInv /\ Inspect => GradingInv'
<1> SUFFICES ASSUME GradingInv, Inspect PROVE GradingInv'
  OBVIOUS
<1>1. at \in DOMAIN Probes
  BY ChallengeLists DEF GradingInv, TypeOK, Inspect
<1>2. Passes(Probes[at], Result(Probes[at])) => at \in Holding
  BY <1>1 DEF Holding
<1>3. Grade(Result(Probes[at])) /\ failures' = failures /\ strays' = strays
  BY DEF Inspect
<1> QED BY <1>2, <1>3, GradeKeeps DEF GradingInv, TypeOK

(* kubectl fails: nothing passes.                                          *)
LEMMA InspectFailsKeeps == GradingInv /\ InspectFails => GradingInv'
<1> SUFFICES ASSUME GradingInv, InspectFails PROVE GradingInv'
  OBVIOUS
<1>1. Grade(TimedOut) /\ strays' = strays
  BY DEF InspectFails
<1>2. failures' \in 0..MaxFailures
  BY MaxAssumption DEF InspectFails, GradingInv, TypeOK
<1> QED BY <1>1, <1>2, TimeoutNeverPasses, GradeKeeps

-----------------------------------------------------------------------------
(* Whatever changes in the cluster, a grade under way goes on as it was.   *)
LEMMA ObservedKeeps ==
  ASSUME GradingInv, Observed, ~Complete
  PROVE  /\ Probes' = Probes /\ Kinds' = Kinds /\ Done' = Done
         /\ passed' \subseteq DOMAIN Probes /\ met' \in BOOLEAN
         /\ Shown' /\ EveryProbeHeld'
<1>1. Probes' = Probes /\ Kinds' = Kinds /\ Done' = Done /\ at' = at /\ verdict' = verdict
  BY DEF Observed, grade, Probes, Kinds, Done
<1>2. Holding' \subseteq DOMAIN Probes
  BY <1>1 DEF Holding
<1>3. passed' \subseteq DOMAIN Probes
  BY <1>2 DEF Observed, GradingInv, TypeOK
<1>4. met' \in BOOLEAN
  <2>1. met' = met \/ met' = (met \/ Objective')
    BY DEF Observed
  <2>2. met \in BOOLEAN
    BY DEF GradingInv, TypeOK
  <2> QED BY <2>1, <2>2
<1>5. Shown'
  BY <1>1 DEF Observed, Shown, GradingInv, Complete
<1>6. EveryProbeHeld'
  BY <1>1 DEF EveryProbeHeld, Complete
<1> QED BY <1>1, <1>3, <1>4, <1>5, <1>6

(* A change by a player or a controller leaves known objects only.         *)
LEMMA AlterKeeps ==
  ASSUME NEW to, NEW values, GradingInv, Alter(to, values), to \subseteq Known,
         strays' \in 0..MaxStrays
  PROVE  GradingInv'
<1>1. ~Complete /\ Observed
  BY DEF Alter
<1>2. /\ Probes' = Probes /\ Kinds' = Kinds /\ Done' = Done
      /\ passed' \subseteq DOMAIN Probes /\ met' \in BOOLEAN
      /\ Shown' /\ EveryProbeHeld'
  BY <1>1, ObservedKeeps
<1>3. challenge' = challenge /\ at' = at /\ verdict' = verdict /\ failures' = failures
  BY <1>1 DEF Observed, grade
<1>4. DOMAIN spec' = DOMAIN spec /\ DOMAIN stage' = DOMAIN stage /\ DOMAIN status' = DOMAIN status
  BY DEF Alter
<1>5. Kept'
  BY <1>2, <1>3, <1>4 DEF GradingInv, Kept
<1>6. objects' \subseteq Known'
  BY <1>2, <1>4 DEF Alter, Known
<1>7. \A q \in DOMAIN spec' : q[1] \notin objects' => spec'[q] = <<>>
  BY DEF Alter
<1>8. \A o \in DOMAIN stage' : stage'[o] \in DOMAIN Kinds'[o].stages
  <2>1. \A o \in DOMAIN stage : 1 \in DOMAIN Kinds[o].stages
    BY ChallengeLists DEF GradingInv, TypeOK, Kept
  <2> QED BY <1>2, <2>1 DEF Alter, GradingInv, TypeOK
<1>9. touched' \in BOOLEAN
  BY DEF Alter
<1>10. TypeOK'
  BY <1>2, <1>3, <1>6, <1>7, <1>8, <1>9 DEF GradingInv, TypeOK, Known
<1> QED BY <1>2, <1>5, <1>10 DEF GradingInv

(* What a verdict is about, its probe's object or a need, is known.        *)
LEMMA FollowKeeps == GradingInv /\ Follow => GradingInv'
<1> SUFFICES ASSUME GradingInv, Follow PROVE GradingInv'
  OBVIOUS
<1> DEFINE p == Probes[verdict]
<1>1. verdict \in DOMAIN Probes /\ strays' \in 0..MaxStrays
  BY DEF Follow, GradingInv, TypeOK
<1>2. objects \subseteq Known
  BY DEF GradingInv, TypeOK, Known
<1>3. Targets(p) \subseteq Known
  <2>1. p.object \in Known
    BY <1>1 DEF Known
  <2>2. ASSUME InStatus(Kinds, p), NEW f \in Kinds[p.object].needs
        PROVE  f.object \in Known
    <3>1. p.object \in DOMAIN Kinds
      BY <2>2 DEF InStatus
    <3>2. <<f.object, f.field>> \in DOMAIN spec
      BY <2>2, <3>1, NeedsAreKept DEF GradingInv, TypeOK, Kept, Kinds
    <3>3. <<f.object, f.field>>[1] = f.object
      OBVIOUS
    <3> QED BY <3>2, <3>3 DEF Known
  <2> QED BY <2>1, <2>2 DEF Targets
<1>4. PICK to, values : Alter(to, values) /\ to \subseteq Known
  <2>1. CASE IsGone(p)
    <3>1. Alter(objects \ Targets(p), spec)
      BY <2>1 DEF Follow
    <3> QED BY <1>2, <3>1
  <2>2. CASE ~IsGone(p)
    <3>1. PICK values : Alter(objects \cup Targets(p), values)
      BY <2>2 DEF Follow
    <3> QED BY <1>2, <1>3, <3>1
  <2> QED BY <2>1, <2>2
<1> QED BY <1>1, <1>4, AlterKeeps

(* What goes astray is an object or a field that there is.                 *)
LEMMA StrayKeeps == GradingInv /\ Stray => GradingInv'
<1> SUFFICES ASSUME GradingInv, Stray PROVE GradingInv'
  OBVIOUS
<1>1. strays' \in 0..MaxStrays
  BY MaxAssumption DEF Stray, GradingInv, TypeOK
<1>2. objects \subseteq Known /\ \A q \in DOMAIN spec : q[1] \in Known
  BY DEF GradingInv, TypeOK, Known
<1>3. PICK to, values : Alter(to, values) /\ to \subseteq Known
  <2>1. CASE \E o \in objects : Alter(objects \ {o}, spec)
    BY <1>2, <2>1
  <2>2. CASE \E q \in DOMAIN spec : \E values : Alter(objects \cup {q[1]}, values)
    BY <1>2, <2>2
  <2> QED BY <2>1, <2>2 DEF Stray
<1> QED BY <1>1, <1>3, AlterKeeps

(* A stage follows another, and a status is written: the objects stay.     *)
LEMMA ControllersKeep == GradingInv /\ Controllers => GradingInv'
<1> SUFFICES ASSUME GradingInv, NEW o \in DOMAIN stage, Grow(o) \/ Sync(o) PROVE GradingInv'
  BY DEF Controllers
<1>1. ~Complete /\ Observed /\ objects' = objects /\ spec' = spec /\ touched' = touched
      /\ strays' = strays
  BY DEF Grow, Sync
<1>2. /\ Probes' = Probes /\ Kinds' = Kinds /\ Done' = Done
      /\ passed' \subseteq DOMAIN Probes /\ met' \in BOOLEAN
      /\ Shown' /\ EveryProbeHeld'
  BY <1>1, ObservedKeeps
<1>3. challenge' = challenge /\ at' = at /\ verdict' = verdict /\ failures' = failures
  BY <1>1 DEF Observed, grade
<1>4. DOMAIN stage' = DOMAIN stage /\ DOMAIN status' = DOMAIN status
  BY DEF Grow, Sync
<1>5. \A i \in DOMAIN stage : stage'[i] \in DOMAIN Kinds[i].stages
  <2>1. \A i \in DOMAIN stage :
          Len(Kinds[i].stages) \in Nat /\ DOMAIN Kinds[i].stages = 1..Len(Kinds[i].stages)
    BY ChallengeLists DEF GradingInv, TypeOK, Kept
  <2> QED BY <2>1 DEF Grow, Sync, GradingInv, TypeOK
<1>6. Kept'
  BY <1>1, <1>2, <1>3, <1>4 DEF GradingInv, Kept
<1>7. TypeOK'
  BY <1>1, <1>2, <1>3, <1>4, <1>5 DEF GradingInv, TypeOK
<1> QED BY <1>2, <1>6, <1>7 DEF GradingInv

-----------------------------------------------------------------------------
(* GradingInv is inductive.                                                *)
LEMMA GradingHolds == Spec => []GradingInv
<1>1. GradingInv /\ UNCHANGED vars => GradingInv'
  BY DEF GradingInv, TypeOK, Kept, Shown, EveryProbeHeld, Complete, Done, Holding, Result, Value,
         Probes, Kinds, Objective, vars, cluster, grade
<1>2. GradingInv /\ [Next]_vars => GradingInv'
  BY <1>1, BeginKeeps, InspectKeeps, InspectFailsKeeps, FollowKeeps, StrayKeeps, ControllersKeep
     DEF Next
<1> QED BY <1>2, InitHolds, PTL DEF Spec

(* A grade, a verdict and the environment are always what they should be:  *)
(* no probe is asked for that the challenge does not have, and an object   *)
(* that is not there has no fields (session.go:181-206).                   *)
THEOREM GradingTypeCorrect == Spec => []TypeOK
<1>1. GradingInv => TypeOK
  BY DEF GradingInv
<1> QED BY <1>1, GradingHolds, PTL

(* A verdict of completion has had every probe hold in the course of this  *)
(* very grade, however often kubectl fails, and whatever the player and the*)
(* controllers do between two probes (session.go:181-206).                 *)
THEOREM CompletionIsEarned == Spec => []EveryProbeHeld
<1>1. GradingInv => EveryProbeHeld
  BY DEF GradingInv
<1> QED BY <1>1, GradingHolds, PTL

-----------------------------------------------------------------------------
(* A step that ends a grade is a probe's result, and the histories stay.   *)
LEMMA GradeEnds ==
  ASSUME GradingInv, Next, at # 0, at' = 0
  PROVE  /\ failures' = failures => Grade(Result(Probes[at]))
         /\ \E result : Grade(result)
         /\ failures' = failures \/ failures' > failures
<1>1. ~Begin
  BY DEF Begin
<1>2. ~Follow /\ ~Stray /\ ~Controllers
  BY DEF Follow, Stray, Controllers, Grow, Sync, Alter, Observed, grade
<1>3. CASE Inspect
  BY <1>3 DEF Inspect
<1>4. CASE InspectFails
  <2>1. failures' = failures + 1 /\ failures \in Nat /\ Grade(TimedOut)
    BY <1>4, MaxAssumption DEF InspectFails, GradingInv, TypeOK
  <2>2. failures' # failures /\ failures' > failures
    BY <2>1
  <2> QED BY <2>1, <2>2
<1> QED BY <1>1, <1>2, <1>3, <1>4 DEF Next

(* The verdict of a grade that ends is about the probe that was asked, or  *)
(* about none when that was the last one.                                  *)
LEMMA VerdictIsFirst ==
  ASSUME GradingInv, Next, at # 0, at' = 0
  PROVE  /\ 1..verdict' - 1 \subseteq passed'
         /\ verdict' \in Holding => failures' > failures
<1>1. Len(Probes) \in Nat \ {0} /\ DOMAIN Probes = 1..Len(Probes) /\ at \in 1..Len(Probes)
  <2>1. challenge \in Challenges /\ at \in 0..Len(Probes)
    BY DEF GradingInv, TypeOK
  <2>2. Len(Probes) \in Nat \ {0} /\ DOMAIN Probes = 1..Len(Probes)
    BY <2>1, ChallengeLists
  <2> QED BY <2>1, <2>2
<1>2. PICK result : Grade(result)
  BY GradeEnds
<1>3. passed' = passed
  BY <1>2 DEF Grade
<1>4. 1..at - 1 \subseteq passed /\ Holding \subseteq passed /\ passed \subseteq DOMAIN Probes
  BY DEF GradingInv, Shown, TypeOK
<1>5. CASE verdict' = at
  <2>1. 1..verdict' - 1 \subseteq passed'
    BY <1>3, <1>4, <1>5
  <2>2. ASSUME failures' = failures PROVE at \notin Holding
    <3>1. Grade(Result(Probes[at]))
      BY <2>2, GradeEnds
    <3>2. ~Passes(Probes[at], Result(Probes[at]))
      <4>1. SUFFICES ASSUME Passes(Probes[at], Result(Probes[at])) PROVE FALSE
        OBVIOUS
      <4>2. at' = (at + 1) % (Len(Probes) + 1)
            /\ verdict' = IF at = Len(Probes) THEN Done ELSE verdict
        BY <3>1, <4>1 DEF Grade, Done
      <4>3. at = Len(Probes)
        BY <1>1, <4>2, NextProbe, at' = 0
      <4>4. verdict' = Len(Probes) + 1
        BY <4>2, <4>3 DEF Done
      <4> QED BY <1>1, <1>5, <4>3, <4>4
    <3> QED BY <3>2 DEF Holding
  <2> QED BY <1>5, <2>1, <2>2, GradeEnds
<1>6. CASE verdict' # at
  <2>1. Passes(Probes[at], result)
    BY <1>2, <1>6 DEF Grade
  <2>2. at' = (at + 1) % (Len(Probes) + 1)
        /\ verdict' = IF at = Len(Probes) THEN Done ELSE verdict
    BY <1>2, <2>1 DEF Grade, Done
  <2>3. at = Len(Probes)
    BY <1>1, <2>2, NextProbe, at' = 0
  <2>4. verdict' = Len(Probes) + 1 /\ verdict' - 1 = Len(Probes)
    BY <1>1, <2>2, <2>3 DEF Done
  <2>5. verdict' \notin Holding
    BY <1>1, <2>4 DEF Holding
  <2>6. EveryProbeHeld' /\ Complete'
    <3>1. GradingInv'
      BY BeginKeeps, InspectKeeps, InspectFailsKeeps, FollowKeeps, StrayKeeps, ControllersKeep
         DEF Next
    <3>2. Done' = Done
      BY <1>2 DEF Grade, Done, Probes
    <3>3. Complete'
      BY <2>2, <2>3, <3>2 DEF Complete
    <3> QED BY <3>1, <3>3 DEF GradingInv
  <2>7. passed' = 1..Len(Probes)
    <3>1. Probes' = Probes
      BY <1>2 DEF Grade, Probes
    <3> QED BY <1>1, <2>6, <3>1 DEF EveryProbeHeld
  <2> QED BY <2>4, <2>5, <2>7
<1> QED BY <1>5, <1>6

(* The Pending text names the first obstacle: whatever the cluster does    *)
(* meanwhile, the probes before it have held in the course of this very    *)
(* grade, and it did not when it was asked, unless kubectl has failed      *)
(* (session.go:181-206).                                                   *)
THEOREM VerdictNamesTheFirst == Spec => PendingIsFirst
<1>1. GradingInv /\ [Next]_vars =>
        [at # 0 /\ at' = 0 =>
           /\ 1..verdict' - 1 \subseteq passed'
           /\ verdict' \in Holding => failures' > failures]_vars
  BY VerdictIsFirst
<1> QED BY <1>1, GradingHolds, PTL DEF Spec, PendingIsFirst

-----------------------------------------------------------------------------
(* What the player has not touched is as it was handed out, but for what   *)
(* the controllers make of it.                                             *)
AsHandedOut ==
  /\ objects = Given(challenge)
  /\ spec = Provisioned(challenge)
  /\ \A o \in DOMAIN stage : stage[o] # 1 => Met(challenge, o)
  /\ \A o \in DOMAIN status : status[o] \in Written(challenge, o)

(* Until then no grade has seen a broken probe hold.                       *)
FreshInv ==
  /\ GradingInv
  /\ ~touched => AsHandedOut /\ \A i \in passed : ~Broken(challenge, Probes[i])

(* A broken probe does not hold while everything is as handed out.         *)
LEMMA BrokenNeverHolds ==
  Kept /\ AsHandedOut => \A i \in Holding : ~Broken(challenge, Probes[i])
<1> SUFFICES ASSUME Kept, AsHandedOut, NEW i \in Holding, Broken(challenge, Probes[i]) PROVE FALSE
  OBVIOUS
<1> DEFINE p == Probes[i]
           o == p.object
           written == IF o \in DOMAIN status THEN status[o] ELSE <<>>
           words == IF p.field \in DOMAIN written THEN written[p.field]
                                                  ELSE Provisioned(challenge)[<<o, p.field>>]
<1>1. Passes(p, Output(p, o \in objects, Value(o, p.field)))
  BY DEF Holding, Result
<1>2. written \in Written(challenge, o)
  BY DEF Kept, AsHandedOut, Written, Kinds
<1>3. words = Value(o, p.field)
  BY DEF AsHandedOut, Value
<1>4. ~Passes(p, Output(p, o \in Given(challenge), words))
  BY <1>2 DEF Broken
<1>5. objects = Given(challenge)
  BY DEF AsHandedOut
<1> HIDE DEF p, o, written, words
<1> QED BY <1>1, <1>3, <1>4, <1>5

(* The manifest is applied and the setup commands have run.                *)
LEMMA FreshInit == Init => FreshInv
<1> SUFFICES ASSUME Init PROVE FreshInv
  OBVIOUS
<1>1. GradingInv
  BY InitHolds
<1>2. \A o \in DOMAIN status : status[o] \in Written(challenge, o)
  BY DEF Init, Written, Kinds
<1>3. AsHandedOut
  BY <1>2 DEF Init, AsHandedOut
<1> QED BY <1>1, <1>3 DEF FreshInv, Init

(* What grades see of an untouched environment is in their histories.      *)
LEMMA ObservedFresh ==
  ASSUME FreshInv, Observed, AsHandedOut', GradingInv', ~touched
  PROVE  FreshInv'
<1>1. challenge' = challenge /\ Probes' = Probes
  BY DEF Observed, Probes
<1>2. \A i \in passed : ~Broken(challenge, Probes[i])
  BY DEF FreshInv
<1>3. \A i \in Holding' : ~Broken(challenge', Probes'[i])
  <2>1. (\A i \in Holding : ~Broken(challenge, Probes[i]))'
    BY BrokenNeverHolds, PTL DEF GradingInv
  <2> QED BY <2>1
<1>4. passed' \subseteq passed \cup Holding'
  BY DEF Observed
<1> QED BY <1>1, <1>2, <1>3, <1>4 DEF FreshInv

(* A controller brings a status no further than it may come untouched.     *)
LEMMA ControllersFresh == FreshInv /\ Controllers => FreshInv'
<1> SUFFICES ASSUME FreshInv, NEW o \in DOMAIN stage, Grow(o) \/ Sync(o) PROVE FreshInv'
  BY DEF Controllers
<1>1. Controllers
  BY DEF Controllers
<1>2. GradingInv /\ GradingInv'
  BY <1>1, ControllersKeep DEF FreshInv
<1>3. Observed /\ objects' = objects /\ spec' = spec /\ touched' = touched /\ challenge' = challenge
  BY DEF Grow, Sync, Observed
<1>4. CASE touched
  BY <1>2, <1>3, <1>4 DEF FreshInv
<1>5. CASE ~touched
  <2>1. AsHandedOut /\ DOMAIN stage = DOMAIN Kinds /\ DOMAIN status = DOMAIN Kinds
    BY <1>2, <1>5 DEF FreshInv, GradingInv, Kept
  <2>2. DOMAIN stage' = DOMAIN stage /\ DOMAIN status' = DOMAIN status
    BY DEF Grow, Sync
  <2>3. \A i \in DOMAIN stage' : stage'[i] # 1 => Met(challenge, i)
    <3>1. CASE Grow(o)
      <4>1. Met(challenge, o)
        BY <2>1, <3>1 DEF Grow, AsHandedOut, Met, Kinds
      <4> QED BY <2>1, <3>1, <4>1 DEF Grow, AsHandedOut
    <3>2. CASE Sync(o)
      BY <2>1, <3>2 DEF Sync, AsHandedOut
    <3> QED BY <3>1, <3>2
  <2>4. \A i \in DOMAIN status' : status'[i] \in Written(challenge, i)
    <3>1. CASE Grow(o)
      BY <2>1, <3>1 DEF Grow, AsHandedOut
    <3>2. CASE Sync(o)
      <4>1. stage[o] \in DOMAIN Kinds[o].stages
        BY <1>2 DEF GradingInv, TypeOK
      <4>2. stage[o] = 1 \/ Met(challenge, o)
        BY <2>1 DEF AsHandedOut
      <4>3. Kinds[o].stages[stage[o]] \in Written(challenge, o)
        BY <2>1, <4>1, <4>2 DEF Written, Kinds
      <4> QED BY <2>1, <3>2, <4>3 DEF Sync, AsHandedOut
    <3> QED BY <3>1, <3>2
  <2>5. AsHandedOut'
    BY <1>3, <2>1, <2>3, <2>4 DEF AsHandedOut
  <2> QED BY <1>2, <1>3, <1>5, <2>5, ObservedFresh
<1> QED BY <1>4, <1>5

(* A grade changes nothing of the environment, and a new one sees what is  *)
(* there.                                                                  *)
LEMMA GradesFresh == FreshInv /\ (Begin \/ Inspect \/ InspectFails) => FreshInv'
<1> SUFFICES ASSUME FreshInv, Begin \/ Inspect \/ InspectFails PROVE FreshInv'
  OBVIOUS
<1>1. GradingInv /\ GradingInv'
  BY BeginKeeps, InspectKeeps, InspectFailsKeeps DEF FreshInv
<1>2. UNCHANGED <<challenge, objects, spec, stage, status, touched>>
  BY DEF Begin, Inspect, InspectFails, Grade, cluster
<1>3. AsHandedOut' = AsHandedOut /\ Probes' = Probes
  BY <1>2 DEF AsHandedOut, Probes
<1>4. CASE touched
  BY <1>1, <1>2, <1>4 DEF FreshInv
<1>5. CASE ~touched
  <2>1. AsHandedOut /\ Kept
    BY <1>1, <1>5 DEF FreshInv, GradingInv
  <2>2. \A i \in passed \cup Holding : ~Broken(challenge, Probes[i])
    BY <1>5, <2>1, BrokenNeverHolds DEF FreshInv
  <2>3. passed' \subseteq passed \cup Holding
    BY DEF Begin, Inspect, InspectFails, Grade
  <2>4. \A i \in passed' : ~Broken(challenge', Probes'[i])
    BY <1>2, <1>3, <2>2, <2>3
  <2> QED BY <1>1, <1>3, <2>1, <2>4 DEF FreshInv
<1> QED BY <1>4, <1>5

(* FreshInv is inductive.                                                  *)
LEMMA FreshHolds == Spec => []FreshInv
<1>1. FreshInv /\ (Follow \/ Stray) => FreshInv'
  BY FollowKeeps, StrayKeeps DEF FreshInv, Follow, Stray, Alter
<1>2. FreshInv /\ UNCHANGED vars => FreshInv'
  <2> SUFFICES ASSUME FreshInv, UNCHANGED vars PROVE FreshInv'
    OBVIOUS
  <2>1. GradingInv'
    BY DEF FreshInv, GradingInv, TypeOK, Kept, Shown, EveryProbeHeld, Complete, Done, Holding,
           Result, Value, Probes, Kinds, Objective, vars, cluster, grade
  <2> QED BY <2>1 DEF FreshInv, AsHandedOut, Probes, vars, cluster
<1>3. FreshInv /\ [Next]_vars => FreshInv'
  BY <1>1, <1>2, GradesFresh, ControllersFresh DEF Next
<1> QED BY <1>3, FreshInit, PTL DEF Spec

(* No challenge whose manifest and setup leave one probe broken completes  *)
(* by itself, over any number of grades, controllers' steps, warnings and  *)
(* failed calls: not before the player has done something                  *)
(* (challenges_*.go, session.go:181-206).                                  *)
THEOREM NoneIsHandedOutSolved == Spec => []FreshIsUnsolved
<1>1. FreshInv => FreshIsUnsolved
  <2> SUFFICES ASSUME FreshInv, Complete, ~touched PROVE FALSE
    BY DEF FreshIsUnsolved, FreshInv, GradingInv, TypeOK
  <2>1. passed = DOMAIN Probes /\ challenge \in Challenges
    BY DEF FreshInv, GradingInv, EveryProbeHeld, TypeOK
  <2>2. PICK i \in DOMAIN Probes : Broken(challenge, Probes[i])
    BY <2>1, BrokenAssumption DEF Probes
  <2> QED BY <2>1, <2>2 DEF FreshInv
<1> QED BY <1>1, FreshHolds, PTL
=============================================================================
