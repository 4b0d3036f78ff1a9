-------------------------------- MODULE Grading --------------------------------
(***************************************************************************)
(* How a challenge is graded: Manager.grade of internal/game/session.go,   *)
(* one kubectl call per probe, while the player and the cluster go on.     *)
(* The challenge is any of the Catalog.                                    *)
(*                                                                         *)
(* The environment is the objects there are and the fields of their specs; *)
(* stage is how far its Pods, Jobs or addresses really are, and status     *)
(* what a controller last wrote about it.  An output is the sequence of    *)
(* its words.                                                              *)
(***************************************************************************)
EXTENDS Catalog, SequencesExt

CONSTANTS
  Challenges,   \* the ids to play
  Warned,       \* kinds for which kubectl prints a warning on stderr
  MaxFailures,  \* bound: kubectl calls that fail
  MaxStrays     \* bound: changes that nothing told the player to make

ASSUME ChallengesAssumption == Challenges \subseteq DOMAIN allChallenges
ASSUME MaxAssumption == MaxFailures \in Nat /\ MaxStrays \in Nat

(* The catalogue's entries, as written: a list of probes and of stages is  *)
(* never empty, a setup command alters what the manifest has created, and  *)
(* what the manifest creates is probed or needed.                          *)
IsList(s) == s \in Seq(Range(s)) \ {<<>>}

WellFormed(c) ==
  LET probed == {c.probes[i].object : i \in DOMAIN c.probes}
      needed == {f.object : f \in UNION {c.status[o].needs : o \in DOMAIN c.status}}
  IN /\ IsList(c.probes)
     /\ {f.object : f \in c.setup} \subseteq {f.object : f \in c.given}
     /\ {f.object : f \in c.given} \subseteq probed \cup needed
     /\ \A o \in DOMAIN c.status : IsList(c.status[o].stages)

ASSUME CatalogAssumption == \A c \in Challenges : WellFormed(allChallenges[c])

VARIABLES
  challenge,  \* Session.Challenge
  objects,    \* those that exist in the environment
  spec,       \* <<object, field>> -> words
  stage,      \* object with a status -> how far it is
  status,     \* object with a status -> field -> words, as last written
  at,         \* the probe that grade is about to run; 0 between two grades
  verdict,    \* the last grade's: the probe that failed, Done, or 0 for none
  passed,     \* history: the probes that held at some time during this grade
  met,        \* history: so did the objective
  touched,    \* history: the player has changed something
  failures, strays

cluster == <<objects, spec, stage, status>>
grade == <<at, verdict>>
vars == <<challenge, cluster, grade, passed, met, touched, failures, strays>>

Probes == allChallenges[challenge].probes
Kinds == allChallenges[challenge].status
Done == Len(Probes) + 1
Complete == verdict = Done

-----------------------------------------------------------------------------
Surplus == 1  \* bound: a number is at most that much above what is asked

(* What a challenge is about: the fields that its probes, and the needs of *)
(* its statuses, name; to each two values that are right, and a wrong one. *)
IsGone(p) == p.field = "nameIfFound"
InStatus(kinds, p) == p.object \in DOMAIN kinds /\ p.field \in DOMAIN kinds[p.object].fresh

Values(p) ==
  CASE p.kind = "Unordered" -> << p.value, Reverse(p.value), Append(p.value, "delete") >>
    [] p.kind = "AtLeast"   -> << <<ToString(p.value)>>, <<ToString(p.value + Surplus)>>,
                                  <<ToString(p.value - 1)>> >>
    [] p.field = "name"     -> [i \in 1..3 |-> <<p.object[2]>>]
    [] OTHER                -> << p.value, p.value, <<"other">> >>

Fields == [c \in Challenges |->
  LET kinds == allChallenges[c].status
      probes == allChallenges[c].probes
      asking == {i \in DOMAIN probes : ~InStatus(kinds, probes[i]) /\ ~IsGone(probes[i])}
      asked(q) == {i \in asking : q = <<probes[i].object, probes[i].field>>}
      needs == UNION {kinds[o].needs : o \in DOMAIN kinds}
      needed(q) == {f \in needs : q = <<f.object, f.field>>}
  IN [q \in {<<probes[i].object, probes[i].field>> : i \in asking}
             \cup {<<f.object, f.field>> : f \in needs} |->
        IF asked(q) # {} THEN Values(probes[CHOOSE i \in asked(q) : TRUE])
        ELSE LET f == CHOOSE f \in needed(q) : TRUE
             IN << f.value, f.value, <<"other">> >>]]

Right(q) == {Fields[challenge][q][i] : i \in 1..2}

(* The objective: everything asked for is so, and really so.               *)
Objective ==
  /\ \A q \in DOMAIN spec : q[1] \in objects /\ spec[q] \in Right(q)
  /\ \A o \in DOMAIN stage : o \in objects /\ stage[o] = Len(Kinds[o].stages)
  /\ \A i \in DOMAIN Probes : IsGone(Probes[i]) => Probes[i].object \notin objects

-----------------------------------------------------------------------------
(* Inspect: an exit code, and an output that stdout and stderr share.      *)
Value(o, field) ==
  IF o \in DOMAIN status /\ field \in DOMAIN status[o] THEN status[o][field]
                                                       ELSE spec[<<o, field>>]

Warnings(o) == IF o[1] \in Warned THEN <<"Warning:", "deprecated">> ELSE <<>>

Output(p, there, words) ==
  CASE IsGone(p) -> [code |-> 0, output |-> IF there THEN p.object ELSE <<>>]
    [] ~there    -> [code |-> 1, output |-> <<"NotFound">>]
    [] OTHER     -> [code |-> 0, output |-> Warnings(p.object) \o words]

Result(p) == Output(p, p.object \in objects, Value(p.object, p.field))

TimedOut == [code |-> 124, output |-> <<"command", "timed", "out">>]

Count(word, words) == Cardinality({i \in DOMAIN words : words[i] = word})

(* Mutant of Passes: the lists of Unordered are compared as they are.      *)
PassesInOrder(p, result) ==
  /\ result.code = 0
  /\ CASE p.kind = "NotEmpty" -> result.output # <<>>
       [] p.kind = "AtLeast"  -> \E n \in 0..Surplus : result.output = <<ToString(p.value + n)>>
       [] OTHER                   -> result.output = p.value

(* The switch of grade; the two sorted lists of Unordered are the same bag.*)
Passes(p, result) ==
  /\ result.code = 0
  /\ CASE p.kind = "NotEmpty"  -> result.output # <<>>
       [] p.kind = "Unordered" ->
            /\ Len(result.output) = Len(p.value)
            /\ \A i \in DOMAIN p.value :
                 Count(p.value[i], result.output) = Count(p.value[i], p.value)
       [] p.kind = "AtLeast"   ->
            \E n \in 0..Surplus : result.output = <<ToString(p.value + n)>>
       [] p.kind = "Equals"    -> result.output = p.value

Holding == {i \in DOMAIN Probes : Passes(Probes[i], Result(Probes[i]))}

-----------------------------------------------------------------------------
(* Mutant of Begin: the grade goes on where the last one failed.           *)
BeginWhereFailed ==
  /\ at = 0 /\ ~Complete
  /\ at' = IF verdict = 0 THEN 1 ELSE verdict
  /\ passed' = Holding /\ met' = Objective
  /\ UNCHANGED <<challenge, cluster, verdict, touched, failures, strays>>

(* A Check of a session that is not completed.                             *)
Begin ==
  /\ at = 0 /\ ~Complete
  /\ at' = 1
  /\ passed' = Holding /\ met' = Objective
  /\ UNCHANGED <<challenge, cluster, verdict, touched, failures, strays>>

(* Mutant of Grade: one probe more than there are.                         *)
GradeOneMore(result) ==
  /\ at # 0
  /\ IF Passes(Probes[at], result)
       THEN at' = at + 1 /\ UNCHANGED verdict
       ELSE at' = 0 /\ verdict' = at
  /\ UNCHANGED <<challenge, cluster, passed, met, touched>>

(* Mutant of Grade: a probe that fails does not end the grade.             *)
GradeToTheEnd(result) ==
  /\ at # 0
  /\ at' = (at + 1) % Done
  /\ verdict' = IF ~Passes(Probes[at], result) THEN at
                ELSE IF at = Len(Probes) THEN Done ELSE verdict
  /\ UNCHANGED <<challenge, cluster, passed, met, touched>>

(* The loop's body: the first probe that fails is the verdict, or all hold.*)
Grade(result) ==
  /\ at # 0
  /\ IF Passes(Probes[at], result)
       THEN /\ at' = (at + 1) % Done
            /\ verdict' = IF at = Len(Probes) THEN Done ELSE verdict
       ELSE at' = 0 /\ verdict' = at
  /\ UNCHANGED <<challenge, cluster, passed, met, touched>>

Inspect == at # 0 /\ Grade(Result(Probes[at])) /\ UNCHANGED <<failures, strays>>

InspectFails ==
  /\ failures < MaxFailures
  /\ failures' = failures + 1
  /\ Grade(TimedOut)
  /\ UNCHANGED strays

-----------------------------------------------------------------------------
(* The histories of a grade under way, after a change of the cluster.      *)
Observed ==
  /\ UNCHANGED <<challenge, grade, failures>>
  /\ passed' = IF at = 0 THEN passed ELSE passed \cup Holding'
  /\ met' = IF at = 0 THEN met ELSE met \/ Objective'

(* External: the player leaves these objects, with these specs.  What runs *)
(* for an object is replaced or stays; a new one begins afresh.            *)
Alter(to, values) ==
  /\ ~Complete
  /\ objects' = to
  /\ spec' = [q \in DOMAIN spec |-> IF q[1] \in to THEN values[q] ELSE <<>>]
  /\ \E down \in SUBSET DOMAIN stage :
       stage' = [o \in DOMAIN stage |-> IF o \in (objects \cap to) \ down THEN stage[o] ELSE 1]
  /\ status' = [o \in DOMAIN status |-> IF o \in objects \cap to THEN status[o] ELSE Kinds[o].fresh]
  /\ touched' = TRUE
  /\ Observed

(* External: the player does what the pending probe asks for and no more,  *)
(* with the rights of the environment's Role: one field, or of a status    *)
(* those that it needs.  The other fields of a new object may be wrong.    *)
Targets(p) ==
  {p.object} \cup (IF InStatus(Kinds, p) THEN {f.object : f \in Kinds[p.object].needs} ELSE {})

Asked(p) ==
  IF InStatus(Kinds, p) THEN {<<f.object, f.field>> : f \in Kinds[p.object].needs}
                        ELSE {<<p.object, p.field>>}

Follow ==
  /\ verdict \in DOMAIN Probes
  /\ LET p == Probes[verdict]
         targets == Targets(p)
         asked == Asked(p)
     IN /\ {o[1] : o \in targets} \subseteq Granted
        /\ IF IsGone(p)
             THEN p.object \in objects /\ Alter(objects \ targets, spec)
             ELSE /\ ~(targets \subseteq objects /\ \A q \in asked : spec[q] \in Right(q))
                  /\ \E i \in 1..2, other \in {1, 3} :
                       Alter(objects \cup targets,
                             [q \in DOMAIN spec |->
                                IF q \in asked THEN Fields[challenge][q][i]
                                ELSE IF q[1] \in objects THEN spec[q]
                                ELSE Fields[challenge][q][other]])
  /\ UNCHANGED strays

(* External: the player, or a controller such as an autoscaler, sets a     *)
(* field to anything, or deletes an object.                                *)
Stray ==
  /\ strays < MaxStrays
  /\ strays' = strays + 1
  /\ \/ \E o \in objects : Alter(objects \ {o}, spec)
     \/ \E q \in DOMAIN spec, i \in 1..3 :
          LET new == q[1] \notin objects
              word == Fields[challenge][q][i]
          IN /\ new \/ spec[q] # word
             /\ Alter(objects \cup {q[1]},
                      [r \in DOMAIN spec |-> IF r = q THEN word
                                             ELSE IF new /\ r[1] = q[1] THEN Fields[challenge][r][3]
                                             ELSE spec[r]])

(* External: Pods become ready, Jobs succeed, addresses are assigned ...   *)
Grow(o) ==
  /\ ~Complete /\ o \in objects /\ stage[o] < Len(Kinds[o].stages)
  /\ \A f \in Kinds[o].needs : f.object \in objects /\ spec[<<f.object, f.field>>] = f.value
  /\ stage' = [stage EXCEPT ![o] = @ + 1]
  /\ UNCHANGED <<objects, spec, status, touched, strays>>
  /\ Observed

(* ... and a controller writes the status some time later.                 *)
Sync(o) ==
  /\ ~Complete /\ o \in objects /\ status[o] # Kinds[o].stages[stage[o]]
  /\ status' = [status EXCEPT ![o] = Kinds[o].stages[stage[o]]]
  /\ UNCHANGED <<objects, spec, stage, touched, strays>>
  /\ Observed

-----------------------------------------------------------------------------
Says(facts, q) == {f.value : f \in {f \in facts : q = <<f.object, f.field>>}}

(* What the manifest says of a field, after the setup commands.            *)
Provisioned(c) ==
  [q \in DOMAIN Fields[c] |->
     LET given == Says(allChallenges[c].given, q)
         set == Says(allChallenges[c].setup, q)
     IN CHOOSE words \in (IF set # {} THEN set ELSE IF given # {} THEN given ELSE {<<>>}) : TRUE]

Given(c) == {f.object : f \in allChallenges[c].given}

(* The statuses that the controllers write of a challenge as handed out.   *)
Met(c, o) ==
  \A f \in allChallenges[c].status[o].needs :
    f.object \in Given(c) /\ Provisioned(c)[<<f.object, f.field>>] = f.value

Written(c, o) ==
  LET kind == allChallenges[c].status[o]
  IN IF o \notin DOMAIN allChallenges[c].status THEN {<<>>}
     ELSE {kind.fresh} \cup {kind.stages[n] : n \in {n \in DOMAIN kind.stages : n = 1 \/ Met(c, o)}}

(* The probe holds under none of them.                                     *)
Broken(c, p) ==
  \A written \in Written(c, p.object) :
    LET words == IF p.field \in DOMAIN written THEN written[p.field]
                                               ELSE Provisioned(c)[<<p.object, p.field>>]
    IN ~Passes(p, Output(p, p.object \in Given(c), words))

(* What is handed out is broken: the manifest, its setup commands, and what*)
(* the controllers make of these never satisfy some one probe.             *)
ASSUME BrokenAssumption ==
  \A c \in Challenges :
    \E i \in DOMAIN allChallenges[c].probes : Broken(c, allChallenges[c].probes[i])

Init ==
  /\ challenge \in Challenges
  /\ objects = Given(challenge)
  /\ spec = Provisioned(challenge)
  /\ stage = [o \in DOMAIN Kinds |-> 1]
  /\ status = [o \in DOMAIN Kinds |-> Kinds[o].fresh]
  /\ at = 0 /\ verdict = 0
  /\ passed = {} /\ met = FALSE /\ touched = FALSE
  /\ failures = 0 /\ strays = 0

Controllers == \E o \in DOMAIN stage : Grow(o) \/ Sync(o)

Next == Begin \/ Inspect \/ InspectFails \/ Follow \/ Stray \/ Controllers

(* The ticker asks for a check every second and kubectl answers; the       *)
(* cluster does its work; the player does what the verdict says.           *)
Spec == Init /\ [][Next]_vars /\ WF_vars(Begin) /\ WF_vars(Inspect) /\ WF_vars(Controllers)
             /\ WF_vars(Follow)

-----------------------------------------------------------------------------
TypeOK ==
  /\ challenge \in Challenges
  /\ objects \subseteq {Probes[i].object : i \in DOMAIN Probes}
                      \cup {q[1] : q \in DOMAIN spec} \cup DOMAIN stage
  /\ \A q \in DOMAIN spec : q[1] \notin objects => spec[q] = <<>>
  /\ \A o \in DOMAIN stage : stage[o] \in DOMAIN Kinds[o].stages
  /\ at \in 0..Len(Probes) /\ verdict \in 0..Done
  /\ passed \subseteq DOMAIN Probes
  /\ met \in BOOLEAN /\ touched \in BOOLEAN
  /\ failures \in 0..MaxFailures /\ strays \in 0..MaxStrays

(* The probes of one grade see the cluster at different times, but a       *)
(* verdict of completion has had every probe hold in the course of this    *)
(* one grade, never in an earlier one (session.go:181-206).                *)
EveryProbeHeld == Complete => passed = DOMAIN Probes

(* No challenge is handed out solved, nor solves itself: whatever its      *)
(* manifest, its setup commands and the controllers bring about, and with  *)
(* warnings in the outputs, one probe fails until the player has done      *)
(* something (challenges_*.go, kubectl.go:36-47, 104-106).                 *)
FreshIsUnsolved == Complete => touched

(* The Pending text names the first obstacle: a grade that ends with one   *)
(* has seen every probe before it hold, in the course of this one grade,   *)
(* and this one not, unless kubectl has failed; a grade that ends with     *)
(* none has seen all of them hold (session.go:181-206).                    *)
PendingIsFirst ==
  [][ at # 0 /\ at' = 0 =>
        /\ 1..verdict' - 1 \subseteq passed'
        /\ verdict' \in Holding => failures' > failures ]_vars

(* The Pending text leads on: a player who, check after check, repairs the *)
(* one field that the verdict is about completes the challenge, whatever   *)
(* went astray on the way; no probe asks for what another one forbids, or  *)
(* for what the Role does not allow (session.go:201-205,                   *)
(* manifest.go:27-50).                                                     *)
PendingLeadsOn == <>Complete

(* Completion means that the objective was met, at some moment of the      *)
(* grade (the Objective texts of challenges_*.go).                         *)
CompleteIsMet == Complete => met
=============================================================================
