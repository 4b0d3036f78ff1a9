----------------------------- MODULE SessionPool -----------------------------
(***************************************************************************)
(* What the session manager promises about its limit: environments are     *)
(* prepared for callers that hold one of Max places, a place turns into a  *)
(* session or is given back, and a session leaves once.  It says nothing   *)
(* of namespaces, counters or locks; SessionManager implements it.         *)
(***************************************************************************)
EXTENDS Naturals, FiniteSets

CONSTANTS
  Ids,    \* sessions
  Calls,  \* callers of Create
  Max     \* -max-sessions

VARIABLES
  preparing,  \* callers whose environment is being prepared
  playing     \* sessions a player can use

vars == <<preparing, playing>>

Init == preparing = {} /\ playing = {}

Reserve(c) ==
  /\ c \notin preparing
  /\ Cardinality(preparing) + Cardinality(playing) < Max
  /\ preparing' = preparing \cup {c}
  /\ UNCHANGED playing

Abort(c) ==
  /\ c \in preparing
  /\ preparing' = preparing \ {c}
  /\ UNCHANGED playing

Activate(c, i) ==
  /\ c \in preparing /\ i \notin playing
  /\ preparing' = preparing \ {c}
  /\ playing' = playing \cup {i}

Leave(S) ==
  /\ S # {} /\ S \subseteq playing
  /\ playing' = playing \ S
  /\ UNCHANGED preparing

(* The process that holds the pool ends, and its memory with it.           *)
Reset == preparing' = {} /\ playing' = {}

Next ==
  \/ \E c \in Calls : Reserve(c) \/ Abort(c) \/ \E i \in Ids : Activate(c, i)
  \/ \E S \in SUBSET Ids : Leave(S)
  \/ Reset

Spec == Init /\ [][Next]_vars
=============================================================================
