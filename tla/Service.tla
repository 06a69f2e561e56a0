------------------------------ MODULE Service ------------------------------
(***************************************************************************)
(* What the models of the server's parts share: the requests being served, *)
(* and the bounds within which requests arrive and things go wrong.  The   *)
(* code has none of these bounds; each counter is there to keep TLC's      *)
(* instances finite.                                                       *)
(***************************************************************************)
EXTENDS Naturals, FiniteSets

CONSTANTS
  Nil,            \* the absence of a value
  Calls,          \* requests served at the same time
  MaxRequests,    \* bound: requests that arrive
  MaxFaults,      \* bound: failures of the database or of another service
  MaxCrashes,     \* bound: restarts of the server
  MaxTroubles     \* bound: failures and restarts together

ASSUME ServiceAssumption ==
  MaxRequests \in Nat /\ MaxFaults \in Nat /\ MaxCrashes \in Nat /\ MaxTroubles \in Nat

\* The server serves requests, and finitely many at a time.
ASSUME CallsAreFinite == IsFiniteSet(Calls) /\ Calls # {}

VARIABLES requests, faults, crashes

budgetVars == <<requests, faults, crashes>>

BudgetInit == requests = 0 /\ faults = 0 /\ crashes = 0

BudgetOK == requests \in 0..MaxRequests /\ faults \in 0..MaxFaults /\ crashes \in 0..MaxCrashes

Arriving == requests < MaxRequests /\ requests' = requests + 1 /\ UNCHANGED <<faults, crashes>>

Trouble == faults + crashes < MaxTroubles

Failing ==
  faults < MaxFaults /\ Trouble /\ faults' = faults + 1 /\ UNCHANGED <<requests, crashes>>

Crashing ==
  crashes < MaxCrashes /\ Trouble /\ crashes' = crashes + 1 /\ UNCHANGED <<requests, faults>>

Working == UNCHANGED budgetVars
=============================================================================
