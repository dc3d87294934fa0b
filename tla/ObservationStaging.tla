------------------------- MODULE ObservationStaging -------------------------
(* Where the observations of a browser wait until its run is finalized.  Two  *)
(* stores offer the same three operations: BrowserObservationLedger           *)
(* (src/src/analysis/browser_observation.cpp), which lives in the server's    *)
(* memory and has room for MaxRuns runs, and HostedBrowserObservationStore    *)
(* (src/src/app/hosted_browser_observations.cpp), rows that outlive it.  Each *)
(* operation holds the lock of its store, or is one transaction, so each is   *)
(* one step.  One owner, one game.                                            *)
(*                                                                            *)
(* The ledger finds an earlier observation by ply and sequence, the store by  *)
(* sequence.  As an observation is only taken at the next sequence number,    *)
(* both hold observation n at place n + 1, and an answer differs in nothing   *)
(* but the words of the error.                                                *)
EXTENDS Naturals, Sequences, FiniteSets
CONSTANT MaxRuns
ASSUME MaxRunsAssumption == MaxRuns \in Nat \ {0}

VARIABLES
  durable,    \* the rows of PostgreSQL, or the ledger
  runs        \* registered run -> how many observations it expects, those it has, finalized

NewRun(expected) == [expected |-> expected, observations |-> <<>>, finalized |-> FALSE]

InitStaging(kept) == durable = kept /\ runs = <<>>

\* begin: a run that is registered stays as it is, if it is meant the same way.
BeginRefused(run, expected) ==
  IF run \in DOMAIN runs THEN runs[run].expected # expected
  ELSE ~durable /\ Cardinality(DOMAIN runs) >= MaxRuns

\* mutant: a repeated begin registers the run afresh
Registered_Afresh(run, expected) ==
  [r \in DOMAIN runs \cup {run} |-> IF r = run THEN NewRun(expected) ELSE runs[r]]
Registered(run, expected) ==
  [r \in DOMAIN runs \cup {run} |-> IF r \in DOMAIN runs THEN runs[r] ELSE NewRun(expected)]

\* mutant: an observation that is sent again is not compared with the first
Replay_Trusted(first, observation) == "duplicate"
Replay(first, observation) == IF first = observation THEN "duplicate" ELSE "conflict"

\* What submit answers.
Receipt(run, observation) ==
  IF run \notin DOMAIN runs THEN "unregistered"
  ELSE LET r == runs[run] IN
       IF observation.sequence < Len(r.observations)
       THEN Replay(r.observations[observation.sequence + 1], observation)
       ELSE IF r.finalized THEN "finalized"
       ELSE IF Len(r.observations) >= r.expected THEN "complete"
       ELSE IF observation.sequence # Len(r.observations) THEN "outOfOrder"
       ELSE "accepted"

Submitted(run, observation) ==
  IF Receipt(run, observation) = "accepted"
  THEN [runs EXCEPT ![run].observations = Append(@, observation)]
  ELSE runs

FinalizeRefused(run) ==
  run \notin DOMAIN runs \/ Len(runs[run].observations) # runs[run].expected

Finalized(run) == [runs EXCEPT ![run].finalized = TRUE]

\* The server starts again: the ledger is empty.
Reopened == IF durable THEN runs ELSE <<>>
=============================================================================
