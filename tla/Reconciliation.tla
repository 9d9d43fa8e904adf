---------------------------- MODULE Reconciliation ----------------------------
(***************************************************************************)
(* BrokerReconciliationService                                             *)
(* (src/infrastructure/services/brokers/reconciliation-service.js): asks   *)
(* the brokers for their fills at an interval.  A run starts when its      *)
(* timer fires and sets the next timer when it ends, so the service is a   *)
(* chain of timers and runs; start and stop know only the timer whose      *)
(* handle they hold.                                                       *)
(***************************************************************************)
EXTENDS Integers

CONSTANTS
  MaxChains     \* chains of timers and runs (a bound)

VARIABLES
  timers,       \* timeouts that will fire
  handle,       \* this.timer holds one of them
  runs,         \* runs that await the brokers
  wanted,       \* history: the last of start and stop was start
  doubled,      \* history: started while a run was under way
  outlived      \* history: stopped while a run was under way

reconVars == <<timers, handle, runs, wanted, doubled, outlived>>

Init ==
  /\ timers = 0 /\ runs = 0
  /\ handle = FALSE
  /\ wanted = FALSE /\ doubled = FALSE /\ outlived = FALSE
-----------------------------------------------------------------------------
Start ==
  /\ ~handle /\ timers + runs < MaxChains
  /\ timers' = timers + 1
  /\ handle' = TRUE /\ wanted' = TRUE
  /\ doubled' = (doubled \/ runs > 0)
  /\ UNCHANGED <<runs, outlived>>

\* (faulty variant: the timeout is not cleared)
StopKeepsTimeout ==
  /\ handle' = FALSE /\ wanted' = FALSE
  /\ outlived' = (outlived \/ runs > 0)
  /\ UNCHANGED <<timers, runs, doubled>>

Stop ==
  /\ IF handle THEN timers' = timers - 1 ELSE UNCHANGED timers
  /\ handle' = FALSE /\ wanted' = FALSE
  /\ outlived' = (outlived \/ runs > 0)
  /\ UNCHANGED <<runs, doubled>>

\* A timer fires, the one of the handle or another: the handle is cleared either way.
Fire ==
  /\ timers > 0
  /\ timers' = timers - 1
  /\ runs' = runs + 1
  /\ handle' = FALSE
  /\ UNCHANGED <<wanted, doubled, outlived>>

\* A run ends, with the fills taken over or with an error, and schedules the next one.
EndRun ==
  /\ runs > 0
  /\ runs' = runs - 1
  /\ timers' = timers + 1
  /\ handle' = TRUE
  /\ UNCHANGED <<wanted, doubled, outlived>>
-----------------------------------------------------------------------------
Next == Start \/ Stop \/ Fire \/ EndRun

Spec == Init /\ [][Next]_reconVars
-----------------------------------------------------------------------------
\* The service reconciles along more than one chain only when it was started while a
\* run was under way, and it goes on after the last stop only when it was stopped
\* while one was, or when there were several chains; its handle always belongs to a
\* timer that will fire.
ChainsExplained ==
  /\ timers + runs > 1 => doubled
  /\ ~wanted /\ timers + runs > 0 => outlived \/ doubled
  /\ handle => timers > 0
=============================================================================
