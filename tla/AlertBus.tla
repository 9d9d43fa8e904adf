------------------------------- MODULE AlertBus -------------------------------
(***************************************************************************)
(* The alert bus (src/infrastructure/services/alerting/alert-bus.js), for  *)
(* the alerts of one key.  Their publisher publishes as long as its        *)
(* condition stands; within a window after an alert the same one is        *)
(* dropped.  The window begins when an alert is taken, before any channel  *)
(* has delivered it, and a channel that fails is not tried again.          *)
(***************************************************************************)
EXTENDS Integers

CONSTANTS
  AlertChannel, \* channels of the alert
  DedupeTime    \* dedupeMs, in units of the time between two alerts

VARIABLES
  stands,       \* the condition of the alert holds
  window,       \* time until the entry of the key in recentEvents expires
  sending,      \* channels that have still to deliver
  undelivered   \* history: channels that failed for the last alert

alertVars == <<stands, window, sending, undelivered>>

Init ==
  /\ stands = FALSE /\ window = 0
  /\ sending = {} /\ undelivered = {}
-----------------------------------------------------------------------------
ConditionTurns ==
  /\ stands' = ~stands
  /\ UNCHANGED <<window, sending, undelivered>>

\* publish: within the window of its key the alert is dropped.
Duplicate == window > 0

\* Otherwise it is recorded, and sent on every channel; the publisher awaits them all.
Publish ==
  /\ stands /\ sending = {}
  /\ ~Duplicate
  /\ window' = DedupeTime
  /\ sending' = AlertChannel
  /\ undelivered' = {}
  /\ UNCHANGED stands

\* (faulty variant: a dropped alert starts the window anew)
PublishDroppedRenews ==
  /\ stands /\ Duplicate
  /\ window' = DedupeTime
  /\ UNCHANGED <<stands, sending, undelivered>>

\* A dropped alert changes nothing.
PublishDropped ==
  /\ stands /\ Duplicate
  /\ UNCHANGED alertVars

\* dispatch: a channel delivers, or fails, which is logged and forgotten.
Dispatch(c, ok) ==
  /\ c \in sending
  /\ sending' = sending \ {c}
  /\ undelivered' = IF ok THEN undelivered ELSE undelivered \cup {c}
  /\ UNCHANGED <<stands, window>>

\* purgeExpired
WindowRuns ==
  /\ window > 0
  /\ window' = window - 1
  /\ UNCHANGED <<stands, sending, undelivered>>
-----------------------------------------------------------------------------
Next ==
  \/ ConditionTurns
  \/ Publish \/ PublishDropped
  \/ \E c \in AlertChannel, ok \in BOOLEAN : Dispatch(c, ok)
  \/ WindowRuns

Spec == Init /\ [][Next]_alertVars

\* A publisher whose condition stands publishes, channels end, and time passes.
Fairness ==
  /\ WF_alertVars(Publish)
  /\ \A c \in AlertChannel : WF_alertVars(\E ok \in BOOLEAN : Dispatch(c, ok))
  /\ WF_alertVars(WindowRuns)

FairSpec == Spec /\ Fairness
-----------------------------------------------------------------------------
\* An alert that a channel failed to deliver is sent to it again while its condition
\* stands, although the failed one counts as sent: its window ends.
AlertsAreRepeated ==
  \A c \in AlertChannel : c \in undelivered ~> (c \in sending \/ ~stands)
=============================================================================
