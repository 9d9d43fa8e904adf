---------------------------- MODULE ExecutionAnswer ----------------------------
(***************************************************************************)
(* The answer of the EA bridge to a terminal that asks for a signal to     *)
(* execute (getSignalForExecution in ea-bridge-service.js), for one pair,  *)
(* beside the assessments of its data (DataQuality).  The terminal's quote *)
(* and snapshot are looked at first, then the analysis is awaited, then    *)
(* the guards decide whether the terminal is told to execute.              *)
(*                                                                         *)
(* The data quality guard goes through the reports of the symbols the      *)
(* dashboard follows.  A poll puts its pair among them before the await;   *)
(* the dashboard replaces all of them whenever its user picks others.      *)
(* Left out: the guard reads at most 200 of them, and in full-scan mode    *)
(* every symbol that the terminal streams.                                 *)
(***************************************************************************)
EXTENDS DataQuality

CONSTANTS
  Poll          \* polls under way at once (a bound)

VARIABLES
  asking,       \* polls that await the analysis
  followed,     \* the pair is in activeSymbols of the broker
  halted,       \* news, session, spread or a losing streak pauses trading
  told,         \* history: polls whose last answer was to execute
  dropped       \* history: polls during whose await the dashboard dropped the pair

pollVars == <<asking, followed, halted, told, dropped>>
answerVars == <<qualityVars, pollVars>>

AnswerInit ==
  /\ Init
  /\ asking = {} /\ told = {} /\ dropped = {}
  /\ followed = FALSE
  /\ halted \in BOOLEAN
-----------------------------------------------------------------------------
\* The terminal asks.  With a quote, and a snapshot or enough bars, the analysis
\* starts and the pair is followed; otherwise the answer is that it is not ready.
Ask(p, ready) ==
  /\ p \notin asking
  /\ told' = told \ {p}
  /\ IF ready
     THEN /\ asking' = asking \cup {p}
          /\ followed' = TRUE
          /\ dropped' = dropped \ {p}
     ELSE UNCHANGED <<asking, followed, dropped>>
  /\ UNCHANGED <<qualityVars, halted>>

\* The data quality guard: a report blocks, however old it is, while its symbol is
\* followed.
Blocks == followed /\ report.blocks

\* (faulty variant: the guards that need no report are left out)
EnabledByReport(p) == ~Blocks

\* shouldEnableTradingForExecution: the guards are computed after the await.
Enabled(p) == ~halted /\ ~Blocks

\* The analysis is there.  Whether its signal may be executed (not expired, its layers
\* ready, a valid entry, strong enough, approved by the intelligent trade manager) is
\* a free choice.
Answer(p, executable) ==
  /\ p \in asking
  /\ asking' = asking \ {p}
  /\ told' = IF executable /\ Enabled(p) THEN told \cup {p} ELSE told
  /\ UNCHANGED <<qualityVars, followed, halted, dropped>>

\* setActiveSymbols: the dashboard follows other symbols, or this pair.
Follow(follows) ==
  /\ followed' = follows
  /\ dropped' = IF follows THEN dropped ELSE dropped \cup asking
  /\ UNCHANGED <<qualityVars, asking, halted, told>>

\* A guard begins or ends to pause.
GuardTurns ==
  /\ halted' = ~halted
  /\ UNCHANGED <<qualityVars, asking, followed, told, dropped>>
-----------------------------------------------------------------------------
AnswerNext ==
  \/ Next /\ UNCHANGED pollVars
  \/ \E p \in Poll, b \in BOOLEAN : Ask(p, b) \/ Answer(p, b)
  \/ \E follows \in BOOLEAN : Follow(follows)
  \/ GuardTurns

AnswerSpec == AnswerInit /\ [][AnswerNext]_answerVars
-----------------------------------------------------------------------------
\* No terminal is told to execute while a guard pauses, nor while the breaker of the
\* pair is open, whatever happened during the await; the latter unless the dashboard
\* dropped the pair meanwhile, which hides its report from the guard.
NoEntryWhilePaused ==
  [][\A p \in told' \ told : ~halted /\ (Open => p \in dropped)]_answerVars
=============================================================================
