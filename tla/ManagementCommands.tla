-------------------------- MODULE ManagementCommands --------------------------
(***************************************************************************)
(* Management commands between the server and the terminal.  The terminal  *)
(* posts its open positions; the server (ea-bridge-service.js) decides     *)
(* what to do with each, queues the commands and also returns them in its  *)
(* reply; the terminal polls the queue.  The terminal (SignalBridge-MT5.mq5*)
(* and -MT4.mq4) finds the commands in the text of a reply and executes    *)
(* them.                                                                   *)
(*                                                                         *)
(* A text is a sequence of characters and words: a word stands for letters *)
(* between two quotes, colons or commas, which is all the scanner tells    *)
(* apart.  Of a command's fields only those the terminal needs are kept,   *)
(* in the order they are written.                                          *)
(***************************************************************************)
EXTENDS Integers, Sequences, FiniteSets, SequencesExt

CONSTANTS
  Position,      \* symbols of the open positions
  Multiples,     \* profits of a position in tenths of its risk
  MaxQueue,      \* managementQueueMax
  PollLimit,     \* commands handed out per poll
  MaxMade        \* commands made (a bound)

VARIABLES
  mgmtQueue,   \* managementQueue of the broker: commands, oldest first
  mgmtReply,   \* replies on their way to the terminal
  mgmtRead,    \* history: commands in the replies the terminal got
  mgmtDone,    \* history: commands the terminal executed
  mgmtMade     \* number of commands made

mgmtVars == <<mgmtQueue, mgmtReply, mgmtRead, mgmtDone, mgmtMade>>

Quote == "q"
Colon == ":"
Backslash == "b"
-----------------------------------------------------------------------------
(***************************************************************************)
(* The server.                                                             *)
(***************************************************************************)

\* What is done with a position at r tenths of its risk: the stop is moved to the
\* entry unless it is there, a trailing stop is set, and a guard (news or data
\* quality) closes it.  Trailing is switched on (EA_DYNAMIC_TRAILING_ENABLED); partial
\* closes need a riskReward the terminal never sends.
Actions(r, atEntry, guarded) ==
  (IF r >= 10 /\ ~atEntry THEN <<"modify_sl">> ELSE <<>>)
  \o (IF r >= 12 THEN <<"trail">> ELSE <<>>)
  \o (IF guarded /\ r >= 6 THEN <<"close_position">> ELSE <<>>)

\* One command per action, numbered by the random part of its id.
Commands(s, acts) ==
  [i \in DOMAIN acts |-> [id |-> mgmtMade + i, symbol |-> s, type |-> acts[i]]]

Newest(q) == SubSeq(q, Len(q) - MaxQueue + 1, Len(q))

Text(c) ==
  <<"{", Quote, "symbol", Quote, Colon, Quote, c.symbol, Quote, ",",
    Quote, "type", Quote, Colon, Quote, c.type, Quote, "}">>

Body(cmds) == FoldLeft(LAMBDA text, c : text \o Text(c), <<>>, cmds)

Init ==
  /\ mgmtQueue = <<>>
  /\ mgmtReply = {}
  /\ mgmtRead = {} /\ mgmtDone = {}
  /\ mgmtMade = 0

\* POST agent/manage: the commands are queued, and returned as well.
Manage(s, r) ==
  /\ \E atEntry, guarded \in BOOLEAN :
       LET cmds == Commands(s, Actions(r, atEntry, guarded))
           list == mgmtQueue \o cmds IN
       /\ cmds # <<>> /\ mgmtMade + Len(cmds) <= MaxMade
       /\ mgmtQueue' = IF Len(list) > MaxQueue THEN Newest(list) ELSE list
       /\ mgmtReply' = mgmtReply \cup {cmds}
       /\ mgmtMade' = mgmtMade + Len(cmds)
  /\ UNCHANGED <<mgmtRead, mgmtDone>>

\* GET agent/commands: the expired ones (from the oldest on) are dropped, and the
\* next ones handed out.
Poll ==
  /\ \E expired \in 0..Len(mgmtQueue) :
       LET fresh == SubSeq(mgmtQueue, expired + 1, Len(mgmtQueue))
           n == IF Len(fresh) < PollLimit THEN Len(fresh) ELSE PollLimit IN
       /\ mgmtReply' = mgmtReply \cup {SubSeq(fresh, 1, n)}
       /\ mgmtQueue' = SubSeq(fresh, n + 1, Len(fresh))
  /\ mgmtQueue # <<>>
  /\ UNCHANGED <<mgmtRead, mgmtDone, mgmtMade>>

\* A reply is lost.
ReplyLost(cmds) ==
  /\ cmds \in mgmtReply
  /\ mgmtReply' = mgmtReply \ {cmds}
  /\ UNCHANGED <<mgmtQueue, mgmtRead, mgmtDone, mgmtMade>>
-----------------------------------------------------------------------------
(***************************************************************************)
(* The terminal.                                                           *)
(***************************************************************************)

\* Where the scanner is before each character: outside a string, in one, or after
\* a backslash in one.
Mode(text, start) ==
  LET mode[i \in start..Len(text)] ==
        IF i = start THEN "out"
        ELSE LET c == text[i - 1] IN
             CASE mode[i - 1] = "escaped" -> "in"
               [] mode[i - 1] = "in" /\ c = Backslash -> "escaped"
               [] mode[i - 1] = "in" /\ c = Quote -> "out"
               [] mode[i - 1] = "out" /\ c = Quote -> "in"
               [] OTHER -> mode[i - 1]
  IN mode

StartsAt(text, i, key) ==
  i + Len(key) - 1 <= Len(text) /\ SubSeq(text, i, i + Len(key) - 1) = key

\* Places where the key is looked for: a quote is consumed before the comparison.
Tried(text, start) ==
  {i \in start..Len(text) : Mode(text, start)[i] = "out" /\ text[i] # Quote}

First(S) == CHOOSE i \in S : \A j \in S : i <= j

\* JsonFindKeyOutsideString; 0: not found.
FindKey(text, key, start) ==
  LET found == {i \in Tried(text, start) : StartsAt(text, i, key)} IN
  IF found = {} THEN 0 ELSE First(found)

\* ExtractJsonString: the word between the quotes that follow the colon.
ExtractString(text, name, start) ==
  LET p == FindKey(text, <<Quote, name, Quote>>, start)
      colons == {i \in p..Len(text) : text[i] = Colon} IN
  IF p = 0 \/ colons = {} \/ text[First(colons) + 1] # Quote THEN ""
  ELSE text[First(colons) + 2]

\* The terminal looks for the text "type":" anywhere and extracts the fields from
\* there on; what has a type is executed.
Executed(text) ==
  LET at == {i \in DOMAIN text : StartsAt(text, i, <<Quote, "type", Quote, Colon, Quote>>)} IN
  {[symbol |-> ExtractString(text, "symbol", i), type |-> ExtractString(text, "type", i)] :
     i \in {j \in at : ExtractString(text, "type", j) # ""}}

ReplyArrives(cmds) ==
  /\ cmds \in mgmtReply
  /\ mgmtReply' = mgmtReply \ {cmds}
  /\ mgmtRead' = mgmtRead \cup {[symbol |-> cmds[i].symbol, type |-> cmds[i].type] : i \in DOMAIN cmds}
  /\ mgmtDone' = mgmtDone \cup Executed(Body(cmds))
  /\ UNCHANGED <<mgmtQueue, mgmtMade>>
-----------------------------------------------------------------------------
Next ==
  \/ \E s \in Position, r \in Multiples : Manage(s, r)
  \/ Poll
  \/ \E cmds \in mgmtReply : ReplyLost(cmds) \/ ReplyArrives(cmds)

Spec == Init /\ [][Next]_mgmtVars
-----------------------------------------------------------------------------
\* Every command in a reply that reached the terminal has been executed.
CommandsAreExecuted == mgmtRead \subseteq mgmtDone
=============================================================================
