-------------------------- MODULE ScpiAnalyzerDriver --------------------------
(***************************************************************************)
(* The driver of the swept analyzers                                       *)
(* (src/drivers/scpi/ScpiAnalyzerDriver.cpp) on a line transport, called   *)
(* as the engine and the run controller call it: open, identify, then      *)
(* configureSweep, armAndTrigger, fetchTrace over and over -- from the     *)
(* start again whenever one of them fails -- and abort() from the other    *)
(* thread at any moment.                                                   *)
(*                                                                         *)
(* What a sweep measures is named by the parameters it was configured      *)
(* with: a target.  0 stands for parameters nobody asked for as a whole,   *)
(* such as those a half-sent configuration leaves behind.  A trace is the  *)
(* reply it was parsed from: what it answers, whose sweep it shows, and    *)
(* whether that sweep was over.                                            *)
(*                                                                         *)
(* The instrument is external: it is what the driver's comments take it to *)
(* be, a machine that executes one command after the other and holds back  *)
(* the answer to *OPC? while a single sweep is under way.                  *)
(***************************************************************************)
EXTENDS InstrumentLine

CONSTANTS
  Targets,   \* sweeps the engine asks for
  MaxOpens,  \* bound: connections
  MaxLost,   \* bound: queries given up per connection
  MaxWire    \* bound: commands the instrument may lag behind

ASSUME TargetsAssumption == 0 \notin Targets
ASSUME BoundsAssumption == MaxOpens \in Nat /\ MaxLost \in Nat /\ MaxWire \in Nat

VARIABLES
  \* The driver.
  at,        \* what the worker is in the middle of, or has completed
  target,    \* m_params
  aborted,   \* m_abortRequested
  token,     \* m_abortToken, which only open() resets
  identified, \* m_identity is not empty
  result,    \* the last trace handed to the engine, and the target it is for
  \* The instrument.
  settings,  \* the parameters it is set to
  run,       \* "free" (continuous sweeping), "single" (one sweep under way), "held"
  swept,     \* the parameters of the sweep it displays
  \* Observers.
  opens,     \* connections made so far
  lost,      \* queries of this connection that were given up
  parting    \* the driver's last close() managed to send its command

driver == <<at, target, aborted, token, identified, result>>
instrument == <<settings, run, swept>>
observers == <<opens, lost, parting>>
vars == <<line, driver, instrument, observers>>

\* *CLS changes nothing that matters here.
Hold == [op |-> "hold", arg |-> 0]       \* :INITiate:CONTinuous OFF
Free == [op |-> "free", arg |-> 0]       \* :INITiate:CONTinuous ON
Set(t) == [op |-> "set", arg |-> t]
Single == [op |-> "single", arg |-> 0]   \* :INITiate:IMMediate
Ask(what) == [op |-> what, arg |-> 0]
Queries == {"idn", "opc", "trace"}

Reply(what, of, done) == [to |-> what, of |-> of, done |-> done]
NoResult == [asked |-> 0, got |-> Reply("none", 0, FALSE)]

Awaiting == {"identify", "sweep", "fetch", "label"}

Init ==
  /\ LineInit
  /\ at = "closed" /\ target = 0 /\ aborted = FALSE /\ token = FALSE
  /\ identified = FALSE /\ result = NoResult
  /\ settings = 0 /\ run = "free" /\ swept = 0
  /\ opens = 0 /\ lost = 0 /\ parting = FALSE

-----------------------------------------------------------------------------
(* Connecting.  Every connection gets a driver of its own.                 *)

\* One that fails may have opened its transport, which close() still uses.
Open(ok) ==
  /\ at = "closed" /\ opens < MaxOpens
  /\ opens' = opens + 1 /\ lost' = 0
  /\ target' = 0 /\ aborted' = FALSE /\ token' = FALSE
  /\ identified' = FALSE /\ result' = NoResult
  /\ parting' = FALSE
  /\ IF ok THEN Connected(<<Hold>>) /\ at' = "open"
           ELSE /\ at' = "broken"
                /\ \/ NotConnected
                   \/ \E sent \in Prefixes(<<Hold>>) : Connected(sent)
  /\ UNCHANGED instrument

\* A query that is written is awaited; one whose write fails may have gone out
\* all the same, and nobody will read its answer.
Query(commands, next, failed, ok) ==
  IF ok THEN Written(commands) /\ at' = next /\ UNCHANGED lost
  ELSE /\ lost < MaxLost
       /\ WriteFails(commands) /\ at' = failed /\ lost' = lost + 1

\* Identity queries run under the driver's own token, which an earlier abort may
\* have cancelled for good: the query goes out and its answer is not waited for.
QueryIdentity(next, ok) ==
  IF ok /\ token /\ replies = <<>>
  THEN lost < MaxLost /\ Written(<<Ask("idn")>>) /\ at' = "idle" /\ lost' = lost + 1
  ELSE Query(<<Ask("idn")>>, next, "idle", ok)

\* connectInstrument() asks who is there, and goes on without an answer.
AskIdentity(ok) ==
  /\ at = "open" /\ QueryIdentity("identify", ok)
  /\ UNCHANGED <<target, aborted, token, identified, result, instrument, opens, parting>>

\* Any text will do for an identity.
IdentityRead ==
  /\ at \in {"identify", "label"} /\ Read
  /\ identified' = TRUE /\ at' = "idle"
  /\ UNCHANGED <<target, aborted, token, result, instrument, observers>>

\* close(), between two runs: the instrument goes back to sweeping on its own.
Close(ok) ==
  /\ at \in {"idle", "broken"} /\ (ok => connected)
  /\ Closed(IF ok THEN <<Free>> ELSE <<>>) /\ parting' = ok /\ at' = "closed"
  /\ UNCHANGED <<target, aborted, token, identified, result, instrument, opens, lost>>

-----------------------------------------------------------------------------
(* A sweep.                                                                *)

\* All settings, or those before the write that failed.
ConfigureSweep(t, ok) ==
  /\ at = "idle" /\ Len(wire) < MaxWire
  /\ target' = t
  /\ IF ok THEN Written(<<Set(0), Set(t)>>) /\ at' = "configured"
           ELSE WriteFails(<<Set(0), Set(t)>>) /\ at' = "idle"
  /\ UNCHANGED <<aborted, token, identified, result, instrument, observers>>

\* Mutant: the sweep is triggered and not waited for.
ArmBlindly(ok) ==
  /\ at = "configured"
  /\ aborted' = FALSE
  /\ Query(<<Single>>, "swept", "idle", ok)
  /\ UNCHANGED <<target, token, identified, result, instrument, opens, parting>>

ArmAndTrigger(ok) ==
  /\ at = "configured"
  /\ aborted' = FALSE
  /\ Query(<<Single, Ask("opc")>>, "sweep", "idle", ok)
  /\ UNCHANGED <<target, token, identified, result, instrument, opens, parting>>

\* Mutant: the abort flag is looked at before the answer is read.
SweepDoneEarly ==
  /\ at = "sweep"
  /\ IF aborted THEN UNCHANGED line /\ at' = "idle" ELSE Read /\ at' = "swept"
  /\ UNCHANGED <<target, aborted, token, identified, result, instrument, observers>>

\* The text of the answer is not looked at.
SweepDone ==
  /\ at = "sweep" /\ Read
  /\ at' = IF aborted THEN "idle" ELSE "swept"
  /\ UNCHANGED <<target, aborted, token, identified, result, instrument, observers>>

FetchTrace(ok) ==
  /\ at = "swept"
  /\ Query(<<Ask("trace")>>, "fetch", "idle", ok)
  /\ UNCHANGED <<target, aborted, token, identified, result, instrument, opens, parting>>

\* An identity is not numeric, the "1" of *OPC? is: it makes a trace of one
\* point.  The number of points is not compared with what was asked for.
TraceRefused ==
  /\ at = "fetch" /\ Read /\ OldestReply.to = "idn"
  /\ at' = "idle"
  /\ UNCHANGED <<target, aborted, token, identified, result, instrument, observers>>

TraceRead ==
  /\ at = "fetch" /\ Read /\ OldestReply.to # "idn"
  /\ result' = [asked |-> target, got |-> OldestReply]
  /\ at' = IF identified THEN "idle" ELSE "unlabelled"
  /\ UNCHANGED <<target, aborted, token, identified, instrument, observers>>

\* A trace is labelled with the identity, which is asked for while not known.
LabelTrace(ok) ==
  /\ at = "unlabelled" /\ QueryIdentity("label", ok)
  /\ UNCHANGED <<target, aborted, token, identified, result, instrument, opens, parting>>

\* A read times out or is cancelled.  Its query is not taken back.
GiveUp ==
  /\ at \in Awaiting /\ lost < MaxLost
  /\ lost' = lost + 1 /\ at' = "idle"
  /\ UNCHANGED <<line, target, aborted, token, identified, result, instrument, opens, parting>>

\* abort(), on the other thread.
Abort ==
  /\ at # "closed"
  /\ aborted' = TRUE /\ token' = TRUE /\ Clear
  /\ UNCHANGED <<at, target, identified, result, instrument, observers>>

-----------------------------------------------------------------------------
(* The instrument.                                                         *)

\* Changed while a sweep is under way, that sweep is nobody's.
ChangeSettings ==
  /\ UpNext("set") /\ Execute
  /\ settings' = Head(wire).arg
  /\ swept' = IF run = "held" THEN swept ELSE 0
  /\ UNCHANGED <<driver, run, observers>>

StopSweeping ==
  /\ UpNext("hold") /\ Execute
  /\ run' = IF run = "free" THEN "held" ELSE run
  /\ UNCHANGED <<driver, settings, swept, observers>>

SweepFreely ==
  /\ UpNext("free") /\ Execute
  /\ run' = "free" /\ swept' = 0
  /\ UNCHANGED <<driver, settings, observers>>

\* In continuous sweeping there is nothing to trigger.
BeginSweep ==
  /\ UpNext("single") /\ Execute
  /\ IF run = "free" THEN UNCHANGED <<run, swept>>
                     ELSE run' = "single" /\ swept' = settings
  /\ UNCHANGED <<driver, settings, observers>>

EndSweep ==
  /\ run = "single"
  /\ run' = "held"
  /\ UNCHANGED <<line, driver, settings, swept, observers>>

AnswerIdentity ==
  /\ UpNext("idn") /\ Answer(Reply("idn", 0, TRUE))
  /\ UNCHANGED <<driver, instrument, observers>>

AnswerComplete ==
  /\ UpNext("opc") /\ run # "single" /\ Answer(Reply("opc", 0, TRUE))
  /\ UNCHANGED <<driver, instrument, observers>>

AnswerTrace ==
  /\ UpNext("trace") /\ Answer(Reply("trace", swept, run = "held"))
  /\ UNCHANGED <<driver, instrument, observers>>

-----------------------------------------------------------------------------
Instrument ==
  \/ ChangeSettings \/ StopSweeping \/ SweepFreely \/ BeginSweep \/ EndSweep
  \/ AnswerIdentity \/ AnswerComplete \/ AnswerTrace

Work ==
  \/ \E ok \in BOOLEAN :
       \/ Open(ok) \/ AskIdentity(ok) \/ Close(ok)
       \/ \E t \in Targets : ConfigureSweep(t, ok)
       \/ ArmAndTrigger(ok) \/ FetchTrace(ok) \/ LabelTrace(ok)
  \/ IdentityRead \/ SweepDone \/ TraceRefused \/ TraceRead \/ GiveUp

Next == Work \/ Abort \/ Instrument

\* The instrument works through what it was sent.
Spec == Init /\ [][Next]_vars /\ WF_vars(Instrument)

-----------------------------------------------------------------------------
(* Properties.                                                             *)

\* As long as no query of the connection was given up, a trace handed to the
\* engine is the finished sweep of the very parameters it was configured with
\* last, whatever was aborted, refused or sent by halves in between -- and a new
\* connection starts afresh, whatever became of the one before.
TraceIsOfItsSweep ==
  lost = 0 /\ result # NoResult
  => result.got = Reply("trace", result.asked, TRUE)

\* And the line is quiet whenever the driver is not waiting: no answer is left
\* that the next query could take for its own.
LineIsQuiet ==
  lost = 0 /\ at \in {"open", "idle", "configured", "swept", "unlabelled"}
  => replies = <<>> /\ \A i \in 1..Len(wire) : wire[i].op \notin Queries
=============================================================================
