------------------------- MODULE UnitrendFscanDriver -------------------------
(***************************************************************************)
(* The driver of the UNI-T receivers in their EMI personality              *)
(* (src/drivers/scpi/UnitrendFscanDriver.cpp) on a line transport.  A scan *)
(* makes the instrument mute, so the driver probes until it is answered,   *)
(* then reads the answers to the earlier probes away; a dwell is a reading *)
(* of the meter and has nothing to wait for.  The calls come as the engine *)
(* and the run controller make them, and abort() from the other thread.    *)
(*                                                                         *)
(* Ranges and points are opaque; 0 stands for settings nobody asked for.   *)
(*                                                                         *)
(* The instrument is external and does what the driver's comments say it   *)
(* does: while it switches personality or scans it answers nothing, and    *)
(* what it is sent meanwhile it may keep for later or never notice.        *)
(***************************************************************************)
EXTENDS InstrumentLine

CONSTANTS
  Ranges,      \* spans the engine asks to be scanned
  Points,      \* frequencies it asks to be dwelt on
  MaxDrains,   \* maximumDrainReads
  MaxBacklog,  \* bound: queries whose answers are outstanding at once, the
               \* probes of a long scan among them
  MaxWire,     \* bound: commands the instrument may lag behind
  MaxOpens     \* bound: connections

ASSUME TargetsAssumption == Ranges \cap Points = {} /\ 0 \notin Ranges \cup Points
ASSUME BoundsAssumption ==
  MaxDrains \in Nat /\ MaxBacklog \in Nat /\ MaxWire \in Nat /\ MaxOpens \in Nat

VARIABLES
  \* The driver.
  at,        \* what the worker is in the middle of, or has completed
  purpose,   \* what waitUntilResponsive() was called for: "open" or "scan"
  drains,    \* replies drained in the present wait
  target,    \* m_params, and by its kind m_meterMode
  aborted,   \* m_abortRequested
  token,     \* m_abortToken, which only open() resets
  identified, \* m_identity is not empty
  result,    \* the trace handed to the engine since it was configured, and its target
  \* The instrument.
  busy,      \* "no", "switching" personality, or "scanning"
  emi,       \* it is in the EMI personality
  range,     \* the scan range it is set to
  scanned,   \* the range of the scan it holds the trace of
  point,     \* the frequency the meter is set to
  metering,  \* the meter runs
  hold,      \* the point whose level the peak hold shows, 0 while it has none
  \* Observers.
  opens,     \* connections made so far
  dirty,     \* a query was given up since a drain last left the line empty
  stale,     \* a reading was still unanswered when the last drain ended
  deserted   \* the present target was configured while a scan went on

driver == <<at, purpose, drains, target, aborted, token, identified, result>>
instrument == <<busy, emi, range, scanned, point, metering, hold>>
observers == <<opens, dirty, stale, deserted>>
vars == <<line, driver, instrument, observers>>

Command(op, arg) == [op |-> op, arg |-> arg]
Select == Command("select", 0)       \* :INSTrument:SELect EMI
Stop == Command("stop", 0)           \* :INITiate:STOP
SetRange(t) == Command("range", t)
Scan == Command("scan", 0)           \* :INITiate2:IMMediate
SetPoint(t) == Command("point", t)
ResetHold == Command("reset", 0)     \* :SENSe:METer:PHOLd:RESet
Meter == Command("meter", 0)         \* :INITiate1:CONTinuous ON
Ask(what) == Command(what, 0)
Queries == {"idn", "mode", "trace", "peak"}

Reply(what, of, done) == [to |-> what, of |-> of, done |-> done]
NoResult == [asked |-> 0, got |-> Reply("none", 0, FALSE)]

Numeric == {"trace", "peak"}
Outstanding == Unread(Queries)
NumericLeft ==
  \/ \E i \in 1..Len(replies) : replies[i].to \in Numeric
  \/ \E i \in 1..Len(wire) : wire[i].op \in Numeric

\* Away from the line and the observers; for UNCHANGED.
settled == <<target, aborted, token, identified, result>>
waiting == <<purpose, drains>>

Init ==
  /\ LineInit
  /\ at = "closed" /\ purpose = "open" /\ drains = 0 /\ target = 0
  /\ aborted = FALSE /\ token = FALSE /\ identified = FALSE /\ result = NoResult
  /\ busy = "no" /\ emi = FALSE /\ range = 0 /\ scanned = 0 /\ point = 0
  /\ metering = FALSE /\ hold = 0
  /\ opens = 0 /\ dirty = FALSE /\ stale = FALSE /\ deserted = FALSE

-----------------------------------------------------------------------------
(* A query is awaited once it was written; if the write fails it may have  *)
(* gone out all the same, and nobody will read its answer.                 *)

Query(what, next, failed, ok) ==
  /\ Outstanding < MaxBacklog
  /\ IF ok THEN Written(<<Ask(what)>>) /\ at' = next /\ UNCHANGED dirty
           ELSE WriteFails(<<Ask(what)>>) /\ at' = failed /\ dirty' = TRUE

\* Under a cancelled token the query goes out and its answer is not waited for.
QueryIdentity(next, ok) ==
  IF ok /\ token /\ replies = <<>>
  THEN /\ Outstanding < MaxBacklog
       /\ Written(<<Ask("idn")>>) /\ at' = "idle" /\ dirty' = TRUE
  ELSE Query("idn", next, "idle", ok)

\* A read that times out or is cancelled; its query is not taken back.
GiveUp ==
  /\ at \in {"mode", "identify", "fetch", "reading", "label"}
  /\ dirty' = TRUE /\ at' = IF at = "mode" THEN "broken" ELSE "idle"
  /\ UNCHANGED <<line, waiting, settled, instrument, opens, stale, deserted>>

-----------------------------------------------------------------------------
(* waitUntilResponsive().                                                  *)

\* The deadline passes, the run is aborted, or the connection drops.
WaitEnds ==
  /\ at = "wait" \/ (at = "drain" /\ drains < MaxDrains)
  /\ at' = IF purpose = "open" THEN "broken" ELSE "idle"
  /\ dirty' = TRUE /\ drains' = 0
  /\ UNCHANGED <<line, purpose, settled, instrument, opens, stale, deserted>>

Probe(ok) ==
  /\ at = "wait" /\ ~aborted /\ Outstanding < MaxBacklog
  /\ ClearAndWrite(Ask("idn"), ok)
  /\ at' = IF ok THEN "probe" ELSE "wait"
  /\ UNCHANGED <<waiting, settled, instrument, observers>>

ProbeUnanswered ==
  /\ at = "probe"
  /\ at' = "wait"
  /\ UNCHANGED <<line, waiting, settled, instrument, observers>>

\* Any answer will do, and may be that of an earlier probe.
ProbeAnswered ==
  /\ at = "probe" /\ Read
  /\ at' = "drain"
  /\ UNCHANGED <<waiting, settled, instrument, observers>>

DrainRead ==
  /\ at = "drain" /\ drains < MaxDrains /\ Read
  /\ drains' = drains + 1
  /\ UNCHANGED <<at, purpose, settled, instrument, observers>>

AfterWait == IF purpose = "open" THEN "responsive" ELSE IF aborted THEN "idle" ELSE "swept"

\* The drain ends when a read times out, which it may at any moment: a reply that
\* takes longer than drainTimeout is not waited for.  And it ends at the bound.
DrainEnds ==
  /\ at = "drain"
  /\ Clear /\ at' = AfterWait /\ drains' = 0
  /\ dirty' = (Outstanding' > 0) /\ stale' = NumericLeft'
  /\ UNCHANGED <<purpose, settled, instrument, opens, deserted>>

\* The drain's read may also fail because its token was cancelled or the
\* connection dropped.  The wait reports success all the same, and it is the next
\* query that fails -- after it was written, if only the token was cancelled.
DrainCut ==
  /\ at = "drain" /\ drains < MaxDrains
  /\ Clear /\ at' = (IF purpose = "scan" /\ aborted THEN "idle" ELSE "cut")
  /\ dirty' = TRUE /\ drains' = 0
  /\ UNCHANGED <<purpose, settled, instrument, opens, stale, deserted>>

QueryCut ==
  /\ at = "cut" /\ Outstanding < MaxBacklog
  /\ WriteFails(<<Ask(IF purpose = "open" THEN "mode" ELSE "trace")>>)
  /\ at' = (IF purpose = "open" THEN "broken" ELSE "idle")
  /\ UNCHANGED <<waiting, settled, instrument, observers>>

-----------------------------------------------------------------------------
(* Connecting.  Every connection gets a driver of its own.                 *)

Open(ok) ==
  /\ at = "closed" /\ opens < MaxOpens
  /\ opens' = opens + 1 /\ dirty' = FALSE /\ stale' = FALSE /\ deserted' = FALSE
  /\ target' = 0 /\ aborted' = FALSE /\ token' = FALSE
  /\ identified' = FALSE /\ result' = NoResult
  /\ purpose' = "open"
  /\ IF ok THEN Connected(<<Select>>) /\ at' = "wait"
           ELSE /\ at' = "broken"
                /\ \/ NotConnected
                   \/ \E sent \in Prefixes(<<Select>>) : Connected(sent)
  /\ UNCHANGED <<drains, instrument>>

AskMode(ok) ==
  /\ at = "responsive" /\ Query("mode", "mode", "broken", ok)
  /\ UNCHANGED <<waiting, settled, instrument, opens, stale, deserted>>

\* The answer has to name the EMI personality.
ModeRead ==
  /\ at = "mode" /\ Read
  /\ at' = IF OldestReply = Reply("mode", 0, TRUE) THEN "entered" ELSE "broken"
  /\ UNCHANGED <<waiting, settled, instrument, observers>>

TakeControl(ok) ==
  /\ at = "entered"
  /\ IF ok THEN Written(<<Stop>>) /\ at' = "open"
           ELSE WriteFails(<<Stop>>) /\ at' = "broken"
  /\ UNCHANGED <<waiting, settled, instrument, observers>>

\* connectInstrument() asks who is there, and goes on without an answer.
AskIdentity(ok) ==
  /\ at = "open" /\ QueryIdentity("identify", ok)
  /\ UNCHANGED <<waiting, settled, instrument, opens, stale, deserted>>

IdentityRead ==
  /\ at \in {"identify", "label"} /\ Read
  /\ identified' = TRUE /\ at' = "idle"
  /\ UNCHANGED <<waiting, target, aborted, token, result, instrument, observers>>

\* close() leaves the instrument stopped, if it hears it.
Close(ok) ==
  /\ at \in {"idle", "broken"} /\ (ok => connected)
  /\ Closed(IF ok THEN <<Stop>> ELSE <<>>) /\ at' = "closed"
  /\ UNCHANGED <<waiting, settled, instrument, observers>>

-----------------------------------------------------------------------------
(* A scan.                                                                 *)

\* A scan is under way, or about to begin.
StillScanning == busy = "scanning" \/ \E i \in 1..Len(wire) : wire[i] = Scan

\* configureScan(): the instrument is told to stop, then set up.
ConfigureScan(t, ok) ==
  /\ at = "idle" /\ Len(wire) < MaxWire
  /\ target' = t /\ result' = NoResult /\ deserted' = StillScanning
  /\ IF ok THEN Written(<<Stop, SetRange(0), SetRange(t)>>) /\ at' = "configured"
           ELSE WriteFails(<<Stop, SetRange(0), SetRange(t)>>) /\ UNCHANGED at
  /\ UNCHANGED <<waiting, aborted, token, identified, instrument, opens, dirty, stale>>

\* Mutant: the scan is not waited for.
ArmScanBlindly(ok) ==
  /\ at = "configured" /\ target \in Ranges
  /\ aborted' = FALSE /\ purpose' = "scan"
  /\ IF ok THEN Written(<<Scan>>) /\ at' = "swept"
           ELSE WriteFails(<<Scan>>) /\ at' = "idle"
  /\ UNCHANGED <<drains, target, token, identified, result, instrument, observers>>

ArmScan(ok) ==
  /\ at = "configured" /\ target \in Ranges
  /\ aborted' = FALSE /\ purpose' = "scan"
  /\ IF ok THEN Written(<<Scan>>) /\ at' = "wait"
           ELSE WriteFails(<<Scan>>) /\ at' = "idle"
  /\ UNCHANGED <<drains, target, token, identified, result, instrument, observers>>

FetchScan(ok) ==
  /\ at = "swept" /\ Query("trace", "fetch", "idle", ok)
  /\ UNCHANGED <<waiting, settled, instrument, opens, stale, deserted>>

AfterTrace == IF identified THEN "idle" ELSE "unlabelled"

\* Mutant: whatever is read is taken for the trace.
ScanReadUnchecked ==
  /\ at = "fetch" /\ Read
  /\ result' = [asked |-> target, got |-> OldestReply] /\ at' = AfterTrace
  /\ UNCHANGED <<waiting, target, aborted, token, identified, instrument, observers>>

ScanRead ==
  /\ at = "fetch" /\ Read
  /\ IF OldestReply.to \in Numeric
     THEN result' = [asked |-> target, got |-> OldestReply] /\ at' = AfterTrace
     ELSE at' = "idle" /\ UNCHANGED result
  /\ UNCHANGED <<waiting, target, aborted, token, identified, instrument, observers>>

-----------------------------------------------------------------------------
(* A dwell.                                                                *)

ConfigureMeter(t, ok) ==
  /\ at = "idle" /\ Len(wire) < MaxWire
  /\ target' = t /\ result' = NoResult /\ deserted' = StillScanning
  /\ IF ok THEN Written(<<Stop, SetPoint(t)>>) /\ at' = "configured"
           ELSE WriteFails(<<Stop, SetPoint(t)>>) /\ UNCHANGED at
  /\ UNCHANGED <<waiting, aborted, token, identified, instrument, opens, dirty, stale>>

\* Mutant: the peak hold is not cleared.
ArmMeterHeld(ok) ==
  /\ at = "configured" /\ target \in Points
  /\ aborted' = FALSE
  /\ IF ok THEN Written(<<Meter>>) /\ at' = "dwell"
           ELSE WriteFails(<<Meter>>) /\ at' = "idle"
  /\ UNCHANGED <<waiting, target, token, identified, result, instrument, observers>>

ArmMeter(ok) ==
  /\ at = "configured" /\ target \in Points
  /\ aborted' = FALSE
  /\ IF ok THEN Written(<<ResetHold, Meter>>) /\ at' = "dwell"
           ELSE WriteFails(<<ResetHold, Meter>>) /\ at' = "idle"
  /\ UNCHANGED <<waiting, target, token, identified, result, instrument, observers>>

\* The dwell time passes, or the dwell is aborted; the same for the time between
\* two readings, which ends when the settle budget is spent.
DwellEnds ==
  /\ at = "dwell"
  /\ at' \in {"dwelt", "idle"}
  /\ UNCHANGED <<line, waiting, settled, instrument, observers>>

ReadMeter(ok) ==
  /\ at = "dwelt" /\ ~aborted /\ Query("peak", "reading", "idle", ok)
  /\ UNCHANGED <<waiting, settled, instrument, opens, stale, deserted>>

MeterStops ==
  /\ at = "dwelt"
  /\ at' = "idle"
  /\ UNCHANGED <<line, waiting, settled, instrument, observers>>

\* What is not a level yet is asked for again; what is not a number fails.
MeterRead ==
  /\ at = "reading" /\ Read
  /\ IF OldestReply.to \in Numeric /\ OldestReply.of # 0
     THEN result' = [asked |-> target, got |-> OldestReply] /\ at' = AfterTrace
     ELSE /\ at' = IF OldestReply.to \in Numeric THEN "dwelt" ELSE "idle"
          /\ UNCHANGED result
  /\ UNCHANGED <<waiting, target, aborted, token, identified, instrument, observers>>

LabelTrace(ok) ==
  /\ at = "unlabelled" /\ QueryIdentity("label", ok)
  /\ UNCHANGED <<waiting, settled, instrument, opens, stale, deserted>>

-----------------------------------------------------------------------------
\* abort(), on the other thread: the scan is told to stop, if it hears it.
Abort(ok) ==
  /\ at # "closed" /\ Len(wire) < MaxWire
  /\ aborted' = TRUE /\ token' = TRUE
  /\ ClearAndWrite(Stop, ok)
  /\ UNCHANGED <<at, waiting, target, identified, result, instrument, observers>>

-----------------------------------------------------------------------------
(* The instrument.                                                         *)

Deaf ==
  /\ busy # "no" /\ wire # <<>> /\ Execute
  /\ UNCHANGED <<driver, instrument, observers>>

BusyNoMore ==
  /\ busy # "no"
  /\ busy' = "no"
  /\ UNCHANGED <<line, driver, emi, range, scanned, point, metering, hold, observers>>

\* Without the option it stays what it is.
Switch ==
  /\ busy = "no" /\ UpNext("select") /\ Execute
  /\ busy' = "switching" /\ emi' \in BOOLEAN /\ metering' = FALSE
  /\ UNCHANGED <<driver, range, scanned, point, hold, observers>>

BeStopped ==
  /\ busy = "no" /\ UpNext("stop") /\ Execute
  /\ metering' = FALSE
  /\ UNCHANGED <<driver, busy, emi, range, scanned, point, hold, observers>>

ChangeRange ==
  /\ busy = "no" /\ UpNext("range") /\ Execute
  /\ range' = Head(wire).arg
  /\ UNCHANGED <<driver, busy, emi, scanned, point, metering, hold, observers>>

BeginScan ==
  /\ busy = "no" /\ UpNext("scan") /\ Execute
  /\ busy' = "scanning" /\ scanned' = range /\ metering' = FALSE
  /\ UNCHANGED <<driver, emi, range, point, hold, observers>>

ChangePoint ==
  /\ busy = "no" /\ UpNext("point") /\ Execute
  /\ point' = Head(wire).arg
  /\ UNCHANGED <<driver, busy, emi, range, scanned, metering, hold, observers>>

ForgetPeak ==
  /\ busy = "no" /\ UpNext("reset") /\ Execute
  /\ hold' = 0
  /\ UNCHANGED <<driver, busy, emi, range, scanned, point, metering, observers>>

BeginMeter ==
  /\ busy = "no" /\ UpNext("meter") /\ Execute
  /\ metering' = TRUE
  /\ UNCHANGED <<driver, busy, emi, range, scanned, point, hold, observers>>

\* The hold follows the louder of what it has and what the meter sees.
HoldPeak ==
  /\ busy = "no" /\ metering
  /\ hold' \in IF hold = 0 THEN {point} ELSE {hold, point}
  /\ UNCHANGED <<line, driver, busy, emi, range, scanned, point, metering, observers>>

AnswerTo(what) ==
  CASE what = "idn" -> Reply("idn", 0, TRUE)
    [] what = "mode" -> Reply("mode", 0, emi)
    [] what = "trace" -> Reply("trace", scanned, TRUE)
    [] what = "peak" -> Reply("peak", hold, TRUE)

AnswerQuery ==
  /\ busy = "no" /\ \E what \in Queries : UpNext(what) /\ Answer(AnswerTo(what))
  /\ UNCHANGED <<driver, instrument, observers>>

Instrument ==
  \/ Deaf \/ BusyNoMore \/ Switch \/ BeStopped \/ ChangeRange \/ BeginScan
  \/ ChangePoint \/ ForgetPeak \/ BeginMeter \/ HoldPeak \/ AnswerQuery

Work ==
  \/ \E ok \in BOOLEAN :
       \/ Open(ok) \/ AskMode(ok) \/ TakeControl(ok) \/ AskIdentity(ok) \/ Close(ok)
       \/ Probe(ok)
       \/ \E t \in Ranges : ConfigureScan(t, ok)
       \/ \E t \in Points : ConfigureMeter(t, ok)
       \/ ArmScan(ok) \/ FetchScan(ok) \/ ArmMeter(ok) \/ ReadMeter(ok) \/ LabelTrace(ok)
  \/ GiveUp \/ WaitEnds \/ ProbeUnanswered \/ ProbeAnswered \/ DrainRead \/ DrainEnds
  \/ DrainCut \/ QueryCut
  \/ ModeRead \/ IdentityRead \/ ScanRead \/ DwellEnds \/ MeterStops \/ MeterRead

Next == Work \/ (\E ok \in BOOLEAN : Abort(ok)) \/ Instrument

Spec == Init /\ [][Next]_vars

-----------------------------------------------------------------------------
(* Properties.                                                             *)

\* However many probes went unanswered, whatever was aborted, given up or answered
\* late before, and wherever the drain stopped: the trace of a scan is the scan of
\* the range that was configured last.  A probe's late answer never passes for it.
\* Two exceptions: an earlier scan was still under way when the range was
\* configured, or the answer to an earlier reading outlasted the drain.
ScanIsOfItsRange ==
  result.asked \in Ranges /\ ~deserted /\ ~stale
  => result.got = Reply("trace", target, TRUE)

\* And a reading of the meter is the level at the point it was asked for, and not
\* what the peak hold kept from the point before -- unless, besides, an answer
\* was given up since a drain last left the line empty.
ReadingIsOfItsPoint ==
  result.asked \in Points /\ ~deserted /\ ~dirty
  => result.got = Reply("peak", target, TRUE)
=============================================================================
