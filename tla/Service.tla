------------------------------- MODULE Service -------------------------------
(***************************************************************************)
(* The process with its logging.  Ticks of jobs log, and participants      *)
(* while they are disposed.  flush() of one logger is the dispose() of a   *)
(* participant, as observability/README.md 209-225 advises.  An emission   *)
(* that rejects and that nobody awaits is an unhandled rejection, which    *)
(* triggers the shutdown of the runtime.                                   *)
(***************************************************************************)
EXTENDS Process

CONSTANTS Logs, Loggers, Flushed, MaxEntries

VARIABLES logged, inflight, printed, rejected, flushing

\* Who logs: a tick, or a participant.
Tick == NoTick
Authors == {Tick} \cup Participants

Log == INSTANCE Logger

ASSUME LogsAfterRunner ==
    \E i, j \in 1 .. Phases : i < j /\ Runner \in PartsOf[i] /\ Logs \in PartsOf[j]

ASSUME LoggersAssumption == Flushed \in Loggers /\ MaxEntries \in Nat /\ NoTick \notin Participants

loggerVars == <<logged, inflight, printed, rejected, flushing>>
serviceVars == <<processVars, loggerVars>>

ServiceInit == ProcessInit /\ Log!Init

\* flush() is called when the phase of Logs begins; its end is that of dispose().
FlushOfLogger ==
    CASE disposal[Logs] = "idle" /\ disposal'[Logs] = "disposing" -> Log!Flush
      [] disposal[Logs] = "disposing" /\ disposal'[Logs] = "ok" -> Log!Flushes
      [] disposal[Logs] = "disposing" /\ disposal'[Logs] = "failed" -> Log!FlushFails
      [] OTHER -> UNCHANGED loggerVars

\* Ticks that run and participants that are being disposed.
MayLog(a) == IF a = Tick THEN running # {} ELSE a # Logs /\ disposal[a] = "disposing"

\* Listeners are there; before, Node ends the process.
Armed == runtime \in {"startup", "waiting", "draining"}

\* Nobody but flush() handles the rejection of an emission.
Unhandled ==
    IF cause = None THEN Trigger("unhandled-rejection") /\ UNCHANGED jobVars
                    ELSE UNCHANGED processVars

LogStep ==
    /\ Alive
    /\ \E l \in Loggers, a \in Authors :
        LET e == Log!NewEntry(l, a)
        IN  /\ MayLog(a)
            /\ \/ (Log!Defer(e) \/ Log!PrintAtOnce(e)) /\ UNCHANGED processVars
               \/ Armed /\ Log!RejectAtOnce(e) /\ Unhandled

EmissionStep ==
    /\ Alive
    /\ \E e \in inflight :
        \/ Log!Prints(e) /\ UNCHANGED processVars
        \/ /\ Armed /\ Log!Rejects(e)
           /\ IF e \in flushing THEN UNCHANGED processVars ELSE Unhandled

ServiceNext == (ProcessNext /\ FlushOfLogger) \/ LogStep \/ EmissionStep

ServiceSpec == ServiceInit /\ [][ServiceNext]_serviceVars

(* Fairness: as in Process.  An obfuscator may hang.                         *)
FairService ==
    /\ ServiceSpec
    /\ WF_serviceVars(PhaseEnds /\ DisposalOfRunner /\ FlushOfLogger)
    /\ WF_serviceVars(TimesOut /\ DisposalOfRunner /\ FlushOfLogger)
    /\ WF_serviceVars((Wakes \/ Exit) /\ DisposalOfRunner /\ FlushOfLogger)

-----------------------------------------------------------------------------
(* Properties.                                                              *)

\* The author has stopped when the phase of Logs begins.
Earlier(a) ==
    a = Tick \/ \E i, j \in 1 .. Phases : i < j /\ a \in PartsOf[i] /\ Logs \in PartsOf[j]

\* "Call flush() before process exit to await in-flight emissions" (structured.logger.ts
\* 33-36): with exit code 0 nothing is lost that a job or a participant of an earlier phase
\* logged with that logger, whatever overtakes it, unless its formatter threw before the
\* flush.  Not so for loggers made from it, for ticks that overlap or start late, if
\* somebody else calls shutdown() and before all phases are added.
FlushedBeforeExit ==
    exitCode = 0 /\ added = Phases /\ faults = {} /\ "direct" \notin usage =>
        \A e \in logged : e[2] = Flushed /\ Earlier(e[3]) /\ e \notin rejected => e \in printed
=============================================================================
