-------------------------------- MODULE Logger --------------------------------
(***************************************************************************)
(* StructuredLogger: an emission runs at once, or later when its data has  *)
(* to be obfuscated first, and ends with the entry on the console or, if   *)
(* the error serializer or the formatter throws, with a rejected promise.  *)
(* Every logger has its own set of emissions in flight: those that the     *)
(* factory, forMethod() and withMeta() make are loggers of their own.      *)
(***************************************************************************)
EXTENDS Naturals, FiniteSets

CONSTANTS           \* with the assumptions that Service states
    Flushed,        \* the logger whose flush() is called
    MaxEntries      \* bound: entries in all

VARIABLES
    logged,     \* history: entries <<number, logger, author>> of at least the level
    inflight,   \* entries whose emission has not settled
    printed,    \* entries on the console
    rejected,   \* entries whose emission threw
    flushing    \* entries that flush() awaits

loggerVars == <<logged, inflight, printed, rejected, flushing>>

Init ==
    /\ logged = {} /\ inflight = {} /\ printed = {} /\ rejected = {}
    /\ flushing = {}

NewEntry(l, a) == <<Cardinality(logged) + 1, l, a>>

\* Mutation: the emission is not kept.
MutDefer(e) ==
    /\ Cardinality(logged) < MaxEntries
    /\ logged' = logged \cup {e}
    /\ UNCHANGED <<inflight, printed, rejected, flushing>>

\* schedule(): data and an obfuscator, the emission is kept until it settles.
Defer(e) ==
    /\ Cardinality(logged) < MaxEntries
    /\ logged' = logged \cup {e} /\ inflight' = inflight \cup {e}
    /\ UNCHANGED <<printed, rejected, flushing>>

\* schedule(): no data, the emission is over before the caller goes on.
PrintAtOnce(e) ==
    /\ Cardinality(logged) < MaxEntries
    /\ logged' = logged \cup {e} /\ printed' = printed \cup {e}
    /\ UNCHANGED <<inflight, rejected, flushing>>

RejectAtOnce(e) ==
    /\ Cardinality(logged) < MaxEntries
    /\ logged' = logged \cup {e} /\ rejected' = rejected \cup {e}
    /\ UNCHANGED <<inflight, printed, flushing>>

\* The obfuscator returns, or throws and a marker takes the place of the data.
Prints(e) ==
    /\ e \in inflight
    /\ inflight' = inflight \ {e} /\ printed' = printed \cup {e}
    /\ UNCHANGED <<logged, rejected, flushing>>

Rejects(e) ==
    /\ e \in inflight
    /\ inflight' = inflight \ {e} /\ rejected' = rejected \cup {e}
    /\ UNCHANGED <<logged, printed, flushing>>

\* flush(): Promise.all of what is in flight now.
Flush ==
    /\ flushing' = {e \in inflight : e[2] = Flushed}
    /\ UNCHANGED <<logged, inflight, printed, rejected>>

\* The promise of flush() resolves, or rejects as soon as one emission does.
Flushes == flushing \cap inflight = {} /\ flushing \cap rejected = {} /\ UNCHANGED loggerVars
FlushFails == flushing \cap rejected # {} /\ UNCHANGED loggerVars
=============================================================================
