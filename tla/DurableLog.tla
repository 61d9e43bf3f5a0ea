----------------------------- MODULE DurableLog -----------------------------
(***************************************************************************)
(* What the event log promises its users: a bounded log of events that     *)
(* survives a loss of power.  Operations change the log in memory first    *)
(* and reach the disk one at a time.  A power cut leaves on disk the log   *)
(* as it was before the operation under way or as it is after it, never a  *)
(* mixture; only time stamps, filled in one event at a time, may have      *)
(* arrived in part.                                                        *)
(***************************************************************************)
EXTENDS Naturals, Sequences

CONSTANTS
    Entries,    \* events: records with an id and whether they are timed
    Ring        \* how many of the latest events the log keeps

VARIABLES
    mem,    \* the log as the running program reports it, oldest event first
    disk,   \* the log the next boot will find
    on      \* the program runs

logVars == <<mem, disk, on>>

Ids(log) == {log[i].id : i \in DOMAIN log}

(* The log keeps the latest Ring events.                                   *)
Push(log, e) ==
    Append(IF Len(log) = Ring THEN Tail(log) ELSE log, e)

Stamped(log, i) == [log EXCEPT ![i].timed = TRUE]

LogInit == mem = <<>> /\ disk = <<>> /\ ~on

Boot ==
    /\ ~on
    /\ on' = TRUE
    /\ mem' = disk
    /\ UNCHANGED disk

(* A new operation starts only when the previous one is on disk.           *)
LogRecord(e) ==
    /\ on /\ disk = mem
    /\ e.id \notin Ids(mem)
    /\ mem' = Push(mem, e)
    /\ UNCHANGED <<disk, on>>

LogClear ==
    /\ on /\ disk = mem
    /\ mem' = <<>>
    /\ UNCHANGED <<disk, on>>

LogStamp(i) ==
    /\ on
    /\ mem' = Stamped(mem, i)
    /\ disk' \in {disk, mem'}
    /\ UNCHANGED on

Persist ==
    /\ on
    /\ disk' = mem
    /\ UNCHANGED <<mem, on>>

PowerCut ==
    /\ on
    /\ on' = FALSE
    /\ mem' = <<>>
    /\ disk' \in IF disk = mem THEN {mem} \cup {Stamped(mem, i) : i \in DOMAIN mem}
                 ELSE {disk, mem}

LogNext ==
    \/ Boot \/ LogClear \/ Persist \/ PowerCut
    \/ \E e \in Entries : LogRecord(e)
    \/ \E i \in DOMAIN mem : LogStamp(i)

LogSpec == LogInit /\ [][LogNext]_logVars
=============================================================================
