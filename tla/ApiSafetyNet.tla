---------------------------- MODULE ApiSafetyNet ----------------------------
(***************************************************************************)
(* The web/API server safety net of wifi_supervisor.cpp: every check it    *)
(* restarts a server that is not running, probes one that is, restarts it  *)
(* after repeated failures, falls back from HTTPS to HTTP and, as a last   *)
(* resort, reboots -- within a budget that lives in RTC memory so that it  *)
(* spans reboots.                                                          *)
(*                                                                         *)
(* Time is kept as ages since the moments ApiWatch stores, in units the    *)
(* instance chooses, each age cut off at the largest value the code        *)
(* compares it with.  The calls that block on the service task             *)
(* (ApiService) end in a second step, so that anything can happen while    *)
(* they wait; their results are arbitrary, late completions included.      *)
(***************************************************************************)
EXTENDS Integers

CONSTANTS
    Check,          \* CHECK_INTERVAL_MS
    ProbeMax,       \* longest self-probe
    RestartMax,     \* API_RESTART_TIMEOUT_MS
    BootGrace,      \* API_BOOT_GRACE_MS
    DownReboot,     \* API_DOWN_REBOOT_MS
    HealthyReset,   \* API_HEALTHY_RESET_MS
    ProbeEvery,     \* API_PROBE_EVERY_MS
    RepairEvery,    \* API_REPAIR_EVERY_MS
    FailsToAct,     \* API_PROBE_FAILS_TO_ACT
    MaxReboots      \* API_MAX_REBOOTS

ASSUME NetAssumption ==
    /\ {Check, DownReboot, HealthyReset, ProbeEvery, RepairEvery, FailsToAct} \subseteq Nat \ {0}
    /\ {ProbeMax, RestartMax, BootGrace, MaxReboots} \subseteq Nat

VARIABLES
    rtc,        \* no-init RTC memory: magic, reboot count, "the last reset was ours"
    reason,     \* esp_reset_reason() of the current boot is ESP_RST_SW
    pc,         \* where the supervisor task is
    watch,      \* ApiWatch
    uptime,
    \* environment
    web,        \* web UI server: down, mute (running, not answering) or up
    https,      \* it serves HTTPS
    degraded,   \* a secondary server is missing
    online,     \* associated, with an address
    shutDown,   \* api_server_is_shut_down()
    fault,      \* something still keeps the servers from working
    \* history
    streak,     \* safety-net reboots in a row
    webOpen,    \* WEB_SERVER_DOWN events of this boot without their RECOVERED
    sinceGood   \* time since a probe or a restart last succeeded in this boot

env  == <<web, https, degraded, online, shutDown, fault>>
netVars == <<rtc, reason, pc, watch, uptime, web, https, degraded, online, shutDown, fault, streak,
             webOpen, sinceGood>>

Unset == -1     \* a time stamp of zero

NewWatch ==
    [down |-> Unset, healthy |-> Unset, probe |-> Unset, repair |-> Unset, ever |-> FALSE,
     logged |-> FALSE, attempted |-> FALSE, failures |-> 0]

Watches ==
    [down : Unset..DownReboot, healthy : Unset..HealthyReset, probe : Unset..ProbeEvery,
     repair : Unset..RepairEvery, ever : BOOLEAN, logged : BOOLEAN, attempted : BOOLEAN,
     failures : 0..(FailsToAct - 1)]

EnvTypeOK ==
    /\ web \in {"down", "mute", "up"} /\ https \in BOOLEAN /\ degraded \in BOOLEAN
    /\ online \in BOOLEAN /\ shutDown \in BOOLEAN /\ fault \in BOOLEAN

NetTypeOK ==
    /\ rtc \in [magic : BOOLEAN, count : 0..(MaxReboots + 1), ours : BOOLEAN]
    /\ reason \in {"sw", "other"}
    /\ pc \in {"off", "boot", "loop", "ensure", "probe", "restart", "fallback", "repair", "reboot"}
    /\ watch \in Watches
    /\ EnvTypeOK
    /\ uptime \in 0..BootGrace /\ sinceGood \in 0..DownReboot
    /\ streak \in Nat /\ webOpen \in Int

-----------------------------------------------------------------------------
(* Time                                                                    *)

Later(age, d, max) == IF age = Unset THEN Unset ELSE IF age + d > max THEN max ELSE age + d

Aged(w, d) ==
    [w EXCEPT !.down = Later(@, d, DownReboot), !.healthy = Later(@, d, HealthyReset),
              !.probe = Later(@, d, ProbeEvery), !.repair = Later(@, d, RepairEvery)]

Elapse(d) == uptime' = Later(uptime, d, BootGrace)

-----------------------------------------------------------------------------
(* ApiWatch                                                                *)

(* api_episode_begin, for a time stamp taken a while ago.                  *)
EpisodeBegin(w, ago) ==
    IF w.down = Unset
    THEN [w EXCEPT !.down = Later(0, ago, DownReboot), !.logged = FALSE, !.attempted = FALSE]
    ELSE w

(* Mutant: the clock of the episode goes on.                               *)
EpisodeEndKeepsClock(w) == [w EXCEPT !.failures = 0]

(* api_episode_end; it records RECOVERED if the outage was recorded.       *)
EpisodeEnd(w) == [w EXCEPT !.down = Unset, !.failures = 0]

Recorded(w) == IF w.down # Unset /\ w.logged THEN 1 ELSE 0

(* api_log_down                                                            *)
LogDown(w) == [w EXCEPT !.logged = TRUE]

NewDown(w) == IF w.logged THEN 0 ELSE 1

(* api_maybe_reboot: w is the watch at the time of the call, open the      *)
(* recorded outages.  A reboot records RECOVERED.                          *)
MaybeReboot(w, open) ==
    /\ watch' = w
    /\ LET r == IF rtc.magic THEN rtc ELSE [rtc EXCEPT !.magic = TRUE, !.count = 0]
       IN \/ /\ w.down < DownReboot
             /\ pc' = "loop" /\ webOpen' = open
             /\ UNCHANGED rtc
          \/ /\ w.down >= DownReboot /\ r.count >= MaxReboots
             /\ pc' = "loop" /\ webOpen' = open
             /\ rtc' = r
          \/ /\ w.down >= DownReboot /\ r.count < MaxReboots
             /\ rtc' = [r EXCEPT !.count = @ + 1, !.ours = TRUE]
             /\ pc' = "reboot" /\ webOpen' = open - 1

(* Mutant: the healthy time starts anew with every check.                  *)
HealthyRestarts(w, ago) ==
    LET h == [w EXCEPT !.ever = TRUE, !.healthy = 0]
        mend == degraded /\ (h.repair = Unset \/ h.repair >= RepairEvery)
    IN /\ watch' = IF mend THEN [h EXCEPT !.repair = Later(0, ago, RepairEvery)] ELSE h
       /\ pc' = IF mend THEN "repair" ELSE "loop"
       /\ UNCHANGED <<rtc, streak>>

(* The server is fine: ever_healthy, the budget after a long healthy time, *)
(* then a missing secondary server.  ago is the age of the check's "now".  *)
HealthyWatch(w, ago) ==
    LET h == [w EXCEPT !.ever = TRUE,
                       !.healthy = IF @ = Unset THEN Later(0, ago, HealthyReset) ELSE @]
        mend == degraded /\ (h.repair = Unset \/ h.repair >= RepairEvery)
    IN /\ watch' = IF mend THEN [h EXCEPT !.repair = Later(0, ago, RepairEvery)] ELSE h
       /\ pc' = IF mend THEN "repair" ELSE "loop"
       /\ IF rtc.count # 0 /\ h.healthy >= HealthyReset
          THEN rtc' = [rtc EXCEPT !.count = 0] /\ streak' = 0
          ELSE UNCHANGED <<rtc, streak>>

-----------------------------------------------------------------------------
(* Boots and resets                                                        *)

(* RTC memory after a power cut: any count, but not the magic word of      *)
(* s_api_reboot_ours by chance.                                            *)
Garbage == [magic : BOOLEAN, count : 0..(MaxReboots + 1), ours : {FALSE}]

NetInit ==
    /\ rtc \in Garbage /\ reason = "other" /\ pc = "off"
    /\ watch = NewWatch /\ uptime = 0
    /\ web = "down" /\ https \in BOOLEAN /\ degraded = FALSE /\ online = FALSE
    /\ shutDown = FALSE /\ fault = TRUE
    /\ streak = 0 /\ webOpen = 0 /\ sinceGood = 0

(* app_main runs; the watch is a local variable of the task.               *)
Boot ==
    /\ pc = "off"
    /\ pc' = "boot" /\ watch' = NewWatch /\ uptime' = 0
    /\ web' = "down" /\ degraded' = FALSE /\ online' = FALSE /\ shutDown' = FALSE
    /\ https' \in BOOLEAN
    /\ webOpen' = 0 /\ sinceGood' = 0
    /\ UNCHANGED <<rtc, reason, fault, streak>>

(* Mutant: a reset of our own is not told from others.                     *)
TaskStartForgets ==
    /\ pc = "boot"
    /\ rtc' = [magic |-> TRUE, count |-> 0, ours |-> FALSE]
    /\ pc' = "loop"
    /\ UNCHANGED <<reason, watch, uptime, env, streak, webOpen, sinceGood>>

(* wifi_supervisor_task up to its loop.                                    *)
TaskStart ==
    /\ pc = "boot"
    /\ rtc' = IF ~rtc.magic \/ ~rtc.ours \/ reason # "sw"
              THEN [magic |-> TRUE, count |-> 0, ours |-> FALSE]
              ELSE [rtc EXCEPT !.ours = FALSE]
    /\ pc' = "loop"
    /\ UNCHANGED <<reason, watch, uptime, env, streak, webOpen, sinceGood>>

(* The reboot api_maybe_reboot decided on.                                 *)
ApiReboot ==
    /\ pc = "reboot"
    /\ pc' = "off" /\ reason' = "sw" /\ streak' = streak + 1
    /\ UNCHANGED <<rtc, watch, uptime, env, webOpen, sinceGood>>

(* Restart by a user, an update or another part of the supervisor.         *)
OtherRestart ==
    /\ pc # "off"
    /\ pc' = "off" /\ reason' = "sw" /\ streak' = 0
    /\ UNCHANGED <<rtc, watch, uptime, env, webOpen, sinceGood>>

(* Crash or watchdog: RTC memory survives.  Power loss: it is garbage.     *)
Crash ==
    /\ pc # "off"
    /\ pc' = "off" /\ reason' = "other" /\ streak' = 0
    /\ \/ UNCHANGED rtc
       \/ rtc' \in Garbage
    /\ UNCHANGED <<watch, uptime, env, webOpen, sinceGood>>

-----------------------------------------------------------------------------
(* Environment: the link, the servers and the service task                 *)

SetOnline ==
    /\ pc # "off" /\ online' = ~online
    /\ UNCHANGED <<rtc, reason, pc, watch, uptime, web, https, degraded, shutDown, fault, streak,
                   webOpen, sinceGood>>

(* A start requested by GOT_IP, or one that outlived the timeout of the    *)
(* supervisor's request.                                                   *)
ServerStarts ==
    /\ pc # "off" /\ web = "down" /\ online /\ ~shutDown
    /\ web' = "up" \/ (fault /\ web' = "mute")
    /\ degraded' \in (IF fault THEN BOOLEAN ELSE {FALSE})
    /\ UNCHANGED <<rtc, reason, pc, watch, uptime, https, online, shutDown, fault, streak, webOpen,
                   sinceGood>>

ServerHangs ==
    /\ web = "up" /\ fault /\ web' = "mute"
    /\ UNCHANGED <<rtc, reason, pc, watch, uptime, https, degraded, online, shutDown, fault, streak,
                   webOpen, sinceGood>>

FaultClears ==
    /\ fault /\ fault' = FALSE
    /\ UNCHANGED <<rtc, reason, pc, watch, uptime, web, https, degraded, online, shutDown, streak,
                   webOpen, sinceGood>>

(* A firmware download stops the servers for good.                         *)
ShutDown ==
    /\ pc # "off" /\ ~shutDown
    /\ shutDown' = TRUE /\ web' = "down"
    /\ UNCHANGED <<rtc, reason, pc, watch, uptime, https, degraded, online, fault, streak, webOpen,
                   sinceGood>>

-----------------------------------------------------------------------------
(* supervise_api_server, split where it waits for the service task         *)

Due(w) ==
    w.failures > 0 \/ w.down # Unset \/ w.probe = Unset \/ w.probe >= ProbeEvery

(* One check, d after the last: nothing to supervise, a server that is     *)
(* not running, a probe that is due, or no more than the healthy tail.     *)
Supervise ==
    /\ pc = "loop"
    /\ \E d \in 1..Check :
        LET w == Aged(watch, d)
            stopped == [w EXCEPT !.healthy = Unset, !.failures = 0]
        IN /\ Elapse(d) /\ sinceGood' = Later(sinceGood, d, DownReboot)
           /\ \/ /\ ~online \/ shutDown
                 /\ watch' = w
                 /\ UNCHANGED <<rtc, pc, streak>>
              \/ /\ online /\ ~shutDown /\ web = "down"
                 /\ IF ~w.ever /\ Later(uptime, d, BootGrace) < BootGrace
                    THEN watch' = stopped /\ pc' = "loop"
                    ELSE watch' = [EpisodeBegin(stopped, 0) EXCEPT !.attempted = TRUE] /\ pc' = "ensure"
                 /\ UNCHANGED <<rtc, streak>>
              \/ /\ online /\ ~shutDown /\ web # "down" /\ Due(w)
                 /\ watch' = [w EXCEPT !.probe = 0] /\ pc' = "probe"
                 /\ UNCHANGED <<rtc, streak>>
              \/ /\ online /\ ~shutDown /\ web # "down" /\ ~Due(w)
                 /\ HealthyWatch(w, 0)
    /\ UNCHANGED <<reason, env, webOpen>>

(* What a start or restart can leave behind, ok telling whether the        *)
(* caller saw it succeed before its timeout.                               *)
StartResult(ok) ==
    /\ web' \in IF shutDown THEN {"down"}
                ELSE IF ~fault THEN {"up"}
                ELSE IF ok THEN {"up", "mute"} ELSE {"down", "up", "mute"}
    /\ ok \/ fault \/ shutDown
    /\ shutDown => ~ok
    /\ degraded' \in (IF fault THEN BOOLEAN ELSE {FALSE})

(* api_handle_down after wifi_mgr_api_ensure_running.                      *)
Ensured ==
    /\ pc = "ensure"
    /\ \E d \in 0..RestartMax, ok \in BOOLEAN :
        LET w == Aged(watch, d)
            open == webOpen + NewDown(w)
            l == LogDown(w)
        IN /\ Elapse(d) /\ StartResult(ok)
           /\ IF ok
              THEN /\ watch' = [EpisodeEnd(l) EXCEPT !.ever = TRUE, !.probe = Unset]
                   /\ webOpen' = open - Recorded(l)
                   /\ pc' = "loop" /\ sinceGood' = 0
                   /\ UNCHANGED rtc
              ELSE /\ MaybeReboot(l, open)
                   /\ sinceGood' = Later(sinceGood, d, DownReboot)
    /\ UNCHANGED <<reason, https, online, shutDown, fault, streak>>

(* The probe fails: the first failures are only counted, then the server   *)
(* is restarted, with the fallback to HTTP from the second time on.        *)
ProbeFails(w, d) ==
    LET e == EpisodeBegin([w EXCEPT !.healthy = Unset, !.failures = @ + 1], d)
        act == [LogDown(e) EXCEPT !.failures = 0, !.attempted = TRUE]
    IN \/ /\ e.failures >= FailsToAct
          /\ watch' = act /\ webOpen' = webOpen + NewDown(e)
          /\ pc' = IF e.attempted /\ https THEN "fallback" ELSE "restart"
          /\ UNCHANGED rtc
       \/ /\ e.failures < FailsToAct /\ e.logged
          /\ MaybeReboot(e, webOpen)
       \/ /\ e.failures < FailsToAct /\ ~e.logged
          /\ watch' = e /\ pc' = "loop"
          /\ UNCHANGED <<rtc, webOpen>>

(* wifi_mgr_api_probe returns: a server that is not running passes, and a  *)
(* busy service task fails the probe of any server.                        *)
Probed ==
    /\ pc = "probe"
    /\ \E d \in 0..ProbeMax, ok \in BOOLEAN :
        LET w == Aged(watch, d)
        IN /\ Elapse(d)
           /\ ok => web # "mute"
           /\ ~ok => fault \/ web = "mute"
           /\ IF ok
              THEN /\ webOpen' = webOpen - Recorded(w) /\ sinceGood' = 0
                   /\ HealthyWatch(EpisodeEnd(w), d)
              ELSE /\ ProbeFails(w, d) /\ UNCHANGED streak
                   /\ sinceGood' = Later(sinceGood, d, DownReboot)
    /\ UNCHANGED <<reason, env>>

(* api_handle_unresponsive after wifi_mgr_api_restart, whose result it     *)
(* ignores.                                                                *)
Restarted ==
    /\ pc \in {"restart", "fallback"}
    /\ \E d \in 0..RestartMax, ok \in BOOLEAN :
        /\ Elapse(d) /\ StartResult(ok)
        /\ MaybeReboot(Aged(watch, d), webOpen)
        /\ https' = (https /\ pc = "restart")
        /\ sinceGood' = Later(sinceGood, d, DownReboot)
    /\ UNCHANGED <<reason, online, shutDown, fault, streak>>

(* api_repair_secondary leaves the web UI alone.                           *)
Repaired ==
    /\ pc = "repair"
    /\ \E d \in 0..RestartMax :
        /\ Elapse(d) /\ watch' = Aged(watch, d) /\ sinceGood' = Later(sinceGood, d, DownReboot)
    /\ degraded' \in (IF fault THEN BOOLEAN ELSE {FALSE})
    /\ pc' = "loop"
    /\ UNCHANGED <<rtc, reason, web, https, online, shutDown, fault, streak, webOpen>>

-----------------------------------------------------------------------------

Task == TaskStart \/ Supervise \/ Ensured \/ Probed \/ Restarted \/ Repaired

NetNext ==
    \/ Boot \/ ApiReboot \/ OtherRestart \/ Crash
    \/ SetOnline \/ ServerStarts \/ ServerHangs \/ FaultClears \/ ShutDown
    \/ Task

NetSpec == NetInit /\ [][NetNext]_netVars

(* The task runs and a decided reboot or a boot takes place; faults,       *)
(* resets and link changes need not happen.                                *)
NetFairSpec == NetSpec /\ WF_netVars(Task) /\ WF_netVars(Boot) /\ WF_netVars(ApiReboot)

-----------------------------------------------------------------------------
(* Properties                                                              *)

(* A fault that survives reboots cannot boot-loop the controller: at most  *)
(* API_MAX_REBOOTS safety-net reboots in a row, whatever RTC memory holds  *)
(* after a power cut and whenever other resets come in between.            *)
BackToBackBounded == streak <= MaxReboots

(* The web events of a boot alternate: RECOVERED is recorded only for an   *)
(* outage recorded as DOWN, and once.                                      *)
WebEventsMatched == webOpen \in {0, 1}

(* The safety net reboots only if nothing has shown the servers to work    *)
(* for API_DOWN_REBOOT_MS: no old episode is carried over a recovery.      *)
RebootOnlyAfterOutage == pc = "reboot" => sinceGood >= DownReboot

(* The safety net's picture of an outage fits the outage: it reports the   *)
(* end of what it reported the beginning of, and restarts the device only  *)
(* after the servers were gone as long as it says.                         *)
OutagesFollowed == NetTypeOK /\ WebEventsMatched /\ RebootOnlyAfterOutage

Stable == ~fault /\ online /\ ~shutDown

(* When the fault goes away and the link stays, the safety net gets the    *)
(* server back and closes the outage even with its budget spent, and the   *)
(* budget is restored by running healthily.                                *)
RecoversAndForgives ==
    (<>[]Stable) => <>[](web = "up" /\ watch.down = Unset /\ rtc.count = 0)

-----------------------------------------------------------------------------
(* Why the safety properties hold: invariants for the proofs               *)

(* The reboots in a row are counted in RTC memory, and a count that is     *)
(* taken over after a boot is one of ours.                                 *)
BudgetInv ==
    /\ rtc.ours => rtc.magic /\ rtc.count <= MaxReboots
    /\ pc \in {"off", "boot"} => streak = 0 \/ (rtc.ours /\ reason = "sw" /\ streak <= rtc.count)
    /\ pc \notin {"off", "boot"} => rtc.magic /\ rtc.count <= MaxReboots /\ streak <= rtc.count
    /\ pc = "reboot" => rtc.ours /\ streak < rtc.count

(* An outage is open in the event log exactly when the watch says so, and  *)
(* its clock does not run ahead of the last success.                       *)
OutageInv ==
    /\ pc = "off" => webOpen \in {0, 1}
    /\ pc = "boot" => watch = NewWatch /\ webOpen = 0
    /\ pc = "reboot" => webOpen = 0 /\ sinceGood >= DownReboot
    /\ pc \notin {"off", "boot", "reboot"} => webOpen = Recorded(watch)
    /\ pc \in {"ensure", "restart", "fallback"} => watch.down # Unset
    /\ pc \in {"restart", "fallback"} => watch.logged
    /\ pc # "off" => watch.down <= sinceGood

NetInv == NetTypeOK /\ BudgetInv /\ OutageInv
=============================================================================
