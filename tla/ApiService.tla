----------------------------- MODULE ApiService -----------------------------
(***************************************************************************)
(* Starting, stopping and probing the web servers.  Every start goes       *)
(* through one task, api_service_task of wifi_manager.cpp: the GOT_IP      *)
(* handler and the Wi-Fi supervisor post requests as generation numbers    *)
(* and flags in atomics, and the supervisor polls the generation that has  *)
(* been completed, with a timeout.  A firmware download takes the servers  *)
(* down for good (api_server_shutdown) at any moment.                      *)
(*                                                                         *)
(* The lifecycle functions of api_server.cpp hold one recursive lock from  *)
(* beginning to end, so each is one step here; which port fails to start   *)
(* is left open.  Test injection is not part of the production build.      *)
(***************************************************************************)
EXTENDS Naturals

CONSTANTS
    MaxReq,     \* bound on start requests
    MaxProbe    \* bound on probe requests

ASSUME ApiParameters == MaxReq \in Nat /\ MaxProbe \in Nat

VARIABLES
    \* atomics shared by the requesters and the service task
    reqGen, doneGen, lastOk, reqFlags, probeReq, probeDone, probeOk,
    notified,   \* the task notification of the service task
    \* the tasks
    svc,        \* api_service_task: pc, generation, flags and results in hand
    sup,        \* the supervisor as a caller of wifi_mgr_api_*
    ev,         \* the event task in the GOT_IP handler
    ota,        \* the download task taking the network down
    \* the servers
    srv,        \* certificates, handles and mode of api_server.cpp
    s_shut_down, ip,
    mdns, s_mdns_ready,
    \* history
    hist

atomics     == <<reqGen, doneGen, lastOk, reqFlags, probeReq, probeDone, probeOk>>
servers     == <<srv, s_shut_down, mdns, s_mdns_ready>>
serviceVars == <<reqGen, doneGen, lastOk, reqFlags, probeReq, probeDone, probeOk, notified, svc,
                 sup, ev, ota, srv, s_shut_down, ip, mdns, s_mdns_ready, hist>>

Flags == {"restart", "disable"}

-----------------------------------------------------------------------------
(* The lifecycle functions of api_server.cpp                               *)

Servers ==
    [certs : BOOLEAN, ident : BOOLEAN,  \* administrator certificate, device identity
     started : BOOLEAN,                 \* s_started
     mode : BOOLEAN,                    \* s_https_mode
     ssl : BOOLEAN, http : BOOLEAN, integ : BOOLEAN,    \* handles of 443, 80 and 8443
     disabled : BOOLEAN]                \* s_https_disabled

Running(s) == s.started /\ (IF s.mode THEN s.ssl ELSE s.http)

Healthy(s) == Running(s) /\ (s.mode => s.http) /\ (s.integ \/ ~s.ident)

Stopped(s) == [s EXCEPT !.started = FALSE, !.ssl = FALSE, !.http = FALSE, !.integ = FALSE]

(* api_server_disable_https                                                *)
DisableHttps(s) == IF s.ssl THEN [Stopped(s) EXCEPT !.disabled = TRUE]
                   ELSE [s EXCEPT !.disabled = TRUE]

(* The servers api_server_start_locked can bring up: 443 only with a       *)
(* certificate that loads, else everything on 80; 8443 is optional.  A     *)
(* certificate that does not load disables HTTPS for the rest of the boot. *)
StartOk(s) ==
    {t \in [certs : {s.certs}, ident : {s.ident}, started : {TRUE}, mode : BOOLEAN,
            ssl : BOOLEAN, http : BOOLEAN, integ : BOOLEAN, disabled : BOOLEAN] :
        /\ t.ssl = t.mode /\ (t.mode \/ t.http) /\ (t.integ => t.ident)
        /\ t.mode => t.certs /\ ~s.disabled /\ ~t.disabled
        /\ s.disabled => t.disabled
        /\ t.disabled => s.disabled \/ t.certs}

(* The start fails: before anything was set up, or on port 80 in HTTP mode.*)
StartFails(s) ==
    {Stopped(s)} \cup {[Stopped(s) EXCEPT !.mode = FALSE, !.disabled = d] :
                            d \in {b \in BOOLEAN : (s.disabled => b) /\ (b => s.disabled \/ s.certs)}}

(* A missing secondary server is started alone.                            *)
Repairs(s) ==
    {t \in {s, [s EXCEPT !.http = TRUE], [s EXCEPT !.integ = TRUE],
            [s EXCEPT !.http = TRUE, !.integ = TRUE]} :
        (t.http # s.http => s.mode) /\ (t.integ # s.integ => s.ident)}

(* Mutant: a start that does not look at s_shut_down.                      *)
EnsureRunningBlind(s, down) ==
    IF Healthy(s) THEN {[srv |-> s, ok |-> TRUE]}
    ELSE IF Running(s) THEN {[srv |-> t, ok |-> TRUE] : t \in Repairs(s)}
    ELSE {[srv |-> t, ok |-> TRUE] : t \in StartOk(s)} \cup {[srv |-> t, ok |-> FALSE] : t \in StartFails(s)}

(* Outcomes of api_server_ensure_running and, in it, api_server_start.     *)
EnsureRunning(s, down) ==
    IF down THEN {[srv |-> s, ok |-> FALSE]}
    ELSE IF Healthy(s) THEN {[srv |-> s, ok |-> TRUE]}
    ELSE IF Running(s) THEN {[srv |-> t, ok |-> TRUE] : t \in Repairs(s)}
    ELSE {[srv |-> t, ok |-> TRUE] : t \in StartOk(s)} \cup {[srv |-> t, ok |-> FALSE] : t \in StartFails(s)}

-----------------------------------------------------------------------------

SharedTypeOK ==
    /\ reqGen \in 0..MaxReq /\ doneGen \in 0..MaxReq
    /\ probeReq \in 0..MaxProbe /\ probeDone \in 0..MaxProbe
    /\ lastOk \in BOOLEAN /\ probeOk \in BOOLEAN /\ reqFlags \subseteq Flags
    /\ notified \in BOOLEAN /\ ip \in BOOLEAN /\ s_shut_down \in BOOLEAN
    /\ mdns \in BOOLEAN /\ s_mdns_ready \in BOOLEAN
    /\ ev \in {"idle", "notify"} /\ ota \in {"idle", "shut", "flash"}

ServiceTypeOK ==
    svc \in [pc : {"idle", "gen", "flags", "check", "disable", "stop", "mdns", "ensure", "result",
                   "done", "probe", "probing", "answer", "answered"},
             gen : 0..MaxReq, flags : SUBSET Flags, ok : BOOLEAN, pgen : 0..MaxProbe]

SupervisorTypeOK ==
    /\ sup \in [pc : {"idle", "post", "notify", "wait"}, kind : {"start", "restart", "probe"},
                gen : Nat, failed : BOOLEAN]
    /\ hist \in [owed : BOOLEAN, ran : BOOLEAN]

ApiTypeOK == SharedTypeOK /\ ServiceTypeOK /\ SupervisorTypeOK /\ srv \in Servers

(* wifi_mgr_init has created the service task; no address yet.             *)
ApiInit ==
    /\ reqGen = 0 /\ doneGen = 0 /\ lastOk = FALSE /\ reqFlags = {}
    /\ probeReq = 0 /\ probeDone = 0 /\ probeOk = TRUE /\ notified = FALSE
    /\ svc = [pc |-> "idle", gen |-> 0, flags |-> {}, ok |-> FALSE, pgen |-> 0]
    /\ sup = [pc |-> "idle", kind |-> "start", gen |-> 0, failed |-> FALSE]
    /\ ev = "idle" /\ ota = "idle"
    /\ srv \in {s \in Servers : ~s.started /\ ~s.mode /\ ~s.ssl /\ ~s.http /\ ~s.integ /\ ~s.disabled}
    /\ s_shut_down = FALSE /\ ip = FALSE /\ mdns = FALSE /\ s_mdns_ready = FALSE
    /\ hist = [owed |-> FALSE, ran |-> FALSE]

-----------------------------------------------------------------------------
(* The event task and the download task                                    *)

(* ip_event_handler: the address, then a start request.                    *)
GotIp ==
    /\ ev = "idle" /\ reqGen < MaxReq
    /\ ip' = TRUE /\ reqGen' = reqGen + 1 /\ ev' = "notify"
    /\ UNCHANGED <<doneGen, lastOk, reqFlags, probeReq, probeDone, probeOk, notified, svc, sup, ota,
                   servers, hist>>

GotIpNotify ==
    /\ ev = "notify"
    /\ notified' = TRUE /\ ev' = "idle"
    /\ UNCHANGED <<atomics, svc, sup, ota, servers, ip, hist>>

(* The servers are deliberately left running when the link goes down.      *)
LinkLost ==
    /\ ev = "idle" /\ ip
    /\ ip' = FALSE
    /\ UNCHANGED <<atomics, notified, svc, sup, ev, ota, servers, hist>>

(* api_server_shutdown, called once by the download task.                  *)
OtaShutdown ==
    /\ ota = "idle"
    /\ ota' = "shut" /\ s_shut_down' = TRUE
    /\ srv' = Stopped(srv) /\ s_mdns_ready' = FALSE
    /\ UNCHANGED <<atomics, notified, svc, sup, ev, ip, mdns, hist>>

(* mdns_free; the flash is written from here on.                           *)
OtaMdnsFree ==
    /\ ota = "shut"
    /\ ota' = "flash" /\ mdns' = FALSE
    /\ UNCHANGED <<atomics, notified, svc, sup, ev, ip, srv, s_shut_down, s_mdns_ready, hist>>

-----------------------------------------------------------------------------
(* The supervisor's calls                                                  *)

(* wifi_mgr_api_ensure_running: a missing web UI or secondary server.      *)
SupEnsure ==
    /\ sup.pc = "idle" /\ ~s_shut_down /\ ~Healthy(srv) /\ reqGen < MaxReq
    /\ reqGen' = reqGen + 1
    /\ sup' = [sup EXCEPT !.pc = "notify", !.kind = "start", !.gen = reqGen + 1]
    /\ hist' = [hist EXCEPT !.ran = FALSE]
    /\ UNCHANGED <<doneGen, lastOk, reqFlags, probeReq, probeDone, probeOk, notified, svc, ev, ota,
                   servers, ip>>

(* wifi_mgr_api_restart after failed probes: first the flags ...           *)
SupRestart ==
    /\ sup.pc = "idle" /\ ~s_shut_down /\ sup.failed /\ reqGen < MaxReq
    /\ \E disable \in {{}, {"disable"}} :
        /\ disable = {} \/ srv.ssl
        /\ reqFlags' = reqFlags \cup {"restart"} \cup disable
    /\ sup' = [sup EXCEPT !.pc = "post", !.kind = "restart", !.failed = FALSE]
    /\ hist' = [hist EXCEPT !.owed = TRUE]
    /\ UNCHANGED <<reqGen, doneGen, lastOk, probeReq, probeDone, probeOk, notified, svc, ev, ota,
                   servers, ip>>

(* ... then the generation.                                                *)
SupRestartPost ==
    /\ sup.pc = "post" /\ reqGen < MaxReq
    /\ reqGen' = reqGen + 1
    /\ sup' = [sup EXCEPT !.pc = "notify", !.gen = reqGen + 1]
    /\ hist' = [hist EXCEPT !.ran = FALSE]
    /\ UNCHANGED <<doneGen, lastOk, reqFlags, probeReq, probeDone, probeOk, notified, svc, ev, ota,
                   servers, ip>>

(* wifi_mgr_api_probe                                                      *)
SupProbe ==
    /\ sup.pc = "idle" /\ ~s_shut_down /\ Running(srv) /\ probeReq < MaxProbe
    /\ probeReq' = probeReq + 1
    /\ sup' = [sup EXCEPT !.pc = "notify", !.kind = "probe", !.gen = probeReq + 1]
    /\ UNCHANGED <<reqGen, doneGen, lastOk, reqFlags, probeDone, probeOk, notified, svc, ev, ota,
                   servers, ip, hist>>

SupNotify ==
    /\ sup.pc = "notify"
    /\ notified' = TRUE /\ sup' = [sup EXCEPT !.pc = "wait"]
    /\ UNCHANGED <<atomics, svc, ev, ota, servers, ip, hist>>

Answered == IF sup.kind = "probe" THEN probeDone >= sup.gen ELSE doneGen >= sup.gen

(* wait_api_gen: a completed generation, or the timeout with a failure.    *)
SupReturn ==
    /\ sup.pc = "wait" /\ Answered
    /\ sup' = [sup EXCEPT !.pc = "idle", !.failed = (sup.kind = "probe" /\ ~probeOk)]
    /\ UNCHANGED <<atomics, notified, svc, ev, ota, servers, ip, hist>>

SupTimeout ==
    /\ sup.pc = "wait"
    /\ sup' = [sup EXCEPT !.pc = "idle", !.failed = (sup.kind = "probe")]
    /\ UNCHANGED <<atomics, notified, svc, ev, ota, servers, ip, hist>>

-----------------------------------------------------------------------------
(* api_service_task                                                        *)

SvcWake ==
    /\ svc.pc = "idle" /\ notified
    /\ notified' = FALSE /\ svc' = [svc EXCEPT !.pc = "gen"]
    /\ UNCHANGED <<atomics, sup, ev, ota, servers, ip, hist>>

(* Mutant: the result of the last request is kept.                         *)
SvcReadGenKeepsOk ==
    /\ svc.pc = "gen"
    /\ svc' = [svc EXCEPT !.gen = reqGen, !.pc = IF reqGen = doneGen THEN "probe" ELSE "flags"]
    /\ UNCHANGED <<atomics, notified, sup, ev, ota, servers, ip, hist>>

SvcReadGen ==
    /\ svc.pc = "gen"
    /\ svc' = [svc EXCEPT !.gen = reqGen, !.ok = FALSE,
                          !.pc = IF reqGen = doneGen THEN "probe" ELSE "flags"]
    /\ UNCHANGED <<atomics, notified, sup, ev, ota, servers, ip, hist>>

SvcTakeFlags ==
    /\ svc.pc = "flags"
    /\ svc' = [svc EXCEPT !.pc = "check", !.flags = reqFlags]
    /\ reqFlags' = {}
    /\ UNCHANGED <<reqGen, doneGen, lastOk, probeReq, probeDone, probeOk, notified, sup, ev, ota,
                   servers, ip, hist>>

(* Without an address or after the shutdown the request is refused.        *)
SvcCheck ==
    /\ svc.pc = "check"
    /\ \/ /\ ip /\ ~s_shut_down
          /\ svc' = [svc EXCEPT !.pc = "disable"] /\ UNCHANGED hist
       \/ /\ ~(ip /\ ~s_shut_down)
          /\ svc' = [svc EXCEPT !.pc = "result", !.flags = {}]
          /\ hist' = [hist EXCEPT !.owed = (@ /\ "restart" \notin svc.flags)]
    /\ UNCHANGED <<atomics, notified, sup, ev, ota, servers, ip>>

SvcDisable ==
    /\ svc.pc = "disable"
    /\ svc' = [svc EXCEPT !.pc = "stop"]
    /\ srv' = IF "disable" \in svc.flags THEN DisableHttps(srv) ELSE srv
    /\ UNCHANGED <<atomics, notified, sup, ev, ota, s_shut_down, mdns, s_mdns_ready, ip, hist>>

SvcStop ==
    /\ svc.pc = "stop"
    /\ svc' = [svc EXCEPT !.pc = "mdns", !.flags = {}]
    /\ IF "restart" \in svc.flags
       THEN srv' = Stopped(srv) /\ hist' = [hist EXCEPT !.owed = FALSE]
       ELSE UNCHANGED <<srv, hist>>
    /\ UNCHANGED <<atomics, notified, sup, ev, ota, s_shut_down, mdns, s_mdns_ready, ip>>

(* api_server_init_mdns: best effort, without the lifecycle lock.          *)
SvcMdns ==
    /\ svc.pc = "mdns"
    /\ svc' = [svc EXCEPT !.pc = "ensure"]
    /\ \/ s_mdns_ready /\ UNCHANGED <<mdns, s_mdns_ready>>
       \/ ~s_mdns_ready /\ mdns' = TRUE /\ s_mdns_ready' = TRUE
       \/ ~s_mdns_ready /\ UNCHANGED <<mdns, s_mdns_ready>>
    /\ UNCHANGED <<atomics, notified, sup, ev, ota, srv, s_shut_down, ip, hist>>

SvcEnsure ==
    /\ svc.pc = "ensure"
    /\ \E r \in EnsureRunning(srv, s_shut_down) :
        /\ srv' = r.srv
        /\ svc' = [svc EXCEPT !.pc = "result", !.ok = r.ok]
        /\ hist' = [hist EXCEPT !.ran = @ \/ r.ok]
    /\ UNCHANGED <<atomics, notified, sup, ev, ota, s_shut_down, mdns, s_mdns_ready, ip>>

(* The result is stored before the generation that announces it.           *)
SvcResult ==
    /\ svc.pc = "result"
    /\ lastOk' = svc.ok /\ svc' = [svc EXCEPT !.pc = "done"]
    /\ UNCHANGED <<reqGen, doneGen, reqFlags, probeReq, probeDone, probeOk, notified, sup, ev, ota,
                   servers, ip, hist>>

(* Mutant: the newest generation is completed, not the one that was read.  *)
SvcDoneNewest ==
    /\ svc.pc = "done"
    /\ doneGen' = reqGen /\ svc' = [svc EXCEPT !.pc = "probe"]
    /\ UNCHANGED <<reqGen, lastOk, reqFlags, probeReq, probeDone, probeOk, notified, sup, ev, ota,
                   servers, ip, hist>>

SvcDone ==
    /\ svc.pc = "done"
    /\ doneGen' = svc.gen /\ svc' = [svc EXCEPT !.pc = "probe"]
    /\ UNCHANGED <<reqGen, lastOk, reqFlags, probeReq, probeDone, probeOk, notified, sup, ev, ota,
                   servers, ip, hist>>

(* Mutant: the notification is cleared when the task is done with its work.*)
SvcReadProbeClears ==
    /\ svc.pc = "probe"
    /\ svc' = [svc EXCEPT !.pgen = probeReq, !.pc = IF probeReq = probeDone THEN "idle" ELSE "probing"]
    /\ notified' = FALSE
    /\ UNCHANGED <<atomics, sup, ev, ota, servers, ip, hist>>

SvcReadProbe ==
    /\ svc.pc = "probe"
    /\ svc' = [svc EXCEPT !.pgen = probeReq, !.pc = IF probeReq = probeDone THEN "idle" ELSE "probing"]
    /\ UNCHANGED <<atomics, notified, sup, ev, ota, servers, ip, hist>>

(* api_server_probe: a server that is not running passes.                  *)
SvcProbe ==
    /\ svc.pc = "probing"
    /\ \E ok \in BOOLEAN :
        /\ s_shut_down \/ ~Running(srv) => ok
        /\ svc' = [svc EXCEPT !.pc = "answer", !.ok = ok]
    /\ UNCHANGED <<atomics, notified, sup, ev, ota, servers, ip, hist>>

SvcProbeResult ==
    /\ svc.pc = "answer"
    /\ probeOk' = svc.ok /\ svc' = [svc EXCEPT !.pc = "answered"]
    /\ UNCHANGED <<reqGen, doneGen, lastOk, reqFlags, probeReq, probeDone, notified, sup, ev, ota,
                   servers, ip, hist>>

SvcProbeDone ==
    /\ svc.pc = "answered"
    /\ probeDone' = svc.pgen /\ svc' = [svc EXCEPT !.pc = "idle"]
    /\ UNCHANGED <<reqGen, doneGen, lastOk, reqFlags, probeReq, probeOk, notified, sup, ev, ota,
                   servers, ip, hist>>

-----------------------------------------------------------------------------

Service ==
    \/ SvcWake \/ SvcReadGen \/ SvcTakeFlags \/ SvcCheck \/ SvcDisable \/ SvcStop \/ SvcMdns
    \/ SvcEnsure \/ SvcResult \/ SvcDone \/ SvcReadProbe \/ SvcProbe \/ SvcProbeResult
    \/ SvcProbeDone

Supervisor ==
    \/ SupEnsure \/ SupRestart \/ SupRestartPost \/ SupProbe \/ SupNotify \/ SupReturn \/ SupTimeout

ApiNext ==
    \/ GotIp \/ GotIpNotify \/ LinkLost \/ OtaShutdown \/ OtaMdnsFree
    \/ Service \/ Supervisor

ApiSpec == ApiInit /\ [][ApiNext]_serviceVars

(* Tasks run when they can; posts, link changes and the update need not    *)
(* happen.                                                                 *)
ApiFairSpec ==
    /\ ApiSpec
    /\ WF_serviceVars(Service) /\ WF_serviceVars(GotIpNotify) /\ WF_serviceVars(SupNotify)

-----------------------------------------------------------------------------
(* Properties                                                              *)

(* When wifi_mgr_api_restart sees its generation completed, its restart    *)
(* flag has been acted on after it was posted: the servers were stopped,   *)
(* or the request was refused.  A request that was merged with an older    *)
(* one in progress is not lost.                                            *)
RestartServed ==
    sup.pc = "wait" /\ sup.kind = "restart" /\ doneGen >= sup.gen => ~hist.owed

(* A success that ensure_running or restart returns is about this request  *)
(* or a later one: the servers have been found or made running since it    *)
(* was posted, never a stale result of an earlier request.                 *)
OkIsFresh ==
    sup.pc = "wait" /\ sup.kind # "probe" /\ doneGen >= sup.gen /\ lastOk => hist.ran

(* After api_server_shutdown no server runs any more, whatever start was   *)
(* in progress or requested when the download called it.                   *)
NoServerAfterShutdown ==
    s_shut_down => ~(srv.started \/ srv.ssl \/ srv.http \/ srv.integ)

(* Once HTTPS is disabled for this boot, nothing listens on port 443.      *)
DisabledMeansNo443 == srv.disabled => ~srv.ssl

(* After a shutdown no server runs, and none on 443 once it is disabled.   *)
OnlyAllowedServers == NoServerAfterShutdown /\ DisabledMeansNo443

(* Every request posted to the service task is completed: no notification  *)
(* is lost, although the task may be busy when it is given.                *)
RequestsServed ==
    /\ (reqGen # doneGen) ~> (reqGen = doneGen)
    /\ (probeReq # probeDone) ~> (probeReq = probeDone)

-----------------------------------------------------------------------------
(* Why they hold: invariants for the proofs                                *)

Posted(k) == sup.pc \in {"notify", "wait"} /\ sup.kind \in k

(* A generation is completed after it was read, and read after it was      *)
(* posted.                                                                 *)
GenerationsInOrder ==
    /\ doneGen <= svc.gen /\ svc.gen <= reqGen
    /\ Posted({"start", "restart"}) => sup.gen <= reqGen

(* A restart that is owed is in the flags, or in the hand of the service   *)
(* task before it stops the servers.                                       *)
OwedIsFlagged ==
    hist.owed => \/ "restart" \in reqFlags
                 \/ svc.pc \in {"check", "disable", "stop"} /\ "restart" \in svc.flags

(* The generation of an owed restart is not completed, and the service     *)
(* task past its flags is at work on an older one.                         *)
OwedIsAhead ==
    Posted({"restart"}) /\ hist.owed =>
        /\ doneGen < sup.gen
        /\ svc.pc \in {"check", "disable", "stop"} => "restart" \in svc.flags \/ svc.gen < sup.gen
        /\ svc.pc \in {"mdns", "ensure", "result", "done"} => svc.gen < sup.gen

(* Without a run of the servers since the post, the success in hand or     *)
(* stored belongs to an older generation.                                  *)
OldResultIsOlder ==
    /\ svc.pc \in {"flags", "check", "disable", "stop", "mdns", "ensure"} => ~svc.ok
    /\ Posted({"start", "restart"}) /\ ~hist.ran =>
        /\ doneGen >= sup.gen => ~lastOk
        /\ svc.pc = "result" /\ svc.gen >= sup.gen => ~svc.ok
        /\ svc.pc = "done" /\ svc.gen >= sup.gen => ~lastOk

ApiInv ==
    /\ ApiTypeOK /\ OnlyAllowedServers
    /\ GenerationsInOrder /\ OwedIsFlagged /\ OwedIsAhead /\ OldResultIsOlder
=============================================================================
