---------------------------- MODULE MCWebServers ----------------------------
(***************************************************************************)
(* What keeps the web servers up, for TLC: the service task that starts    *)
(* them and the safety net that watches them.  The net sees of the service *)
(* task only whether its calls succeed, so a behaviour is one of the net   *)
(* or one of the service; part says which.  The other one stands still.    *)
(***************************************************************************)
EXTENDS ApiService, ApiSafetyNet

VARIABLE part

allVars == <<part, netVars, serviceVars>>

WebInit ==
    /\ NetInit /\ ApiInit
    /\ \/ part = "net" /\ ~srv.certs /\ ~srv.ident
       \/ part = "service" /\ ~https /\ rtc = CHOOSE g \in Garbage : TRUE

NetStep     == part = "net" /\ NetNext /\ UNCHANGED <<part, serviceVars>>
ServiceStep == part = "service" /\ ApiNext /\ UNCHANGED <<part, netVars>>

(* The fairness of the part that runs: see ApiSafetyNet and ApiService.    *)
WebFairness ==
    /\ WF_netVars(part = "net" /\ Task)
    /\ WF_netVars(part = "net" /\ Boot)
    /\ WF_netVars(part = "net" /\ ApiReboot)
    /\ WF_serviceVars(part = "service" /\ Service)
    /\ WF_serviceVars(part = "service" /\ GotIpNotify)
    /\ WF_serviceVars(part = "service" /\ SupNotify)

WebSpec == WebInit /\ [][NetStep \/ ServiceStep]_allVars /\ WebFairness

-----------------------------------------------------------------------------
(* When the fault goes away and the link stays, the safety net gets the    *)
(* server back and regains its reboots: see ApiSafetyNet.                  *)
NetRecovers ==
    <>[](part = "net" /\ Stable) => <>[](web = "up" /\ watch.down = Unset /\ rtc.count = 0)
=============================================================================
