--------------------------- MODULE MCHomeAssistant ---------------------------
(***************************************************************************)
(* The Home Assistant integration for TLC: pairing and control, and the    *)
(* push channel.  They meet only in the credential, which the push channel *)
(* sees as a generation that may change at any time, so a behaviour is one *)
(* of pairing and commands or one of the push channel; part says which,    *)
(* and what clients and the user do in it.  The other side stands still.   *)
(***************************************************************************)
EXTENDS HaControl, HaPush

VARIABLE part

allVars == <<part, controlVars, pushVars>>

-----------------------------------------------------------------------------
(* The parts                                                               *)

NewRequest == pc = "idle" /\ pc' = "begin"

(* Rotations, revocations and restarts, a command at a time.               *)
Pairing ==
    NewRequest => /\ req'.id = CHOOSE id \in Ids : TRUE
                  /\ req'.op # "restart" => Len(log) = 0 /\ req'.op = "mode"

(* Many commands under one token, more than the record holds.              *)
Commands ==
    /\ windows' <= 1 /\ boot' <= 2
    /\ NewRequest /\ req'.op = "restart" => boot < 2
    /\ upc = "idle" /\ upc' = "revoke" => gen < 1

(* Two clients whose sockets change hands.                                 *)
Sockets == UNCHANGED <<version, pushGen, stops>>

OneSocket == \A fd \in Fds : sess'[fd] = Closed \/ fd = CHOOSE f \in Fds : TRUE

(* Two clients, a server that stops and starts.                            *)
Restarts == /\ UNCHANGED <<version, pushGen, rest>>
            /\ \A fd \in Fds : ~sess'[fd].mute

(* A client that comes back, and a changing state.                         *)
States == OneSocket /\ UNCHANGED <<pushGen, stops>>

(* A client, a changing credential, a server that stops and starts.        *)
Stops == OneSocket /\ UNCHANGED version

-----------------------------------------------------------------------------

HaInit ==
    /\ part \in {"pairing", "commands", "sockets", "restarts", "states", "stops"}
    /\ HaControlInit /\ HaPushInit

HaNext ==
    /\ UNCHANGED part
    /\ \/ part = "pairing" /\ HaControlNext /\ Pairing /\ UNCHANGED pushVars
       \/ part = "commands" /\ HaControlNext /\ Commands /\ UNCHANGED pushVars
       \/ part = "sockets" /\ HaPushNext /\ Sockets /\ UNCHANGED controlVars
       \/ part = "restarts" /\ HaPushNext /\ Restarts /\ UNCHANGED controlVars
       \/ part = "states" /\ HaPushNext /\ States /\ UNCHANGED controlVars
       \/ part = "stops" /\ HaPushNext /\ Stops /\ UNCHANGED controlVars

ControlRuns == part \in {"pairing", "commands"}

(* The fairness of the part that runs: see HaControl and HaPush.           *)
HaFairness ==
    /\ SF_controlVars(ControlRuns /\ ServerStep) /\ SF_controlVars(ControlRuns /\ UserStep)
    /\ WF_pushVars(~ControlRuns /\ PushStep) /\ WF_pushVars(~ControlRuns /\ HttpdStep)
    /\ WF_pushVars(~ControlRuns /\ HttpdRestart) /\ WF_pushVars(~ControlRuns /\ RestAssign)

HaSpec == HaInit /\ [][HaNext]_allVars /\ HaFairness
=============================================================================
