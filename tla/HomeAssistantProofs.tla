------------------------- MODULE HomeAssistantProofs -------------------------
(***************************************************************************)
(* Proofs about the Home Assistant integration.                            *)
(*                                                                         *)
(* Pairing and commands, for any number of tokens, windows, commands and   *)
(* starts, and a record of any size: a token that was replaced or revoked  *)
(* never works again and no write goes on under it, a code is good once,   *)
(* and a command is carried out once.                                      *)
(*                                                                         *)
(* The push channel, for any number of sockets, clients, connections and   *)
(* stops of the server: every WebSocket has exactly one entry in the       *)
(* client table, and the push task, which works on a copy of the table,    *)
(* never takes one connection for another.                                 *)
(***************************************************************************)
EXTENDS HaControl, HaPush, WellFoundedInduction, TLAPS

USE DEF token, window, server, commands, history

-----------------------------------------------------------------------------
(* The parameters and the requests                                         *)

(* The bounds are natural numbers, and no control is called "restart".     *)
LEMMA Limits ==
    /\ CacheSize \in Nat /\ CacheSize > 0 /\ Attempts \in Nat /\ Attempts > 0
    /\ MaxBoots \in Nat /\ MaxBoots > 0
    /\ MaxTokens \in Nat /\ MaxWindows \in Nat /\ MaxCommands \in Nat /\ MaxGen \in Nat
    /\ "restart" \notin Ops /\ "none" \notin Ops
BY HaControlParameters

(* A client's request is one of the control handlers' or a restart of a    *)
(* boot that was, made with the token in force.                            *)
LEMMA RequestStep ==
    ASSUME HaControlTypeOK, ClientRequest
    PROVE  /\ pc = "idle" /\ pc' = "begin"
           /\ req' \in Requests /\ req'.token = ram /\ req'.gen = gen
           /\ req'.op # "restart" => Len(log) < MaxCommands
           /\ UNCHANGED <<token, window, cache, next, slot, upc, boot, history>>
<1>1. PICK id \in Ids, t \in Tokens :
          \/ \E op \in Ops : Request(id, op, t, 0)
          \/ \E b \in 1..boot : Request(id, "restart", t, b)
    BY Zenon DEF ClientRequest
<1>2. boot \in Nat /\ gen \in Nat
    BY Limits DEF HaControlTypeOK, ServerTypeOK, TokenTypeOK
<1>3. CASE \E op \in Ops : Request(id, op, t, 0)
    <2>1. PICK op \in Ops : Request(id, op, t, 0)
        BY <1>3
    <2>2. op # "restart"
        BY Limits
    <2> QED BY <1>2, <2>1, <2>2 DEF Request, Requests
<1>4. CASE \E b \in 1..boot : Request(id, "restart", t, b)
    <2>1. PICK b \in 1..boot : Request(id, "restart", t, b)
        BY <1>4
    <2> QED BY <1>2, <2>1 DEF Request, Requests
<1> QED BY <1>1, <1>3, <1>4

(* The actions, for the case distinctions below.                           *)
LEMMA Steps ==
    ASSUME [HaControlNext]_controlVars
    PROVE  \/ IssueTake \/ IssueStore \/ IssueApply
           \/ CommandBegin \/ RestartBegin \/ Reserve \/ Write \/ ShutdownBus \/ CommandedRestart
           \/ RevokeTake \/ RevokeErase \/ RevokeApply \/ RevokeDone
           \/ OpenWindow \/ CloseWindow \/ Authorize \/ Claim \/ RevokeAsked \/ PowerLoss
           \/ ClientRequest \/ UNCHANGED controlVars
BY Zenon DEF HaControlNext, ServerStep, UserStep, Environment

-----------------------------------------------------------------------------
(* Types                                                                   *)

(* The token's state keeps its type.                                       *)
LEMMA TokenType ==
    ASSUME HaControlTypeOK, ServerInv, [HaControlNext]_controlVars
    PROVE  TokenTypeOK'
<1> USE Limits DEF HaControlTypeOK, TokenTypeOK, Tokens
<1>1. CASE IssueTake
    BY <1>1 DEF IssueTake, ServerInv
<1>2. CASE IssueStore
    BY <1>2 DEF IssueStore
<1>3. CASE IssueApply
    BY <1>3 DEF IssueApply
<1>4. CASE Reserve
    BY <1>4 DEF Reserve
<1>5. CASE Write
    BY <1>5 DEF Write, EndControlWrite
<1>6. CASE PowerLoss \/ CommandedRestart
    <2>1. Restart /\ UNCHANGED retired
        BY <1>6 DEF PowerLoss, CommandedRestart, Restart
    <2>2. gen' \in Nat
        BY <2>1 DEF Restart
    <2> QED BY <2>1, <2>2 DEF Restart
<1>7. CASE RevokeTake \/ RevokeErase \/ RevokeApply \/ RevokeDone \/ RevokeAsked
    <2>1. CASE RevokeTake
        BY <2>1 DEF RevokeTake
    <2>2. CASE RevokeErase
        BY <2>2 DEF RevokeErase
    <2>3. CASE RevokeApply
        BY <2>3 DEF RevokeApply
    <2>4. CASE RevokeDone \/ RevokeAsked
        BY <2>4 DEF RevokeDone, RevokeAsked
    <2> QED BY <1>7, <2>1, <2>2, <2>3, <2>4
<1>8. CASE ShutdownBus
    BY <1>8 DEF ShutdownBus
<1>9. CASE CommandBegin \/ RestartBegin \/ ClientRequest
    BY <1>9, RequestStep DEF CommandBegin, RestartBegin
<1>10. CASE OpenWindow \/ CloseWindow \/ Authorize \/ Claim \/ UNCHANGED controlVars
    BY <1>10 DEF OpenWindow, CloseWindow, Authorize, Claim, controlVars
<1> QED BY Steps, <1>1, <1>2, <1>3, <1>4, <1>5, <1>6, <1>7, <1>8, <1>9, <1>10

(* A code is used up, or a wrong one is counted.                           *)
LEMMA WindowStep ==
    ASSUME WindowTypeOK, code # 0, UNCHANGED windows,
           Consume(code) \/ (WrongCode /\ UNCHANGED used)
    PROVE  /\ WindowTypeOK'
           /\ \/ code' = 0 /\ used' = [used EXCEPT ![code] = used[code] + 1]
              \/ code' \in {0, code} /\ used' = used
BY Limits DEF WindowTypeOK, Consume, WrongCode, ClearWindow

(* The window's state keeps its type.                                      *)
LEMMA WindowType ==
    ASSUME HaControlTypeOK, [HaControlNext]_controlVars
    PROVE  WindowTypeOK'
<1> USE Limits DEF HaControlTypeOK
<1>1. CASE OpenWindow
    BY <1>1 DEF OpenWindow, WindowTypeOK
<1>2. CASE CloseWindow \/ RevokeDone
    BY <1>2 DEF CloseWindow, RevokeDone, ClearWindow, WindowTypeOK
<1>3. CASE Authorize \/ Claim
    BY <1>3, WindowStep DEF Authorize, Claim
<1>4. CASE PowerLoss \/ CommandedRestart
    BY <1>4 DEF PowerLoss, CommandedRestart, Restart, ClearWindow, WindowTypeOK
<1>5. CASE IssueTake \/ IssueStore \/ IssueApply \/ ClientRequest \/ UNCHANGED controlVars
    BY <1>5, RequestStep DEF IssueTake, IssueStore, IssueApply, controlVars, WindowTypeOK
<1>6. CASE CommandBegin \/ RestartBegin \/ Reserve \/ Write \/ ShutdownBus
    BY <1>6 DEF CommandBegin, RestartBegin, Reserve, Write, ShutdownBus, WindowTypeOK
<1>7. CASE RevokeAsked \/ RevokeTake \/ RevokeErase \/ RevokeApply
    BY <1>7 DEF RevokeAsked, RevokeTake, RevokeErase, RevokeApply, WindowTypeOK
<1> QED BY Steps, <1>1, <1>2, <1>3, <1>4, <1>5, <1>6, <1>7

(* The server's step and request keep their type.                          *)
LEMMA ServerType ==
    ASSUME HaControlTypeOK, ServerInv, [HaControlNext]_controlVars
    PROVE  ServerTypeOK'
<1> USE Limits DEF HaControlTypeOK, ServerTypeOK
<1>1. CASE IssueTake \/ IssueStore \/ IssueApply
    BY <1>1 DEF IssueTake, IssueStore, IssueApply
<1>2. CASE CommandBegin
    BY <1>2 DEF CommandBegin, Done, Refuse
<1>3. CASE RestartBegin \/ ShutdownBus
    BY <1>3 DEF RestartBegin, Done, ShutdownBus
<1>4. CASE Reserve \/ Write
    BY <1>4 DEF Reserve, Write, Done, Refuse
<1>5. CASE PowerLoss
    BY <1>5 DEF PowerLoss, Restart
<1>6. CASE CommandedRestart
    <2>1. restarted' = [restarted EXCEPT ![boot] = restarted[boot] + 1]
        BY <1>6 DEF CommandedRestart, ServerInv
    <2> QED BY <1>6, <2>1 DEF CommandedRestart, Restart
<1>7. CASE Authorize \/ Claim \/ ClientRequest
    BY <1>7, RequestStep DEF Authorize, Claim
<1>8. CASE RevokeAsked \/ RevokeTake \/ RevokeErase \/ RevokeApply \/ RevokeDone
    BY <1>8 DEF RevokeAsked, RevokeTake, RevokeErase, RevokeApply, RevokeDone
<1>9. CASE OpenWindow \/ CloseWindow \/ UNCHANGED controlVars
    BY <1>9 DEF OpenWindow, CloseWindow, controlVars
<1> QED BY Steps, <1>1, <1>2, <1>3, <1>4, <1>5, <1>6, <1>7, <1>8, <1>9

(* A new command that takes a slot.                                        *)
LEMMA SlotInRange ==
    ASSUME NEW n \in Nat
    PROVE  SlotOf(n) \in Slots
BY Limits DEF SlotOf, Slots

(* What ha_command_begin does, case by case.                               *)
LEMMA BeginStep ==
    ASSUME HaControlTypeOK, ServerInv, CommandBegin
    PROVE  /\ pc = "begin" /\ req \in Requests /\ req.op \in Ops /\ Len(log) < MaxCommands
           /\ \/ /\ pc' = "idle"
                 /\ acked' = acked \/ ( /\ acked' = acked \union {Cmd(req)}
                                       /\ \E s \in Slots : cache[s] = Cmd(req) )
                 /\ UNCHANGED <<cache, next, slot, log>>
              \/ /\ \A s \in Slots : cache[s].id # req.id
                 /\ slot' = SlotOf(next) /\ next' = next + 1
                 /\ cache' = [cache EXCEPT ![SlotOf(next)] = Empty]
                 /\ UNCHANGED acked
                 /\ \/ pc' = "reserve" /\ UNCHANGED <<req, log>>
                    \/ pc' = "idle" /\ log' = Append(log, [id |-> req.id, ok |-> FALSE])
           /\ UNCHANGED written
<1>1. /\ pc = "begin" /\ req.op \in Ops /\ req \in Requests /\ req.op # "restart"
      /\ Len(log) < MaxCommands
    BY Limits DEF CommandBegin, ServerInv
<1> DEFINE Known == {s \in Slots : cache[s].id = req.id}
<1>2. CASE /\ Known # {} /\ Done
           /\ acked' = IF \E s \in Known : SameCommand(cache[s], req)
                         THEN acked \union {Cmd(req)} ELSE acked
           /\ UNCHANGED <<cache, next, slot, log>>
    BY <1>1, <1>2 DEF CommandBegin, Done, SameCommand
<1>3. CASE /\ Known = {}
           /\ slot' = SlotOf(next) /\ next' = next + 1
           /\ cache' = [cache EXCEPT ![SlotOf(next)] = Empty]
           /\ \/ Supported(req.op) /\ pc' = "reserve" /\ UNCHANGED <<req, log>>
              \/ Refuse
           /\ UNCHANGED acked
    <2>1. \A s \in Slots : cache[s].id # req.id
        BY <1>3
    <2> QED BY <1>1, <1>3, <2>1 DEF CommandBegin, Refuse, Done
<1> QED BY <1>2, <1>3 DEF CommandBegin

(* A result is added to the log of the boot.                               *)
LEMMA Logged ==
    ASSUME RecordTypeOK, req \in Requests, Len(log) < MaxCommands,
           NEW k \in BOOLEAN, log' = Append(log, [id |-> req.id, ok |-> k])
    PROVE  /\ log' \in Seq([id : Ids, ok : BOOLEAN]) /\ Len(log') <= MaxCommands
           /\ Len(log) \in Nat /\ Len(log') = Len(log) + 1
           /\ \A j \in 1..Len(log) : log'[j] = log[j]
           /\ log'[Len(log) + 1] = [id |-> req.id, ok |-> k]
<1>1. [id |-> req.id, ok |-> k] \in [id : Ids, ok : BOOLEAN]
    BY DEF Requests
<1> QED BY <1>1, Limits DEF RecordTypeOK

(* The record of commands keeps its type.                                  *)
LEMMA RecordType ==
    ASSUME HaControlTypeOK, ServerInv, [HaControlNext]_controlVars
    PROVE  RecordTypeOK'
<1> USE Limits DEF HaControlTypeOK
<1>1. CASE CommandBegin
    <2>1. SlotOf(next) \in Slots /\ req.id \in Ids /\ Empty \in Records
        BY <1>1, SlotInRange, BeginStep DEF RecordTypeOK, Requests, Records
    <2>2. next' \in Nat /\ slot' \in Slots /\ cache' \in [Slots -> Records]
        BY <1>1, <2>1, BeginStep DEF RecordTypeOK
    <2>3. Cmd(req) \in [id : Ids, op : Ops]
        BY <1>1, BeginStep DEF Requests, Cmd
    <2>4. log' \in Seq([id : Ids, ok : BOOLEAN]) /\ Len(log') <= MaxCommands
        BY <1>1, BeginStep, Logged DEF RecordTypeOK
    <2> QED BY <1>1, <2>2, <2>3, <2>4, BeginStep DEF RecordTypeOK
<1>2. CASE Reserve
    <2>1. log' = log \/ (req.op # "restart" /\ log' = Append(log, [id |-> req.id, ok |-> FALSE]))
        BY <1>2 DEF Reserve, Refuse
    <2>2. req \in Requests /\ (req.op # "restart" => Len(log) < MaxCommands)
        BY <1>2 DEF Reserve, ServerInv
    <2>3. log' \in Seq([id : Ids, ok : BOOLEAN]) /\ Len(log') <= MaxCommands
        BY <2>1, <2>2, Logged DEF RecordTypeOK
    <2> QED BY <1>2, <2>3 DEF Reserve, RecordTypeOK
<1>3. CASE Write
    <2>1. req \in Requests /\ req.op \in Ops /\ Len(log) < MaxCommands
        BY <1>3 DEF Write, ServerInv, Requests
    <2>2. Cmd(req) \in [id : Ids, op : Ops]
        BY <2>1 DEF Requests, Cmd
    <2>3. \E k \in BOOLEAN : log' = Append(log, [id |-> req.id, ok |-> k])
        BY <1>3 DEF Write, Refuse
    <2>4. log' \in Seq([id : Ids, ok : BOOLEAN]) /\ Len(log') <= MaxCommands
        BY <2>1, <2>3, Logged DEF RecordTypeOK
    <2>5. cache' \in [Slots -> Records] /\ written' \subseteq [id : Ids, op : Ops]
          /\ acked' \subseteq [id : Ids, op : Ops]
        BY <1>3, <2>2 DEF Write, RecordTypeOK, Records
    <2> QED BY <1>3, <2>4, <2>5 DEF Write, RecordTypeOK
<1>4. CASE PowerLoss \/ CommandedRestart
    <2>1. Restart
        BY <1>4 DEF PowerLoss, CommandedRestart
    <2>2. 0 \in Slots
        BY DEF Slots
    <2>3. cache' \in [Slots -> Records]
        BY <2>1 DEF Restart, Records
    <2> QED BY <2>1, <2>2, <2>3 DEF Restart, RecordTypeOK
<1>5. CASE IssueTake \/ IssueStore \/ IssueApply \/ RestartBegin \/ ShutdownBus
    BY <1>5 DEF IssueTake, IssueStore, IssueApply, RestartBegin, ShutdownBus, RecordTypeOK
<1>6. CASE RevokeAsked \/ RevokeTake \/ RevokeErase \/ RevokeApply \/ RevokeDone
    BY <1>6 DEF RevokeAsked, RevokeTake, RevokeErase, RevokeApply, RevokeDone, RecordTypeOK
<1>7. CASE OpenWindow \/ CloseWindow \/ Authorize \/ Claim \/ ClientRequest \/ UNCHANGED controlVars
    BY <1>7, RequestStep DEF OpenWindow, CloseWindow, Authorize, Claim, controlVars, RecordTypeOK
<1> QED BY Steps, <1>1, <1>2, <1>3, <1>4, <1>5, <1>6, <1>7

-----------------------------------------------------------------------------
(* The server, the mutex and the token                                     *)

(* The server's request stays with its step.                               *)
LEMMA ServerKept ==
    ASSUME HaControlTypeOK, ServerInv, [HaControlNext]_controlVars
    PROVE  ServerInv'
<1> USE Limits
<1>1. CASE CommandBegin
    <2>1. pc' = "idle" \/ (pc' = "reserve" /\ UNCHANGED <<req, log>>)
        BY <1>1, BeginStep
    <2> QED BY <1>1, <2>1, BeginStep DEF ServerInv, CommandBegin
<1>2. CASE RestartBegin
    BY <1>2 DEF RestartBegin, Done, SameBoot, ServerInv
<1>3. CASE Reserve
    BY <1>3 DEF Reserve, Done, Refuse, ServerInv
<1>4. CASE Write
    BY <1>4 DEF Write, Done, Refuse, ServerInv
<1>5. CASE PowerLoss \/ CommandedRestart
    BY <1>5 DEF PowerLoss, CommandedRestart, Restart, ServerInv
<1>6. CASE ClientRequest
    BY <1>6, RequestStep DEF ServerInv
<1>7. CASE IssueTake \/ IssueStore \/ IssueApply
    BY <1>7 DEF IssueTake, IssueStore, IssueApply, ServerInv
<1>8. CASE ShutdownBus
    BY <1>8 DEF ShutdownBus, ServerInv
<1>9. CASE Claim \/ Authorize
    BY <1>9 DEF Claim, Authorize, ServerInv
<1>10. CASE RevokeAsked \/ RevokeTake \/ RevokeErase \/ RevokeApply \/ RevokeDone
    BY <1>10 DEF RevokeAsked, RevokeTake, RevokeErase, RevokeApply, RevokeDone, ServerInv
<1>11. CASE OpenWindow \/ CloseWindow \/ UNCHANGED controlVars
    BY <1>11 DEF OpenWindow, CloseWindow, controlVars, ServerInv
<1> QED BY Steps, <1>1, <1>2, <1>3, <1>4, <1>5, <1>6, <1>7, <1>8, <1>9, <1>10, <1>11

(* The mutex keeps a rotation, a revocation and a write apart.             *)
LEMMA MutexKept ==
    ASSUME HaControlTypeOK, ServerInv, MutexInv, TokenInv, [HaControlNext]_controlVars
    PROVE  MutexInv'
<1> USE Limits DEF HaControlTypeOK
<1>1. CASE IssueTake
    <2>1. (made' # 0 /\ made' \notin retired /\ made' # ram) \/ pc' = "idle"
        BY <1>1 DEF IssueTake, TokenInv, TokenTypeOK, Tokens
    <2> QED BY <1>1, <2>1 DEF IssueTake, MutexInv
<1>2. CASE IssueStore
    BY <1>2 DEF IssueStore, MutexInv
<1>3. CASE IssueApply
    BY <1>3 DEF IssueApply, MutexInv
<1>4. CASE Reserve
    BY <1>4 DEF Reserve, Done, Refuse, MutexInv
<1>5. CASE Write
    BY <1>5 DEF Write, Done, Refuse, EndControlWrite, MutexInv
<1>6. CASE ShutdownBus
    BY <1>6 DEF ShutdownBus, MutexInv
<1>7. CASE PowerLoss \/ CommandedRestart
    BY <1>7 DEF PowerLoss, CommandedRestart, Restart, MutexInv
<1>8. CASE RevokeTake
    BY <1>8 DEF RevokeTake, MutexInv
<1>9. CASE RevokeErase
    BY <1>9 DEF RevokeErase, MutexInv
<1>10. CASE RevokeApply
    BY <1>10 DEF RevokeApply, MutexInv
<1>11. CASE RevokeAsked \/ RevokeDone
    BY <1>11 DEF RevokeAsked, RevokeDone, MutexInv
<1>12. CASE CommandBegin
    BY <1>12, BeginStep DEF CommandBegin, MutexInv
<1>13. CASE RestartBegin
    BY <1>13 DEF RestartBegin, Done, MutexInv
<1>14. CASE ClientRequest
    BY <1>14, RequestStep DEF MutexInv
<1>15. CASE OpenWindow \/ CloseWindow \/ Authorize \/ Claim \/ UNCHANGED controlVars
    BY <1>15 DEF OpenWindow, CloseWindow, Authorize, Claim, controlVars, MutexInv
<1> QED BY Steps, <1>1, <1>2, <1>3, <1>4, <1>5, <1>6, <1>7, <1>8, <1>9, <1>10, <1>11, <1>12,
           <1>13, <1>14, <1>15

(* A step that leaves the token alone and does not start a write.          *)
LEMMA TokenUntouched ==
    ASSUME TokenInv, UNCHANGED <<ram, nvs, gen, issued, made, retired>>,
           \/ pc' \notin {"begin", "reserve", "write", "restart"}
           \/ UNCHANGED req /\ pc \in {"begin", "reserve"} /\ pc' \in {"begin", "reserve"}
           \/ UNCHANGED <<req, pc, mutex>>
    PROVE  TokenInv'
BY DEF TokenInv, RetiredStaysRetired, WriteUnderCurrentToken

(* Tokens that were retired stay retired, and a write keeps its token.     *)
LEMMA TokenKept ==
    ASSUME HaControlTypeOK, ServerInv, MutexInv, TokenInv, [HaControlNext]_controlVars
    PROVE  TokenInv'
<1> USE Limits DEF HaControlTypeOK
<1>1. CASE IssueTake
    BY <1>1 DEF IssueTake, TokenInv, RetiredStaysRetired, WriteUnderCurrentToken, TokenTypeOK, Tokens
<1>2. CASE IssueStore
    BY <1>2 DEF IssueStore, TokenInv, RetiredStaysRetired, WriteUnderCurrentToken, TokenTypeOK, Tokens,
                MutexInv
<1>3. CASE IssueApply
    BY <1>3 DEF IssueApply, TokenInv, RetiredStaysRetired, WriteUnderCurrentToken, TokenTypeOK, Tokens,
                MutexInv
<1>4. CASE Reserve
    BY <1>4 DEF Reserve, StillValid, Done, Refuse, TokenInv, RetiredStaysRetired,
                WriteUnderCurrentToken
<1>5. CASE Write
    <2>1. pc' = "idle"
        BY <1>5 DEF Write, Done, Refuse
    <2> QED BY <1>5, <2>1, TokenUntouched DEF Write
<1>6. CASE ShutdownBus
    BY <1>6, TokenUntouched DEF ShutdownBus
<1>7. CASE PowerLoss \/ CommandedRestart
    <2>1. Restart
        BY <1>7 DEF PowerLoss, CommandedRestart
    <2> QED BY <2>1 DEF Restart, TokenInv, RetiredStaysRetired, WriteUnderCurrentToken, TokenTypeOK,
                        Tokens
<1>8. CASE RevokeTake
    BY <1>8 DEF RevokeTake, TokenInv, RetiredStaysRetired, WriteUnderCurrentToken
<1>9. CASE RevokeErase
    BY <1>9 DEF RevokeErase, TokenInv, RetiredStaysRetired, WriteUnderCurrentToken, TokenTypeOK,
                Tokens, MutexInv
<1>10. CASE RevokeApply
    <2>1. /\ ram' = 0 /\ nvs = 0 /\ gen' = gen + 1 /\ retired' = retired \union ({ram} \ {0})
          /\ UNCHANGED <<nvs, issued, made, pc, req>>
          /\ pc \notin {"write", "restart"}
        BY <1>10 DEF RevokeApply, MutexInv
    <2>2. ~(nvs' \in retired') /\ ~(ram' \in retired')
          /\ \A t \in retired' : t <= issued /\ t # 0
        BY <2>1 DEF TokenInv
    <2>3. pc \in {"begin", "reserve"} => req.gen \in Nat /\ req.gen <= gen
        BY DEF TokenInv, ServerInv, Requests
    <2> QED BY <2>1, <2>2, <2>3 DEF TokenInv, RetiredStaysRetired, WriteUnderCurrentToken,
                                    TokenTypeOK, Tokens
<1>11. CASE RevokeAsked \/ RevokeDone
    BY <1>11, TokenUntouched DEF RevokeAsked, RevokeDone
<1>12. CASE CommandBegin
    <2>1. pc = "begin" /\ (pc' = "idle" \/ (pc' = "reserve" /\ UNCHANGED req))
        BY <1>12, BeginStep
    <2> QED BY <1>12, <2>1, TokenUntouched DEF CommandBegin
<1>13. CASE RestartBegin
    BY <1>13, TokenUntouched DEF RestartBegin, Done
<1>14. CASE ClientRequest
    BY <1>14, RequestStep DEF TokenInv, RetiredStaysRetired, WriteUnderCurrentToken, TokenTypeOK
<1>15. CASE OpenWindow \/ CloseWindow \/ Authorize \/ UNCHANGED controlVars
    BY <1>15, TokenUntouched DEF OpenWindow, CloseWindow, Authorize, controlVars
<1>16. CASE Claim
    BY <1>16, TokenUntouched DEF Claim
<1> QED BY Steps, <1>1, <1>2, <1>3, <1>4, <1>5, <1>6, <1>7, <1>8, <1>9, <1>10, <1>11, <1>12,
           <1>13, <1>14, <1>15, <1>16

-----------------------------------------------------------------------------
(* The window and the boots                                                *)

(* A window that is open has granted nothing.                              *)
LEMMA WindowKept ==
    ASSUME HaControlTypeOK, WindowInv, [HaControlNext]_controlVars
    PROVE  WindowInv'
<1> USE Limits DEF HaControlTypeOK, WindowTypeOK
<1>1. CASE OpenWindow
    BY <1>1 DEF OpenWindow, WindowInv
<1>2. CASE CloseWindow \/ RevokeDone
    BY <1>2 DEF CloseWindow, RevokeDone, ClearWindow, WindowInv
<1>3. CASE Authorize \/ Claim
    <2>1. code # 0 /\ UNCHANGED windows
        BY <1>3 DEF Authorize, Claim
    <2>2. Consume(code) \/ (WrongCode /\ UNCHANGED used)
        BY <1>3 DEF Authorize, Claim
    <2>3. CASE code' = 0 /\ used' = [used EXCEPT ![code] = used[code] + 1]
        <3>1. used[code] = 0 /\ code = windows
            BY <2>1 DEF WindowInv
        <3> QED BY <2>1, <2>3, <3>1 DEF WindowInv
    <2>4. CASE code' \in {0, code} /\ used' = used
        BY <2>1, <2>4 DEF WindowInv
    <2> QED BY <2>1, <2>2, <2>3, <2>4, WindowStep
<1>4. CASE PowerLoss \/ CommandedRestart
    BY <1>4 DEF PowerLoss, CommandedRestart, Restart, ClearWindow, WindowInv
<1>5. CASE IssueTake \/ IssueStore \/ IssueApply \/ ClientRequest \/ UNCHANGED controlVars
    BY <1>5, RequestStep DEF IssueTake, IssueStore, IssueApply, controlVars, WindowInv
<1>6. CASE CommandBegin \/ RestartBegin \/ Reserve \/ Write \/ ShutdownBus
    BY <1>6 DEF CommandBegin, RestartBegin, Reserve, Write, ShutdownBus, WindowInv
<1>7. CASE RevokeAsked \/ RevokeTake \/ RevokeErase \/ RevokeApply
    BY <1>7 DEF RevokeAsked, RevokeTake, RevokeErase, RevokeApply, WindowInv
<1> QED BY Steps, <1>1, <1>2, <1>3, <1>4, <1>5, <1>6, <1>7

(* A client ends the boot it named, and that one only.                     *)
LEMMA BootKept ==
    ASSUME HaControlTypeOK, ServerInv, BootInv, [HaControlNext]_controlVars
    PROVE  BootInv'
<1> USE Limits DEF HaControlTypeOK, ServerTypeOK, BootInv
<1>1. CASE CommandedRestart
    <2>1. restarted' = [restarted EXCEPT ![boot] = restarted[boot] + 1] /\ boot' = boot + 1
        BY <1>1 DEF CommandedRestart, Restart, ServerInv
    <2> QED BY <2>1
<1>2. CASE PowerLoss
    BY <1>2 DEF PowerLoss, Restart
<1>3. CASE OpenWindow \/ CloseWindow \/ Authorize \/ Claim \/ ClientRequest \/ UNCHANGED controlVars
    BY <1>3, RequestStep DEF OpenWindow, CloseWindow, Authorize, Claim, controlVars
<1>4. CASE IssueTake \/ IssueStore \/ IssueApply \/ RestartBegin \/ ShutdownBus
    BY <1>4 DEF IssueTake, IssueStore, IssueApply, RestartBegin, ShutdownBus
<1>5. CASE RevokeAsked \/ RevokeTake \/ RevokeErase \/ RevokeApply \/ RevokeDone
    BY <1>5 DEF RevokeAsked, RevokeTake, RevokeErase, RevokeApply, RevokeDone
<1>6. CASE CommandBegin \/ Reserve \/ Write
    BY <1>6 DEF CommandBegin, Reserve, Write
<1> QED BY Steps, <1>1, <1>2, <1>3, <1>4, <1>5, <1>6

-----------------------------------------------------------------------------
(* The record of commands                                                  *)

(* A multiple of the size that is positive is at least the size.           *)
LEMMA PositiveMultiple ==
    ASSUME NEW q \in Int, NEW n \in Nat, 0 < n * q
    PROVE  n * q >= n
<1>1. CASE q >= 1
    BY <1>1
<1>2. CASE q <= 0
    BY <1>2
<1> QED BY <1>1, <1>2

(* Quotient and remainder.                                                 *)
LEMMA DivisionByN ==
    ASSUME NEW a \in Nat, NEW n \in Nat \ {0}
    PROVE  a = n * (a \div n) + (a % n) /\ a \div n \in Int /\ a % n \in Int
OBVIOUS

(* Numbers less than CacheSize apart have different slots.                 *)
LEMMA SlotsDiffer ==
    ASSUME NEW a \in Nat, NEW b \in Nat, a < b, b - a < CacheSize
    PROVE  SlotOf(a) # SlotOf(b)
<1> SUFFICES ASSUME a % CacheSize = b % CacheSize
             PROVE  FALSE
    BY DEF SlotOf
<1> DEFINE p == a \div CacheSize
           q == b \div CacheSize
           r == a % CacheSize
<1>0. CacheSize \in Nat \ {0}
    BY Limits
<1>1. /\ a = CacheSize * p + r /\ b = CacheSize * q + r
      /\ p \in Int /\ q \in Int /\ r \in Int
    BY <1>0, DivisionByN
<1> HIDE DEF p, q, r
<1>2. b - a = CacheSize * (q - p) /\ q - p \in Int
    BY <1>1, Limits
<1> QED BY <1>2, PositiveMultiple, Limits

(* A step that neither takes a slot nor ends a command.                    *)
LEMMA RecordUntouched ==
    ASSUME RecordInv, UNCHANGED <<cache, next, slot, log, written, acked>>,
           \/ ~Pending /\ ~Pending'
           \/ Pending /\ Pending' /\ UNCHANGED req
    PROVE  RecordInv'
BY Zenon DEF RecordInv, WrittenInv, CountInv, KeptInv, NewInv, AcceptedRecognised, AckedWasWritten

(* What ha_command_begin does not find was not accepted lately.            *)
LEMMA NotAcceptedLately ==
    ASSUME RecordTypeOK, KeptInv, next = Len(log),
           \A s \in Slots : cache[s].id # req.id
    PROVE  \A j \in 1..Len(log) : log[j].ok /\ log[j].id = req.id => next + 1 - j > CacheSize
<1> SUFFICES ASSUME NEW j \in 1..Len(log), log[j].ok, log[j].id = req.id, next - j < CacheSize
             PROVE  FALSE
    BY Limits DEF RecordTypeOK
<1>1. cache[SlotOf(j - 1)].id = req.id
    BY DEF KeptInv
<1>2. SlotOf(j - 1) \in Slots
    BY SlotInRange
<1> QED BY <1>1, <1>2

(* A result for an id that was not accepted lately keeps the order.        *)
LEMMA RecognisedKept ==
    ASSUME RecordTypeOK, AcceptedRecognised,
           req \in Requests, Len(log) < MaxCommands,
           NEW k \in BOOLEAN, log' = Append(log, [id |-> req.id, ok |-> k]),
           \A j \in 1..Len(log) :
               log[j].ok /\ log[j].id = req.id => Len(log) + 1 - j > CacheSize
    PROVE  AcceptedRecognised'
<1> SUFFICES ASSUME NEW n \in 1..Len(log'), NEW m \in 1..Len(log'),
                    n < m, log'[n].id = log'[m].id, log'[n].ok
             PROVE  m - n > CacheSize
    BY DEF AcceptedRecognised
<1>0. Len(log) \in Nat /\ Len(log') = Len(log) + 1
    BY Logged
<1>1. n \in 1..Len(log) /\ log'[n] = log[n]
    BY <1>0, Logged
<1>2. CASE m = Len(log) + 1
    BY <1>1, <1>2, Logged
<1>3. CASE m \in 1..Len(log)
    BY <1>1, <1>3, Logged DEF AcceptedRecognised
<1>4. m = Len(log) + 1 \/ m \in 1..Len(log)
    BY <1>0
<1> QED BY <1>2, <1>3, <1>4, Zenon

(* Emptying the next slot forgets only the command CacheSize before.       *)
LEMMA SlotEmptied ==
    ASSUME RecordTypeOK, KeptInv, next = Len(log),
           cache' = [cache EXCEPT ![SlotOf(next)] = Empty],
           NEW j \in 1..Len(log), log[j].ok, next + 1 - j < CacheSize
    PROVE  cache'[SlotOf(j - 1)].id = log[j].id
<1>1. j - 1 \in Nat /\ next \in Nat /\ j - 1 < next /\ next - (j - 1) < CacheSize
    BY DEF RecordTypeOK
<1>2. SlotOf(j - 1) # SlotOf(next)
    BY <1>1, SlotsDiffer
<1>3. SlotOf(j - 1) \in Slots /\ cache[SlotOf(j - 1)].id = log[j].id
    BY <1>1, Limits, SlotInRange DEF KeptInv
<1> QED BY <1>2, <1>3 DEF RecordTypeOK

(* A pending command that ends without being accepted.                     *)
LEMMA RefusedKept ==
    ASSUME HaControlTypeOK, ServerInv, RecordInv, Pending, ~Pending',
           log' = Append(log, [id |-> req.id, ok |-> FALSE]),
           UNCHANGED <<cache, next, written, acked>>
    PROVE  RecordInv'
<1>1. req \in Requests /\ Len(log) < MaxCommands /\ RecordTypeOK
    BY DEF Pending, ServerInv, HaControlTypeOK
<1>2. next = Len(log) + 1
    BY DEF RecordInv, CountInv
<1>3. AcceptedRecognised'
    <2>1. \A j \in 1..Len(log) :
              log[j].ok /\ log[j].id = req.id => Len(log) + 1 - j > CacheSize
        BY <1>2 DEF RecordInv, NewInv
    <2> QED BY <1>1, <2>1, RecognisedKept, Zenon DEF RecordInv
<1>4. /\ Len(log) \in Nat /\ Len(log') = Len(log) + 1 /\ \A j \in 1..Len(log) : log'[j] = log[j]
      /\ ~log'[Len(log) + 1].ok
    BY <1>1, Logged
<1>5. KeptInv'
    BY <1>4 DEF RecordInv, KeptInv
<1> QED BY <1>2, <1>3, <1>4, <1>5 DEF RecordInv, WrittenInv, AckedWasWritten, CountInv, NewInv

(* A new command takes the next slot, and may be refused at once.          *)
LEMMA BeginKept ==
    ASSUME HaControlTypeOK, ServerInv, RecordInv, CommandBegin
    PROVE  RecordInv'
<1>1. req \in Requests /\ req.op \in Ops /\ Len(log) < MaxCommands /\ RecordTypeOK
    BY BeginStep DEF HaControlTypeOK
<1>2. ~Pending /\ next = Len(log) /\ next \in Nat
    BY BeginStep DEF Pending, RecordInv, CountInv, HaControlTypeOK, RecordTypeOK
<1>3. CASE /\ pc' = "idle" /\ UNCHANGED <<cache, next, slot, log>>
           /\ \/ acked' = acked
              \/ acked' = acked \union {Cmd(req)} /\ \E s \in Slots : cache[s] = Cmd(req)
    <2>1. Cmd(req) # Empty
        BY <1>1, Limits DEF Cmd, Empty
    <2>2. acked' \subseteq written
        BY <1>3, <2>1 DEF RecordInv, WrittenInv, AckedWasWritten
    <2>3. ~Pending'
        BY <1>3 DEF Pending
    <2> QED BY <1>2, <1>3, <2>2, <2>3, BeginStep
            DEF RecordInv, WrittenInv, CountInv, KeptInv, NewInv, AcceptedRecognised, AckedWasWritten
<1>4. CASE /\ \A s \in Slots : cache[s].id # req.id
           /\ slot' = SlotOf(next) /\ next' = next + 1
           /\ cache' = [cache EXCEPT ![SlotOf(next)] = Empty]
           /\ UNCHANGED acked
           /\ \/ pc' = "reserve" /\ UNCHANGED <<req, log>>
              \/ pc' = "idle" /\ log' = Append(log, [id |-> req.id, ok |-> FALSE])
    <2>1. \A j \in 1..Len(log) : log[j].ok /\ log[j].id = req.id => next + 1 - j > CacheSize
        BY <1>1, <1>2, <1>4, NotAcceptedLately DEF RecordInv
    <2>2. \A j \in 1..Len(log) :
              log[j].ok /\ next + 1 - j < CacheSize => cache'[SlotOf(j - 1)].id = log[j].id
        BY <1>1, <1>2, <1>4, SlotEmptied DEF RecordInv
    <2>3. WrittenInv'
        BY <1>1, <1>4, BeginStep DEF RecordInv, WrittenInv, AckedWasWritten, RecordTypeOK
    <2>4. CASE pc' = "reserve" /\ UNCHANGED <<req, log>>
        <3>1. Pending'
            BY <1>1, <2>4, Limits DEF Pending
        <3>2. CountInv' /\ KeptInv' /\ NewInv' /\ AcceptedRecognised'
            BY <1>2, <1>4, <2>1, <2>2, <2>4, <3>1
               DEF RecordInv, CountInv, KeptInv, NewInv, AcceptedRecognised
        <3> QED BY <2>3, <3>2 DEF RecordInv
    <2>5. CASE pc' = "idle" /\ log' = Append(log, [id |-> req.id, ok |-> FALSE])
        <3>1. ~Pending'
            BY <2>5 DEF Pending
        <3>2. AcceptedRecognised'
            BY <1>1, <1>2, <2>1, <2>5, RecognisedKept DEF RecordInv
        <3>3. /\ Len(log) \in Nat /\ Len(log') = Len(log) + 1
              /\ \A j \in 1..Len(log) : log'[j] = log[j]
              /\ ~log'[Len(log) + 1].ok
            BY <1>1, <2>5, Logged
        <3>4. KeptInv'
            BY <1>2, <1>4, <2>2, <3>3 DEF KeptInv
        <3> QED BY <1>2, <1>4, <2>3, <3>1, <3>2, <3>3, <3>4 DEF RecordInv, CountInv, NewInv
    <2> QED BY <1>4, <2>4, <2>5
<1> QED BY <1>3, <1>4, BeginStep

(* A command that was carried out is recorded in its slot.                 *)
LEMMA WriteKept ==
    ASSUME HaControlTypeOK, ServerInv, RecordInv, Write
    PROVE  RecordInv'
<1>1. Pending /\ ~Pending' /\ req \in Requests /\ Len(log) < MaxCommands /\ RecordTypeOK
    BY DEF Pending, Write, Done, Refuse, ServerInv, HaControlTypeOK
<1>2. CASE /\ cache' = [cache EXCEPT ![slot] = Cmd(req)]
           /\ log' = Append(log, [id |-> req.id, ok |-> TRUE])
           /\ written' = written \union {Cmd(req)} /\ acked' = acked \union {Cmd(req)}
    <2>1. next = Len(log) + 1 /\ slot = SlotOf(next - 1) /\ UNCHANGED next
        BY <1>1 DEF RecordInv, CountInv, Write
    <2>2. /\ Len(log) \in Nat /\ Len(log') = Len(log) + 1
          /\ \A j \in 1..Len(log) : log'[j] = log[j]
          /\ log'[Len(log) + 1].id = req.id
        BY <1>1, <1>2, Logged
    <2>3. AcceptedRecognised'
        <3>1. \A j \in 1..Len(log) :
                  log[j].ok /\ log[j].id = req.id => Len(log) + 1 - j > CacheSize
            BY <1>1, <2>1 DEF RecordInv, NewInv
        <3> QED BY <1>1, <1>2, <3>1, RecognisedKept, Zenon DEF RecordInv
    <2>4. WrittenInv'
        BY <1>1, <1>2 DEF RecordInv, WrittenInv, AckedWasWritten, RecordTypeOK
    <2>5. ASSUME NEW j \in 1..Len(log'), log'[j].ok, next' - j < CacheSize
          PROVE  cache'[SlotOf(j - 1)].id = log'[j].id
        <3>1. CASE j = Len(log) + 1
            <4>1. cache'[slot].id = req.id
                BY <1>1, <1>2 DEF RecordTypeOK, Cmd
            <4> QED BY <2>1, <2>2, <3>1, <4>1
        <3>2. CASE j \in 1..Len(log)
            <4>1. j - 1 \in Nat /\ next - 1 \in Nat /\ j - 1 < next - 1
                  /\ (next - 1) - (j - 1) < CacheSize
                BY <2>1, <2>2, <2>5, <3>2, Limits
            <4>2. SlotOf(j - 1) # slot /\ SlotOf(j - 1) \in Slots
                BY <2>1, <4>1, SlotsDiffer, SlotInRange
            <4>3. cache[SlotOf(j - 1)].id = log[j].id
                BY <2>1, <2>2, <2>5, <3>2 DEF RecordInv, KeptInv
            <4> QED BY <1>1, <1>2, <2>2, <3>2, <4>2, <4>3 DEF RecordTypeOK
        <3> QED BY <2>2, <3>1, <3>2
    <2>6. KeptInv'
        BY <2>5 DEF KeptInv
    <2> QED BY <1>1, <2>1, <2>2, <2>3, <2>4, <2>6 DEF RecordInv, CountInv, NewInv
<1>3. CASE Refuse /\ UNCHANGED <<cache, written, acked>>
    BY <1>1, <1>3, RefusedKept DEF Refuse, Write
<1> QED BY <1>2, <1>3 DEF Write

(* The record stays right.                                                 *)
LEMMA RecordKept ==
    ASSUME HaControlTypeOK, ServerInv, RecordInv, [HaControlNext]_controlVars
    PROVE  RecordInv'
<1>1. CASE CommandBegin
    BY <1>1, BeginKept
<1>2. CASE Write
    BY <1>2, WriteKept
<1>3. CASE Reserve
    <2>1. CASE Refuse /\ req.op # "restart"
        <3>1. Pending /\ ~Pending'
            BY <1>3, <2>1 DEF Reserve, Pending, Refuse, Done
        <3> QED BY <1>3, <2>1, <3>1, RefusedKept DEF Reserve, Refuse
    <2>2. CASE Done /\ UNCHANGED log /\ req.op = "restart"
        BY <1>3, <2>2, RecordUntouched DEF Reserve, Pending, Done
    <2>3. CASE /\ pc' = IF req.op = "restart" THEN "restart" ELSE "write"
               /\ UNCHANGED <<req, log>>
        BY <1>3, <2>3, RecordUntouched DEF Reserve, Pending
    <2> QED BY <1>3, <2>1, <2>2, <2>3 DEF Reserve
<1>4. CASE PowerLoss \/ CommandedRestart
    <2>1. Restart
        BY <1>4 DEF PowerLoss, CommandedRestart
    <2>2. ~Pending'
        BY <2>1 DEF Restart, Pending
    <2>3. /\ next' = 0 /\ log' = <<>> /\ Len(log') = 0 /\ UNCHANGED <<written, acked>>
          /\ \A s \in Slots : cache'[s] = Empty
        BY <2>1 DEF Restart
    <2> QED BY <2>2, <2>3 DEF RecordInv, WrittenInv, CountInv, KeptInv, NewInv, AcceptedRecognised,
                              AckedWasWritten
<1>5. CASE ClientRequest
    <2>1. ~Pending /\ ~Pending'
        BY <1>5, RequestStep DEF HaControlTypeOK, Pending
    <2> QED BY <1>5, <2>1, RequestStep, RecordUntouched
<1>6. CASE RestartBegin
    BY <1>6, RecordUntouched DEF RestartBegin, Pending, Done
<1>7. CASE IssueTake \/ IssueStore \/ IssueApply \/ ShutdownBus
    BY <1>7, RecordUntouched DEF IssueTake, IssueStore, IssueApply, ShutdownBus, Pending
<1>8. CASE Claim
    BY <1>8, RecordUntouched DEF Claim, Pending
<1>9. CASE RevokeAsked \/ RevokeTake \/ RevokeErase \/ RevokeApply \/ RevokeDone
    BY <1>9, RecordUntouched DEF RevokeAsked, RevokeTake, RevokeErase, RevokeApply, RevokeDone, Pending
<1>10. CASE OpenWindow \/ CloseWindow \/ Authorize \/ UNCHANGED controlVars
    BY <1>10, RecordUntouched DEF OpenWindow, CloseWindow, Authorize, controlVars, Pending
<1> QED BY Steps, <1>1, <1>2, <1>3, <1>4, <1>5, <1>6, <1>7, <1>8, <1>9, <1>10

-----------------------------------------------------------------------------
(* The theorems                                                            *)

(* At the start nothing is issued, recorded or granted.                    *)
LEMMA HaControlStart ==
    ASSUME HaControlInit
    PROVE  HaControlInv
<1> USE Limits DEF HaControlInit
<1>1. TokenTypeOK /\ WindowTypeOK /\ ServerTypeOK
    BY DEF TokenTypeOK, WindowTypeOK, ServerTypeOK, Tokens
<1>2. RecordTypeOK
    BY DEF RecordTypeOK, Records, Slots
<1>3. ServerInv /\ MutexInv /\ WindowInv /\ BootInv
    BY DEF ServerInv, MutexInv, WindowInv, BootInv
<1>4. TokenInv
    BY DEF TokenInv, RetiredStaysRetired, WriteUnderCurrentToken
<1>5. RecordInv
    BY DEF RecordInv, WrittenInv, CountInv, KeptInv, NewInv, AcceptedRecognised, AckedWasWritten,
           Pending
<1> QED BY <1>1, <1>2, <1>3, <1>4, <1>5 DEF HaControlInv, HaControlTypeOK

(* The inductive invariant holds whatever the parameters are: the          *)
(* integration token of auth_manager.cpp, the code of setup_pairing.cpp    *)
(* and the record of ha_command_begin and ha_command_finish agree with     *)
(* what the clients were told.                                             *)
THEOREM HaControlInvariant == HaControlSpec => []HaControlInv
<1>1. HaControlInit => HaControlInv
    BY HaControlStart
<1>2. ASSUME HaControlInv, [HaControlNext]_controlVars
      PROVE  HaControlInv'
    <2>1. HaControlTypeOK'
        BY <1>2, TokenType, WindowType, ServerType, RecordType DEF HaControlInv, HaControlTypeOK
    <2>2. ServerInv' /\ MutexInv' /\ TokenInv'
        BY <1>2, ServerKept, MutexKept, TokenKept DEF HaControlInv
    <2>3. WindowInv' /\ BootInv' /\ RecordInv'
        BY <1>2, WindowKept, BootKept, RecordKept DEF HaControlInv
    <2> QED BY <2>1, <2>2, <2>3 DEF HaControlInv
<1> QED BY <1>1, <1>2, PTL DEF HaControlSpec

(* A token that was replaced or revoked with success never works again,    *)
(* through failed NVS writes and restarts between the two copies, and the  *)
(* mutex keeps a control write under the token that authorised it.         *)
THEOREM TokensAreHonoured == HaControlSpec => []TokenHonoured
<1>1. HaControlInv => TokenHonoured
    BY DEF HaControlInv, TokenInv, TokenHonoured
<1> QED BY <1>1, HaControlInvariant, PTL

(* consume_code grants one claim or one password change for each window.   *)
THEOREM CodesAreGoodOnce == HaControlSpec => []CodeGoodOnce
<1>1. HaControlInv => CodeGoodOnce
    BY DEF HaControlInv, WindowInv, CodeGoodOnce
<1> QED BY <1>1, HaControlInvariant, PTL

(* Whatever the size of the record, an accepted command is recognised      *)
(* through the next CacheSize new ones, a repeated restart request does    *)
(* not restart again, and only what was carried out is acknowledged.       *)
THEOREM CommandsAreCarriedOutOnce == HaControlSpec => []CommandsOnce
<1>1. HaControlInv => CommandsOnce
    BY DEF HaControlInv, BootInv, RecordInv, WrittenInv, CommandsOnce, RestartedOnce
<1> QED BY <1>1, HaControlInvariant, PTL

HIDE DEF token, window, server, commands, history

-----------------------------------------------------------------------------
(* The push channel                                                        *)

(* The bounds are natural numbers, and there is room for a client.         *)
LEMMA PushLimits ==
    /\ Clients \in Nat /\ Clients > 0 /\ NoFd \notin Fds
    /\ MaxVersion \in Nat /\ MaxPushGen \in Nat /\ MaxSessions \in Nat /\ MaxStops \in Nat
BY HaPushParameters

-----------------------------------------------------------------------------
(* The operators                                                           *)

(* The loops of ha_websocket.cpp find the first slot of those they look    *)
(* for.                                                                    *)
LEMMA FirstFound ==
    ASSUME NEW S \in SUBSET Nat, S # {}
    PROVE  FirstOf(S) \in S /\ \A t \in S : FirstOf(S) <= t
<1> DEFINE R == {p \in Nat \X Nat : p[1] < p[2]}
<1>1. IsWellFoundedOn(R, Nat)
    BY NatLessThanWellFounded DEF OpToRel
<1>2. \E n \in S : \A m \in S : ~(<<m, n>> \in R)
    <2> HIDE DEF R
    <2> QED BY <1>1, WFMin
<1>3. ASSUME NEW n \in Nat, NEW m \in Nat, ~(<<m, n>> \in R)
      PROVE  n <= m
    BY <1>3
<1>4. \E n \in S : \A m \in S : n <= m
    <2> HIDE DEF R
    <2> QED BY <1>2, <1>3
<1> QED BY <1>4 DEF FirstOf

(* What an entry of a table can be.                                        *)
LEMMA EntryTypes ==
    ASSUME NEW t \in Tables, NEW s \in ClientSlots
    PROVE  /\ t[s] \in Entries \union {Free}
           /\ t[s] # Free <=> t[s].fd \in Fds
           /\ t[s] # Free <=> t[s].fd # NoFd
           /\ t[s] # Free <=> t[s].id # 0
           /\ t[s].id \in Nat
<1>1. t[s] \in Entries \union {Free}
    BY DEF Tables
<1>2. CASE t[s] = Free
    BY <1>2, PushLimits DEF Free
<1>3. CASE t[s] \in Entries
    BY <1>3, PushLimits DEF Free, Entries
<1> QED BY <1>1, <1>2, <1>3

(* An empty table.                                                         *)
LEMMA EmptyTable == [s \in ClientSlots |-> Free] \in Tables
BY DEF Tables

(* The next client of the copy, or none.                                   *)
LEMMA SkipsTo ==
    ASSUME copy \in Tables, NEW k \in 0..Clients
    PROVE  /\ Skip(k) \in (k + 1)..(Clients + 1)
           /\ Skip(k) <= Clients => Skip(k) \in ClientSlots /\ copy[Skip(k)] # Free
<1> DEFINE S == {j \in (k + 1)..Clients : copy[j] # Free} \union {Clients + 1}
<1>1. S \in SUBSET Nat /\ S # {} /\ Skip(k) = FirstOf(S)
    BY PushLimits DEF Skip
<1>2. FirstOf(S) \in S
    <2> HIDE DEF S
    <2> QED BY <1>1, FirstFound
<1>3. Skip(k) \in S
    BY <1>1, <1>2
<1> QED BY <1>3, PushLimits DEF ClientSlots

(* removeClientByFd clears entries of the socket only, and with one entry  *)
(* to a socket all of them.                                                *)
LEMMA WithoutSocket ==
    ASSUME HttpdTypeOK, EntryInv, NEW fd \in Fds
    PROVE  /\ Without(table, fd) \in Tables
           /\ \A s \in ClientSlots : Without(table, fd)[s] = IF table[s].fd = fd THEN Free ELSE table[s]
<1> DEFINE Same == {s \in ClientSlots : table[s].fd = fd}
           k == FirstOf(Same)
<1>1. table \in Tables /\ table = [s \in ClientSlots |-> table[s]]
    BY DEF HttpdTypeOK, Tables
<1>2. CASE Same = {}
    <2>1. Without(table, fd) = table
        BY <1>2 DEF Without
    <2> QED BY <1>1, <1>2, <2>1
<1>3. CASE Same # {}
    <2>1. k \in Same
        <3>1. Same \in SUBSET Nat
            BY PushLimits DEF ClientSlots
        <3> HIDE DEF Same
        <3> QED BY <1>3, <3>1, FirstFound
    <2>2. Without(table, fd) = [table EXCEPT ![k] = Free]
        BY <1>3 DEF Without
    <2> HIDE DEF k
    <2>3. \A s \in Same : s = k
        BY <2>1, <1>1, EntryTypes, PushLimits DEF EntryInv
    <2>4. Free \in Entries \union {Free}
        OBVIOUS
    <2>5. [table EXCEPT ![k] = Free] \in Tables
        BY <1>1, <2>1 DEF Tables
    <2> QED BY <1>1, <2>1, <2>2, <2>3, <2>5
<1> QED BY <1>2, <1>3

-----------------------------------------------------------------------------
(* Steps that only take entries away                                       *)

TableShrinks ==
    /\ table' \in Tables
    /\ \A s \in ClientSlots :
          table'[s] = Free \/ (table'[s].fd = table[s].fd /\ table'[s].id = table[s].id)

CopyShrinks ==
    /\ copy' \in Tables
    /\ \A j \in ClientSlots : copy'[j] = Free \/ copy'[j] = copy[j]

(* A table that stays as it is.                                            *)
LEMMA SameTables ==
    ASSUME HaPushTypeOK
    PROVE  (UNCHANGED table => TableShrinks) /\ (UNCHANGED copy => CopyShrinks)
BY DEF HaPushTypeOK, HttpdTypeOK, PushTypeOK, TableShrinks, CopyShrinks

(* Numbers are told apart as before.                                       *)
LEMMA NumbersShrink ==
    ASSUME HaPushTypeOK, NumberInv, TableShrinks, CopyShrinks, UNCHANGED nextId
    PROVE  NumberInv'
<1>1. /\ table \in Tables /\ table' \in Tables /\ copy \in Tables /\ copy' \in Tables
      /\ nextId \in Nat /\ nextId > 0
    BY DEF HaPushTypeOK, HttpdTypeOK, PushTypeOK, TableShrinks, CopyShrinks
<1>2. Free.id = 0
    BY DEF Free
<1>3. \A s \in ClientSlots : table'[s].id < nextId /\ copy'[s].id < nextId
    BY <1>1, <1>2 DEF NumberInv, TableShrinks, CopyShrinks
<1>4. ASSUME NEW s \in ClientSlots, NEW t \in ClientSlots, table'[s] # Free, table'[s].id = table'[t].id
      PROVE  s = t
    <2>1. table'[t] # Free
        BY <1>1, <1>4, EntryTypes
    <2>2. table[s].id = table[t].id /\ table[s] # Free
        BY <1>1, <1>2, <1>4, <2>1, EntryTypes DEF TableShrinks
    <2> QED BY <2>2 DEF NumberInv, SameConnection
<1>5. ASSUME NEW s \in ClientSlots, NEW j \in ClientSlots, copy'[j] # Free, table'[s].id = copy'[j].id
      PROVE  table'[s].fd = copy'[j].fd
    <2>1. copy'[j] = copy[j] /\ copy[j] # Free
        BY <1>5 DEF CopyShrinks
    <2>2. table'[s] # Free
        BY <1>1, <1>5, EntryTypes
    <2>3. table'[s].fd = table[s].fd /\ table'[s].id = table[s].id
        BY <2>2 DEF TableShrinks
    <2> QED BY <1>5, <2>1, <2>3 DEF NumberInv, SameConnection
<1> QED BY <1>3, <1>4, <1>5 DEF NumberInv, SameConnection

(* The sockets that need an entry keep theirs, if the step takes no entry  *)
(* of one and no new one comes to need it.                                 *)
LEMMA EntriesShrink ==
    ASSUME HaPushTypeOK, EntryInv, TableShrinks,
           shaking' # NoFd => shaking' = shaking /\ sess'[shaking].kind = "ws",
           \A fd \in Fds : Owed(fd)' =>
               /\ Owed(fd) /\ ~Detached'
               /\ \A s \in ClientSlots : table[s].fd = fd => table'[s].fd = fd
    PROVE  EntryInv'
<1>1. table \in Tables /\ table' \in Tables
    BY DEF HaPushTypeOK, HttpdTypeOK, TableShrinks
<1>2. Free.fd = NoFd
    BY DEF Free
<1>3. ASSUME NEW s \in ClientSlots, NEW t \in ClientSlots, table'[s] # Free, table'[s].fd = table'[t].fd
      PROVE  s = t
    <2>1. table'[t] # Free
        BY <1>1, <1>3, EntryTypes
    <2>2. table[s].fd = table[t].fd /\ table[s] # Free
        BY <1>1, <1>3, <2>1, EntryTypes DEF TableShrinks
    <2> QED BY <2>2 DEF EntryInv
<1>4. shaking' # NoFd => sess'[shaking'].kind = "ws" /\ \A s \in ClientSlots : table'[s].fd # shaking'
    BY <1>1, <1>2 DEF EntryInv, TableShrinks
<1>5. \A fd \in Fds : Owed(fd)' => ~Detached' /\ \E s \in ClientSlots : table'[s].fd = fd
    BY DEF EntryInv
<1> QED BY <1>3, <1>4, <1>5 DEF EntryInv

-----------------------------------------------------------------------------
(* What the parts of an action do                                          *)

(* A session that is not closed is one of the sessions.                    *)
LEMMA SessionTypes ==
    ASSUME HttpdTypeOK, NEW fd \in Fds
    PROVE  /\ sess[fd] \in Sessions \union {Closed}
           /\ sess[fd].kind \in {"http", "ws"} => sess[fd] \in Sessions
           /\ Closed.kind = "free"
BY DEF HttpdTypeOK, Closed

(* Storing a session for one socket.                                       *)
LEMMA OneSession ==
    ASSUME HttpdTypeOK, NEW fd \in Fds, NEW x \in Sessions \union {Closed},
           sess' = [sess EXCEPT ![fd] = x]
    PROVE  /\ sess' \in [Fds -> Sessions \union {Closed}]
           /\ sess'[fd] = x /\ \A f \in Fds \ {fd} : sess'[f] = sess[f]
BY DEF HttpdTypeOK

(* closeClient takes entries of a socket that it asks to be closed.        *)
LEMMA ClosingTakes ==
    ASSUME HaPushTypeOK, NEW c \in Entries, CloseClient(c)
    PROVE  /\ TableShrinks /\ closing' \subseteq Fds
           /\ \A fd \in Fds : fd \notin closing' =>
                 fd \notin closing /\ \A s \in ClientSlots : table[s].fd = fd => table'[s].fd = fd
<1> DEFINE Same == {s \in ClientSlots : table[s].fd = c.fd /\ table[s].id = c.id}
<1>1. table \in Tables /\ closing \subseteq Fds /\ c.fd \in Fds
    BY DEF HaPushTypeOK, HttpdTypeOK, Entries
<1>2. CASE Same = {}
    <2>1. UNCHANGED <<table, closing>>
        BY <1>2 DEF CloseClient
    <2> QED BY <1>1, <2>1, SameTables
<1>3. CASE Same # {}
    <2>1. /\ table' = [s \in ClientSlots |-> IF s \in Same THEN Free ELSE table[s]]
          /\ closing' = closing \union {c.fd}
        BY <1>3 DEF CloseClient
    <2>2. table' \in Tables
        BY <1>1, <2>1 DEF Tables
    <2>3. TableShrinks
        BY <2>1, <2>2 DEF TableShrinks
    <2>4. \A fd \in Fds : fd \notin closing' =>
              fd \notin closing /\ \A s \in ClientSlots : table[s].fd = fd => table'[s].fd = fd
        BY <2>1
    <2> QED BY <1>1, <2>1, <2>3, <2>4
<1> QED BY <1>2, <1>3

(* The pass goes on at a client of the copy, or ends.                      *)
LEMMA PassGoesOn ==
    ASSUME PushTypeOK, NEW k \in 0..Clients, NextClient(k)
    PROVE  /\ sent' \in [hello : BOOLEAN, snapshot : BOOLEAN]
           /\ pushPc' \in {"sleep", "hello", "snapshot"} /\ i' \in 1..(Clients + 1)
           /\ pushPc' \in {"hello", "snapshot"} => i' \in ClientSlots /\ copy[i'] # Free
<1>1. /\ Skip(k) \in (k + 1)..(Clients + 1)
      /\ Skip(k) <= Clients => Skip(k) \in ClientSlots /\ copy[Skip(k)] # Free
    BY SkipsTo DEF PushTypeOK
<1>2. sent' \in [hello : BOOLEAN, snapshot : BOOLEAN]
    BY DEF NextClient, None
<1>3. CASE Skip(k) > Clients
    BY <1>2, <1>3, PushLimits DEF NextClient
<1>4. CASE ~(Skip(k) > Clients)
    <2>1. i' = Skip(k) /\ pushPc' \in {"hello", "snapshot"}
        BY <1>4 DEF NextClient
    <2>2. Skip(k) <= Clients /\ i' \in 1..(Clients + 1)
        BY <1>1, <1>4, <2>1, PushLimits
    <2> QED BY <1>1, <1>2, <2>1, <2>2
<1> QED BY <1>3, <1>4

(* assignRevision gives numbers to states there were.                      *)
LEMMA RevisionTypes ==
    ASSUME StateTypeOK, NEW v \in 0..MaxVersion, AssignRevision(v)
    PROVE  revision' \in Nat /\ hash' \in -1..MaxVersion
BY PushLimits DEF StateTypeOK, AssignRevision

(* Where the push task is at a client.                                     *)
LEMMA AtClient ==
    ASSUME HaPushTypeOK, PushInv, pushPc \in {"check", "hello", "snapshot", "update"}
    PROVE  i \in ClientSlots /\ i \in 0..Clients /\ copy[i] \in Entries /\ copy[i].fd \in Fds
<1>1. i \in ClientSlots /\ copy[i] # Free /\ copy \in Tables
    BY DEF PushInv, HaPushTypeOK, PushTypeOK
<1> QED BY <1>1, EntryTypes, PushLimits DEF ClientSlots

-----------------------------------------------------------------------------
(* The steps                                                               *)

(* A step that leaves sockets, table and copy alone.                       *)
LEMMA QuietKept ==
    ASSUME HaPushInv, UNCHANGED <<table, nextId, copy, sess, shaking, closing>>, Detached' => Detached
    PROVE  EntryInv' /\ NumberInv'
BY DEF HaPushInv, EntryInv, Owed, NumberInv, SameConnection

(* The heat pump, the credential, requests and stops.                      *)
LEMMA WorldKept ==
    ASSUME HaPushInv, StateChanges \/ Rotate \/ RestRead \/ RestAssign \/ Stop \/ Started
    PROVE  HaPushInv'
<1> USE DEF HaPushInv, HaPushTypeOK
<1>1. UNCHANGED <<table, nextId, copy, sess, shaking, closing>> /\ (Detached' => Detached)
    BY DEF StateChanges, Rotate, RestRead, RestAssign, Stop, Started, Detached, state, httpd, push
<1>2. CASE StateChanges
    BY <1>1, <1>2, QuietKept, PushLimits DEF StateChanges, StateTypeOK, HttpdTypeOK, PushTypeOK, PushInv,
       httpd, push
<1>3. CASE Rotate
    BY <1>1, <1>3, QuietKept, PushLimits DEF Rotate, StateTypeOK, HttpdTypeOK, PushTypeOK, PushInv, httpd, push
<1>4. CASE RestRead
    BY <1>1, <1>4, QuietKept, PushLimits DEF RestRead, StateTypeOK, HttpdTypeOK, PushTypeOK, PushInv, httpd,
       push, state
<1>5. CASE RestAssign
    <2>1. rest \in 0..MaxVersion
        BY <1>5, PushLimits DEF RestAssign, StateTypeOK
    <2>2. revision' \in Nat /\ hash' \in -1..MaxVersion
        BY <1>5, <2>1, RevisionTypes DEF RestAssign
    <2> QED BY <1>1, <1>5, <2>2, QuietKept, PushLimits DEF RestAssign, StateTypeOK, HttpdTypeOK, PushTypeOK,
               PushInv, httpd, push
<1>6. CASE Stop
    <2>1. StateTypeOK'
        BY <1>6, PushLimits DEF Stop, StateTypeOK, state
    <2>2. HttpdTypeOK'
        BY <1>1, <1>6 DEF Stop, HttpdTypeOK, httpd
    <2>3. PushTypeOK' /\ PushInv'
        BY <1>6 DEF Stop, PushTypeOK, PushInv, push
    <2> QED BY <1>1, <2>1, <2>2, <2>3, QuietKept
<1>7. CASE Started
    BY <1>1, <1>7, QuietKept, PushLimits DEF Started, StateTypeOK, HttpdTypeOK, PushTypeOK, PushInv, httpd, state
<1> QED BY <1>2, <1>3, <1>4, <1>5, <1>6, <1>7

(* The server's task opens and closes sockets and leaves the push task     *)
(* alone.                                                                  *)
LEMMA SocketsKept ==
    ASSUME HaPushInv, NEW fd \in Fds,
           Accept(fd) \/ PeerGone(fd) \/ PeerMute(fd) \/ RunClose(fd)
    PROVE  HaPushInv'
<1> USE DEF HaPushInv, HaPushTypeOK
<1>1. /\ UNCHANGED <<version, revision, hash, pushGen, table, nextId, running, up, shaking, push, rest,
                      stops>>
      /\ sessions' \in 0..MaxSessions
    BY PushLimits DEF Accept, PeerGone, PeerMute, RunClose, state, HttpdTypeOK
<1>2. StateTypeOK' /\ PushTypeOK' /\ PushInv'
    BY <1>1 DEF StateTypeOK, PushTypeOK, PushInv, push
<1>3. /\ sess' \in [Fds -> Sessions \union {Closed}]
      /\ \A f \in Fds \ {fd} : sess'[f] = sess[f]
      /\ PeerMute(fd) \/ (shaking = NoFd /\ sess'[fd].kind # "ws")
      /\ PeerMute(fd) => sess'[fd].kind = sess[fd].kind /\ sess'[fd].stray = sess[fd].stray
    <2>1. CASE Accept(fd)
        <3> DEFINE x == [kind |-> "http", token |-> pushGen, seen |-> -1, mute |-> FALSE,
                         stray |-> FALSE]
        <3>1. x \in Sessions /\ x.kind = "http"
            BY DEF Sessions, StateTypeOK
        <3>2. sess' = [sess EXCEPT ![fd] = x] /\ shaking = NoFd
            BY <2>1 DEF Accept, ServerIdle
        <3> HIDE DEF x
        <3>3. PeerMute(fd) => sess[fd].kind = "ws" /\ sess[fd] = Closed
            BY <2>1 DEF PeerMute, Accept
        <3> QED BY <3>1, <3>2, <3>3, OneSession, SessionTypes
    <2>2. CASE PeerGone(fd) \/ RunClose(fd)
        <3>1. sess' = [sess EXCEPT ![fd] = Closed] /\ shaking = NoFd
            BY <2>2 DEF PeerGone, RunClose, ServerIdle
        <3>2. ~PeerMute(fd)
            <4>1. PeerMute(fd) => sess' = [sess EXCEPT ![fd].mute = TRUE] /\ sess[fd].kind = "ws"
                BY DEF PeerMute
            <4>2. PeerMute(fd) => sess'[fd].kind = "ws"
                BY <4>1, SessionTypes DEF HttpdTypeOK, Sessions
            <4> QED BY <3>1, <4>2, OneSession, SessionTypes
        <3> QED BY <3>1, <3>2, OneSession, SessionTypes
    <2>3. CASE PeerMute(fd)
        <3> DEFINE x == [sess[fd] EXCEPT !.mute = TRUE]
        <3>1. sess[fd] \in Sessions
            BY <2>3, SessionTypes DEF PeerMute
        <3>2. x \in Sessions /\ x.kind = sess[fd].kind /\ x.stray = sess[fd].stray
            BY <3>1 DEF Sessions
        <3>3. sess' = [sess EXCEPT ![fd] = x]
            BY <2>3 DEF PeerMute
        <3> HIDE DEF x
        <3> QED BY <2>3, <3>2, <3>3, OneSession
    <2> QED BY <2>1, <2>2, <2>3
<1>4. /\ closing' \subseteq Fds
      /\ \A f \in Fds \ {fd} : f \notin closing' => f \notin closing
      /\ PeerMute(fd) => closing' = closing
    BY DEF Accept, PeerGone, PeerMute, RunClose, HttpdTypeOK
<1>5. HttpdTypeOK'
    BY <1>1, <1>3, <1>4 DEF HttpdTypeOK
<1>6. EntryInv'
    <2>1. shaking' # NoFd => shaking' = shaking /\ sess'[shaking].kind = "ws"
        BY <1>1, <1>3 DEF EntryInv, HttpdTypeOK
    <2>2. \A f \in Fds : Owed(f)' =>
               /\ Owed(f) /\ ~Detached'
               /\ \A s \in ClientSlots : table[s].fd = f => table'[s].fd = f
        <3>1. \A f \in Fds : Owed(f)' => Owed(f)
            BY <1>1, <1>3, <1>4 DEF Owed
        <3> QED BY <1>1, <3>1 DEF EntryInv, Detached, push
    <2> QED BY <1>1, <2>1, <2>2, EntriesShrink, SameTables
<1>7. NumberInv'
    BY <1>1, NumbersShrink, SameTables DEF push
<1> QED BY <1>2, <1>5, <1>6, <1>7

(* A close frame takes the one entry of its socket.                        *)
LEMMA CloseFrameKept ==
    ASSUME HaPushInv, NEW fd \in Fds, CloseFrame(fd)
    PROVE  HaPushInv'
<1> USE DEF HaPushInv, HaPushTypeOK
<1>1. /\ UNCHANGED <<version, revision, hash, pushGen, nextId, running, up, sess, sessions, shaking, push,
                      rest, stops>>
      /\ table' = Without(table, fd) /\ closing' = closing \union {fd} /\ shaking = NoFd
    BY DEF CloseFrame, state, ServerIdle
<1>2. StateTypeOK' /\ PushTypeOK' /\ PushInv'
    BY <1>1 DEF StateTypeOK, PushTypeOK, PushInv, push
<1>3. /\ table' \in Tables
      /\ \A s \in ClientSlots : table'[s] = IF table[s].fd = fd THEN Free ELSE table[s]
    BY <1>1, WithoutSocket
<1>4. HttpdTypeOK'
    BY <1>1, <1>3 DEF HttpdTypeOK
<1>5. TableShrinks
    BY <1>3 DEF TableShrinks
<1>6. EntryInv'
    <2>1. \A f \in Fds : Owed(f)' =>
               /\ Owed(f) /\ ~Detached'
               /\ \A s \in ClientSlots : table[s].fd = f => table'[s].fd = f
        BY <1>1, <1>3 DEF Owed, EntryInv, Detached, push
    <2> QED BY <1>1, <1>5, <2>1, EntriesShrink
<1>7. NumberInv'
    BY <1>1, <1>5, NumbersShrink, SameTables DEF push
<1> QED BY <1>2, <1>4, <1>6, <1>7

(* Before the handshake dead entries are cleared, among them one that the  *)
(* socket has from an earlier connection.                                  *)
LEMMA PreHandshakeKept ==
    ASSUME HaPushInv, NEW fd \in Fds, PreHandshake(fd)
    PROVE  HaPushInv'
<1> USE DEF HaPushInv, HaPushTypeOK
<1>1. /\ UNCHANGED <<version, revision, hash, pushGen, nextId, running, up, sessions, closing, push, rest,
                      stops>>
      /\ table' = IF sess[fd].token = pushGen THEN LiveEntries(table) ELSE table
      /\ shaking = NoFd /\ sess[fd].kind = "http" /\ sess[fd] \in Sessions
    BY SessionTypes DEF PreHandshake, state, ServerIdle
<1>2. StateTypeOK' /\ PushTypeOK' /\ PushInv'
    BY <1>1 DEF StateTypeOK, PushTypeOK, PushInv, push
<1>3. table \in Tables /\ table' \in Tables
    BY <1>1 DEF HttpdTypeOK, LiveEntries, Tables
<1>4. \A s \in ClientSlots :
          \/ table'[s] = table[s]
          \/ table'[s] = Free /\ table[s] # Free /\ (Detached \/ sess[table[s].fd].kind # "ws")
    BY <1>1 DEF LiveEntries
<1>5. TableShrinks
    BY <1>3, <1>4 DEF TableShrinks
<1>6. \A f \in Fds : Owed(f) => \A s \in ClientSlots : table[s].fd = f => table'[s].fd = f
    BY <1>4 DEF EntryInv, Owed
<1>7. NumberInv'
    BY <1>1, <1>5, NumbersShrink, SameTables DEF push
<1>8. CASE sess' = [sess EXCEPT ![fd] = Closed] /\ UNCHANGED shaking
    <2>1. /\ sess' \in [Fds -> Sessions \union {Closed}]
          /\ sess'[fd].kind = "free" /\ \A f \in Fds \ {fd} : sess'[f] = sess[f]
        BY <1>8, OneSession, SessionTypes
    <2>2. HttpdTypeOK'
        BY <1>1, <1>3, <1>8, <2>1 DEF HttpdTypeOK
    <2>3. \A f \in Fds : Owed(f)' =>
               /\ Owed(f) /\ ~Detached'
               /\ \A s \in ClientSlots : table[s].fd = f => table'[s].fd = f
        <3>1. \A f \in Fds : Owed(f)' => Owed(f)
            BY <1>1, <1>8, <2>1 DEF Owed
        <3> QED BY <1>1, <1>6, <3>1 DEF EntryInv, Detached, push
    <2>4. EntryInv'
        BY <1>1, <1>5, <1>8, <2>3, EntriesShrink
    <2> QED BY <1>2, <1>7, <2>2, <2>4
<1>9. CASE sess' = [sess EXCEPT ![fd].kind = "ws"] /\ shaking' = fd /\ sess[fd].token = pushGen
    <2> DEFINE x == [sess[fd] EXCEPT !.kind = "ws"]
    <2>1. x \in Sessions /\ x.kind = "ws" /\ sess' = [sess EXCEPT ![fd] = x]
        BY <1>1, <1>9 DEF Sessions
    <2> HIDE DEF x
    <2>2. /\ sess' \in [Fds -> Sessions \union {Closed}]
          /\ sess'[fd].kind = "ws" /\ \A f \in Fds \ {fd} : sess'[f] = sess[f]
        BY <2>1, OneSession
    <2>3. HttpdTypeOK'
        BY <1>1, <1>3, <1>9, <2>2 DEF HttpdTypeOK
    <2>4. \A s \in ClientSlots : table'[s].fd # fd
        <3>1. SUFFICES ASSUME NEW s \in ClientSlots, table'[s].fd = fd PROVE FALSE
            OBVIOUS
        <3>2. table'[s] # Free
            BY <1>3, <3>1, EntryTypes
        <3>3. table' = LiveEntries(table)
            BY <1>1, <1>9
        <3>4. table'[s] = table[s] /\ sess[table[s].fd].kind = "ws"
            BY <3>2, <3>3 DEF LiveEntries
        <3> QED BY <1>1, <3>1, <3>4
    <2>5. \A s, t \in ClientSlots : table'[s] # Free /\ table'[s].fd = table'[t].fd => s = t
        <3>1. SUFFICES ASSUME NEW s \in ClientSlots, NEW t \in ClientSlots,
                              table'[s] # Free, table'[s].fd = table'[t].fd
                       PROVE  s = t
            OBVIOUS
        <3>2. table'[t] # Free
            BY <1>3, <3>1, EntryTypes
        <3>3. table'[s] = table[s] /\ table'[t] = table[t]
            BY <1>4, <3>1, <3>2
        <3> QED BY <3>1, <3>3 DEF EntryInv
    <2>6. \A f \in Fds : Owed(f)' => ~Detached' /\ \E s \in ClientSlots : table'[s].fd = f
        <3>1. SUFFICES ASSUME NEW f \in Fds, Owed(f)'
                       PROVE  ~Detached' /\ \E s \in ClientSlots : table'[s].fd = f
            OBVIOUS
        <3>2. Owed(f)
            BY <1>1, <1>9, <2>2, <3>1, PushLimits DEF Owed
        <3>3. ~Detached /\ \E s \in ClientSlots : table[s].fd = f
            BY <3>2 DEF EntryInv
        <3> QED BY <1>1, <1>6, <3>2, <3>3 DEF Detached, push
    <2>7. EntryInv'
        BY <1>9, <2>2, <2>4, <2>5, <2>6 DEF EntryInv
    <2> QED BY <1>2, <1>7, <2>3, <2>7
<1> QED BY <1>8, <1>9 DEF PreHandshake

(* After the handshake the socket has its entry, under a new number, or it *)
(* is closed.                                                              *)
LEMMA PostHandshakeKept ==
    ASSUME HaPushInv, PostHandshake
    PROVE  HaPushInv'
<1> USE DEF HaPushInv, HaPushTypeOK
<1>1. /\ UNCHANGED <<version, revision, hash, pushGen, running, up, sessions, closing, push, rest, stops>>
      /\ shaking \in Fds /\ shaking' = NoFd /\ shaking # NoFd
    BY DEF PostHandshake, state, HttpdTypeOK
<1>2. StateTypeOK' /\ PushTypeOK' /\ PushInv'
    BY <1>1 DEF StateTypeOK, PushTypeOK, PushInv, push
<1>3. CASE sess' = [sess EXCEPT ![shaking] = Closed] /\ UNCHANGED <<table, nextId>>
    <2>1. /\ sess' \in [Fds -> Sessions \union {Closed}]
          /\ sess'[shaking].kind = "free" /\ \A f \in Fds \ {shaking} : sess'[f] = sess[f]
        BY <1>1, <1>3, OneSession, SessionTypes
    <2>2. HttpdTypeOK'
        BY <1>1, <1>3, <2>1 DEF HttpdTypeOK
    <2>3. \A f \in Fds : Owed(f)' =>
               /\ Owed(f) /\ ~Detached'
               /\ \A s \in ClientSlots : table[s].fd = f => table'[s].fd = f
        <3>1. \A f \in Fds : Owed(f)' => Owed(f)
            BY <1>1, <1>3, <2>1 DEF Owed
        <3> QED BY <1>1, <1>3, <3>1 DEF EntryInv, Detached, push
    <2>4. EntryInv'
        BY <1>1, <1>3, <2>3, EntriesShrink, SameTables
    <2>5. NumberInv'
        BY <1>1, <1>3, NumbersShrink, SameTables DEF push
    <2> QED BY <1>2, <2>2, <2>4, <2>5
<1>4. CASE /\ \E s \in ClientSlots : table[s] = Free
           /\ table' = [table EXCEPT ![FirstOf({s \in ClientSlots : table[s] = Free})] =
                [fd |-> shaking, id |-> nextId, gen |-> pushGen, pending |-> TRUE, rev |-> 0]]
           /\ nextId' = nextId + 1
           /\ sess' = [sess EXCEPT ![shaking].stray = Detached]
    <2> DEFINE S == {s \in ClientSlots : table[s] = Free}
               k == FirstOf(S)
               e == [fd |-> shaking, id |-> nextId, gen |-> pushGen, pending |-> TRUE, rev |-> 0]
    <2>1. k \in ClientSlots /\ table[k] = Free
        <3>1. S \in SUBSET Nat /\ S # {}
            BY <1>4, PushLimits DEF ClientSlots
        <3>2. k \in S
            <4> HIDE DEF S
            <4> QED BY <3>1, FirstFound
        <3> QED BY <3>2
    <2>2. e \in Entries /\ e.fd = shaking /\ e.id = nextId
        BY <1>1 DEF Entries, StateTypeOK, HttpdTypeOK
    <2>3. table' = [table EXCEPT ![k] = e]
        BY <1>4
    <2> HIDE DEF k, e
    <2>4. table \in Tables /\ table' \in Tables /\ copy \in Tables /\ nextId \in Nat /\ nextId > 0
        BY <2>1, <2>2, <2>3 DEF HttpdTypeOK, PushTypeOK, Tables
    <2>5. table'[k] = e /\ \A s \in ClientSlots \ {k} : table'[s] = table[s]
        BY <2>1, <2>3, <2>4 DEF Tables
    <2>6. HttpdTypeOK' /\ sess'[shaking].stray = Detached /\ sess'[shaking].kind = "ws"
          /\ \A f \in Fds \ {shaking} : sess'[f] = sess[f]
        <3> DEFINE x == [sess[shaking] EXCEPT !.stray = Detached]
        <3>1. sess[shaking] \in Sessions /\ sess[shaking].kind = "ws" /\ Detached \in BOOLEAN
            BY <1>1, SessionTypes DEF EntryInv, Detached
        <3>2. x \in Sessions /\ x.stray = Detached /\ x.kind = "ws" /\ sess' = [sess EXCEPT ![shaking] = x]
            BY <1>4, <3>1 DEF Sessions
        <3> HIDE DEF x
        <3>3. /\ sess' \in [Fds -> Sessions \union {Closed}]
              /\ sess'[shaking] = x /\ \A f \in Fds \ {shaking} : sess'[f] = sess[f]
            BY <1>1, <3>2, OneSession
        <3>4. HttpdTypeOK'
            BY <1>1, <1>4, <2>4, <3>3 DEF HttpdTypeOK
        <3>5. sess'[shaking].stray = Detached /\ sess'[shaking].kind = "ws"
            BY <3>2, <3>3
        <3> QED BY <3>3, <3>4, <3>5
    <2>7. \A s \in ClientSlots : table[s].fd # shaking
        BY <1>1 DEF EntryInv
    <2>8. \A s, t \in ClientSlots : table'[s] # Free /\ table'[s].fd = table'[t].fd => s = t
        BY <2>2, <2>5, <2>7 DEF EntryInv
    <2>9. \A f \in Fds : Owed(f)' => ~Detached' /\ \E s \in ClientSlots : table'[s].fd = f
        <3>1. Detached' <=> Detached
            BY <1>1 DEF Detached, push
        <3>2. SUFFICES ASSUME NEW f \in Fds, Owed(f)', f # shaking
                       PROVE  ~Detached' /\ \E s \in ClientSlots : table'[s].fd = f
            BY <2>1, <2>2, <2>5, <2>6, <3>1 DEF Owed
        <3>3. Owed(f)
            BY <1>1, <2>6, <3>2 DEF Owed
        <3>4. ~Detached
            BY <3>3 DEF EntryInv
        <3>5. PICK s \in ClientSlots : table[s].fd = f
            BY <3>3 DEF EntryInv
        <3>6. s # k
            BY <2>1, <3>5, PushLimits DEF Free
        <3> QED BY <2>5, <3>1, <3>4, <3>5, <3>6
    <2>10. EntryInv'
        BY <1>1, <2>8, <2>9 DEF EntryInv
    <2>11. NumberInv'
        <3>1. \A s \in ClientSlots : table'[s].id < nextId' /\ copy'[s].id < nextId'
            BY <1>1, <1>4, <2>2, <2>4, <2>5, EntryTypes DEF NumberInv, push
        <3>2. \A s \in ClientSlots : table[s].id # nextId /\ copy[s].id # nextId
            BY <2>4, EntryTypes DEF NumberInv
        <3>3. \A s, t \in ClientSlots : table'[s] # Free /\ table'[s].id = table'[t].id => s = t
            BY <2>2, <2>5, <3>2 DEF NumberInv, SameConnection
        <3>4. \A s, j \in ClientSlots : copy'[j] # Free /\ table'[s].id = copy'[j].id =>
                  table'[s].fd = copy'[j].fd
            BY <1>1, <2>2, <2>5, <3>2 DEF NumberInv, SameConnection, push
        <3> QED BY <3>1, <3>3, <3>4 DEF NumberInv, SameConnection
    <2> QED BY <1>2, <2>6, <2>10, <2>11
<1> QED BY <1>3, <1>4 DEF PostHandshake

(* The push task takes entries away only from sockets it asks to close.    *)
LEMMA PushKept ==
    ASSUME HaPushInv, TableShrinks, CopyShrinks, UNCHANGED <<nextId, shaking>>,
           \A fd \in Fds : sess'[fd].kind = sess[fd].kind /\ sess'[fd].stray = sess[fd].stray,
           Detached' => Detached,
           \A fd \in Fds : fd \notin closing' =>
               fd \notin closing /\ \A s \in ClientSlots : table[s].fd = fd => table'[s].fd = fd
    PROVE  EntryInv' /\ NumberInv'
<1>1. HaPushTypeOK /\ EntryInv /\ NumberInv /\ shaking \in Fds \union {NoFd}
    BY DEF HaPushInv, HaPushTypeOK, HttpdTypeOK
<1>2. shaking' # NoFd => shaking' = shaking /\ sess'[shaking].kind = "ws"
    BY <1>1 DEF EntryInv
<1>3. \A fd \in Fds : Owed(fd)' =>
          /\ Owed(fd) /\ ~Detached'
          /\ \A s \in ClientSlots : table[s].fd = fd => table'[s].fd = fd
    BY <1>1 DEF Owed, EntryInv
<1>4. EntryInv'
    BY <1>1, <1>2, <1>3, EntriesShrink
<1>5. NumberInv'
    BY <1>1, NumbersShrink
<1> QED BY <1>4, <1>5

(* A pass begins with a copy of the table.                                 *)
LEMMA CopyKept ==
    ASSUME HaPushInv, PushCopy
    PROVE  HaPushInv'
<1> USE DEF HaPushInv, HaPushTypeOK
<1>1. /\ UNCHANGED <<version, revision, hash, pushGen, table, nextId, running, up, sess, sessions, shaking,
                      closing, shot, sent, rest, stops>>
      /\ copy' = table /\ copyGen' = pushGen /\ pushPc = "sleep"
    BY DEF PushCopy, state, httpd
<1>2. StateTypeOK' /\ HttpdTypeOK'
    BY <1>1 DEF StateTypeOK, HttpdTypeOK
<1> DEFINE Active == {s \in ClientSlots : table[s] # Free}
<1>3. \/ pushPc' = "sleep" /\ i' = i
      \/ pushPc' = "check" /\ i' \in ClientSlots /\ table[i'] # Free
    <2>1. CASE Active = {}
        BY <1>1, <2>1 DEF PushCopy
    <2>2. CASE Active # {}
        <3>1. pushPc' = "check" /\ i' = FirstOf(Active)
            BY <2>2 DEF PushCopy
        <3>2. Active \in SUBSET Nat
            BY PushLimits DEF ClientSlots
        <3>3. i' \in Active
            <4> HIDE DEF Active
            <4> QED BY <2>2, <3>1, <3>2, FirstFound
        <3> QED BY <3>1, <3>3
    <2> QED BY <2>1, <2>2
<1>4. PushTypeOK'
    <2>1. i' \in 1..(Clients + 1)
        BY <1>3, PushLimits DEF PushTypeOK, ClientSlots
    <2> QED BY <1>1, <1>3, <2>1 DEF PushTypeOK, HttpdTypeOK, StateTypeOK
<1>5. PushInv'
    BY <1>1, <1>3 DEF PushInv
<1>6. EntryInv'
    BY <1>1, <1>3 DEF EntryInv, Owed, Detached
<1>7. NumberInv'
    BY <1>1 DEF NumberInv, SameConnection
<1> QED BY <1>2, <1>4, <1>5, <1>6, <1>7

(* Credential, heartbeat and ping.                                         *)
LEMMA CheckKept ==
    ASSUME HaPushInv, PushCheck
    PROVE  HaPushInv'
<1> USE DEF HaPushInv, HaPushTypeOK
<1>1. /\ UNCHANGED <<version, revision, hash, pushGen, nextId, running, up, sess, sessions, shaking,
                      copyGen, shot, sent, rest, stops>>
      /\ pushPc = "check" /\ i' = Skip(i)
      /\ pushPc' = IF Skip(i) > Clients THEN "read" ELSE "check"
    BY DEF PushCheck, state
<1>2. i \in ClientSlots /\ i \in 0..Clients /\ copy[i] \in Entries /\ copy[i].fd \in Fds
    BY <1>1, AtClient
<1>3. /\ TableShrinks /\ CopyShrinks /\ closing' \subseteq Fds
      /\ \A fd \in Fds : fd \notin closing' =>
            fd \notin closing /\ \A s \in ClientSlots : table[s].fd = fd => table'[s].fd = fd
      /\ \A j \in ClientSlots \ {i} : copy'[j] = copy[j]
    <2>1. CASE CloseClient(copy[i]) /\ copy' = [copy EXCEPT ![i] = Free]
        <3>1. copy' \in Tables /\ \A j \in ClientSlots : copy'[j] = IF j = i THEN Free ELSE copy[j]
            BY <1>2, <2>1 DEF PushTypeOK, Tables
        <3>2. CopyShrinks
            BY <3>1 DEF CopyShrinks
        <3> QED BY <1>2, <2>1, <3>1, <3>2, ClosingTakes
    <2>2. CASE UNCHANGED <<table, closing, copy>>
        BY <2>2, SameTables DEF HttpdTypeOK
    <2> QED BY <2>1, <2>2 DEF PushCheck
<1>4. StateTypeOK' /\ HttpdTypeOK'
    BY <1>1, <1>3 DEF StateTypeOK, HttpdTypeOK, TableShrinks
<1>5. /\ Skip(i) \in (i + 1)..(Clients + 1)
      /\ Skip(i) <= Clients => Skip(i) \in ClientSlots /\ copy[Skip(i)] # Free
    BY <1>2, SkipsTo DEF PushTypeOK
<1>6. PushTypeOK'
    <2>1. i' \in 1..(Clients + 1)
        BY <1>1, <1>2, <1>5, PushLimits DEF ClientSlots
    <2> QED BY <1>1, <1>3, <2>1 DEF PushTypeOK, CopyShrinks
<1>7. PushInv'
    <2>1. pushPc' = "check" => i' \in ClientSlots /\ i' # i /\ copy[i'] # Free
        BY <1>1, <1>2, <1>5, PushLimits DEF ClientSlots
    <2>2. pushPc' \in {"check", "read"}
        BY <1>1
    <2> QED BY <1>3, <2>1, <2>2 DEF PushInv
<1>8. EntryInv' /\ NumberInv'
    BY <1>1, <1>3, PushKept DEF Detached
<1> QED BY <1>4, <1>6, <1>7, <1>8

(* The snapshot and its revision.                                          *)
LEMMA ReadKept ==
    ASSUME HaPushInv, PushRead \/ PushAssign
    PROVE  HaPushInv'
<1> USE DEF HaPushInv, HaPushTypeOK
<1>1. /\ UNCHANGED <<version, pushGen, table, nextId, running, up, sess, sessions, shaking, closing, copy,
                      copyGen, rest, stops>>
      /\ pushPc' \in {"assign", "sleep", "hello", "snapshot"}
    BY DEF PushRead, PushAssign, NextClient, state, httpd
<1>2. HttpdTypeOK' /\ EntryInv' /\ NumberInv'
    BY <1>1, QuietKept DEF HttpdTypeOK, Detached
<1>3. CASE PushRead
    <2>1. /\ UNCHANGED <<revision, hash, i, sent>>
          /\ shot' = [version |-> version, rev |-> 0] /\ pushPc' = "assign"
        BY <1>3 DEF PushRead, state
    <2>2. StateTypeOK'
        BY <1>1, <2>1 DEF StateTypeOK
    <2>3. shot' \in [version : Int, rev : Nat] /\ shot'.version \in 0..MaxVersion
        BY <2>1, PushLimits DEF StateTypeOK
    <2>4. PushTypeOK' /\ PushInv'
        BY <1>1, <2>1, <2>3 DEF PushTypeOK, PushInv
    <2> QED BY <1>2, <2>2, <2>4
<1>4. CASE PushAssign
    <2>1. /\ pushPc = "assign" /\ AssignRevision(shot.version) /\ NextClient(0)
          /\ shot' = [shot EXCEPT !.rev = revision']
        BY <1>4 DEF PushAssign
    <2>2. revision' \in Nat /\ hash' \in -1..MaxVersion
        BY <2>1, RevisionTypes DEF PushInv
    <2>3. StateTypeOK'
        BY <1>1, <2>2 DEF StateTypeOK
    <2>4. /\ sent' \in [hello : BOOLEAN, snapshot : BOOLEAN]
          /\ pushPc' \in {"sleep", "hello", "snapshot"} /\ i' \in 1..(Clients + 1)
          /\ pushPc' \in {"hello", "snapshot"} => i' \in ClientSlots /\ copy[i'] # Free
        BY <2>1, PassGoesOn, PushLimits
    <2>5. shot' \in [version : Int, rev : Nat]
        BY <2>1, <2>2 DEF PushTypeOK
    <2>6. PushTypeOK' /\ PushInv'
        BY <1>1, <2>4, <2>5 DEF PushTypeOK, PushInv
    <2> QED BY <1>2, <2>3, <2>6
<1> QED BY <1>3, <1>4

(* Sending to a client, or closing it when that fails.                     *)
LEMMA SendKept ==
    ASSUME HaPushInv, PushHello \/ PushSnapshot
    PROVE  HaPushInv'
<1> USE DEF HaPushInv, HaPushTypeOK
<1>1. /\ UNCHANGED <<version, revision, hash, pushGen, nextId, running, up, sessions, shaking, copy,
                      copyGen, shot, rest, stops>>
      /\ pushPc \in {"hello", "snapshot"}
    BY DEF PushHello, PushSnapshot, state
<1>2. i \in ClientSlots /\ i \in 0..Clients /\ copy[i] \in Entries /\ copy[i].fd \in Fds /\ copy[i] # Free
    BY <1>1, AtClient DEF PushInv
<1>3. StateTypeOK'
    BY <1>1 DEF StateTypeOK
<1>4. CASE CloseClient(copy[i]) /\ NextClient(i) /\ UNCHANGED sess
    <2>1. /\ TableShrinks /\ closing' \subseteq Fds
          /\ \A fd \in Fds : fd \notin closing' =>
                fd \notin closing /\ \A s \in ClientSlots : table[s].fd = fd => table'[s].fd = fd
        BY <1>2, <1>4, ClosingTakes
    <2>2. /\ sent' \in [hello : BOOLEAN, snapshot : BOOLEAN]
          /\ pushPc' \in {"sleep", "hello", "snapshot"} /\ i' \in 1..(Clients + 1)
          /\ pushPc' \in {"hello", "snapshot"} => i' \in ClientSlots /\ copy[i'] # Free
        BY <1>2, <1>4, PassGoesOn
    <2>3. HttpdTypeOK'
        BY <1>1, <1>4, <2>1 DEF HttpdTypeOK, TableShrinks
    <2>4. PushTypeOK' /\ PushInv'
        BY <1>1, <2>2 DEF PushTypeOK, PushInv
    <2>5. EntryInv' /\ NumberInv'
        BY <1>1, <1>4, <2>1, <2>2, SameTables, PushKept DEF Detached
    <2> QED BY <1>3, <2>3, <2>4, <2>5
<1>5. CASE /\ UNCHANGED <<table, closing, i>> /\ pushPc' \in {"snapshot", "update"}
           /\ \/ UNCHANGED sess
              \/ /\ sess[copy[i].fd].kind = "ws"
                 /\ sess' = [sess EXCEPT ![copy[i].fd].seen = shot.version]
           /\ sent' \in [hello : BOOLEAN, snapshot : BOOLEAN]
    <2>1. /\ sess' \in [Fds -> Sessions \union {Closed}]
          /\ \A fd \in Fds : sess'[fd].kind = sess[fd].kind /\ sess'[fd].stray = sess[fd].stray
        <3>1. CASE UNCHANGED sess
            BY <3>1 DEF HttpdTypeOK
        <3>2. CASE /\ sess[copy[i].fd].kind = "ws"
                   /\ sess' = [sess EXCEPT ![copy[i].fd].seen = shot.version]
            <4> DEFINE f == copy[i].fd
                       x == [sess[f] EXCEPT !.seen = shot.version]
            <4>1. sess[f] \in Sessions /\ shot.version \in Int
                BY <1>2, <3>2, SessionTypes DEF PushTypeOK
            <4>2. x \in Sessions /\ x.kind = sess[f].kind /\ x.stray = sess[f].stray
                BY <4>1 DEF Sessions
            <4>3. sess' = [sess EXCEPT ![f] = x] /\ f \in Fds
                BY <1>2, <3>2
            <4> HIDE DEF x, f
            <4> QED BY <4>2, <4>3, OneSession
        <3> QED BY <1>5, <3>1, <3>2
    <2>2. HttpdTypeOK'
        BY <1>1, <1>5, <2>1 DEF HttpdTypeOK
    <2>3. PushTypeOK' /\ PushInv'
        BY <1>1, <1>2, <1>5 DEF PushTypeOK, PushInv
    <2>4. EntryInv' /\ NumberInv'
        BY <1>1, <1>5, <2>1, SameTables, PushKept DEF Detached
    <2> QED BY <1>3, <2>2, <2>3, <2>4
<1>6. CASE PushHello
    <2>1. [None EXCEPT !.hello = TRUE] \in [hello : BOOLEAN, snapshot : BOOLEAN]
        BY DEF None
    <2> QED BY <1>4, <1>5, <1>6, <2>1 DEF PushHello
<1>7. CASE PushSnapshot
    <2>1. /\ sent \in [hello : BOOLEAN, snapshot : BOOLEAN]
          /\ [sent EXCEPT !.snapshot = TRUE] \in [hello : BOOLEAN, snapshot : BOOLEAN]
        BY DEF PushTypeOK
    <2> QED BY <1>4, <1>5, <1>7, <2>1 DEF PushSnapshot
<1> QED BY <1>6, <1>7

(* updateClientAfterSend changes no entry's socket or number.              *)
LEMMA UpdateKept ==
    ASSUME HaPushInv, PushUpdate
    PROVE  HaPushInv'
<1> USE DEF HaPushInv, HaPushTypeOK
<1>1. /\ UNCHANGED <<version, revision, hash, pushGen, nextId, running, up, sess, sessions, shaking,
                      closing, copy, copyGen, shot, rest, stops>>
      /\ pushPc = "update" /\ NextClient(i)
    BY DEF PushUpdate, state, httpd
<1>2. i \in ClientSlots /\ i \in 0..Clients /\ copy[i] \in Entries /\ copy[i].fd \in Fds
    BY <1>1, AtClient
<1> DEFINE New(e) == [e EXCEPT !.pending = @ /\ ~sent.hello, !.rev = IF sent.snapshot THEN shot.rev ELSE @]
<1>3. \A s \in ClientSlots : table'[s] = IF table[s].fd = copy[i].fd /\ table[s].id = copy[i].id
                                          THEN New(table[s]) ELSE table[s]
    BY DEF PushUpdate
<1>4. ASSUME NEW e \in Entries
      PROVE  New(e) \in Entries /\ New(e).fd = e.fd /\ New(e).id = e.id
    <2>1. shot.rev \in Nat /\ sent.hello \in BOOLEAN /\ sent.snapshot \in BOOLEAN
        BY DEF PushTypeOK
    <2> QED BY <2>1 DEF Entries
<1>5. \A s \in ClientSlots : /\ table'[s] \in Entries \union {Free}
                             /\ table'[s].fd = table[s].fd /\ table'[s].id = table[s].id
    <2> HIDE DEF New
    <2>1. SUFFICES ASSUME NEW s \in ClientSlots
                   PROVE  /\ table'[s] \in Entries \union {Free}
                          /\ table'[s].fd = table[s].fd /\ table'[s].id = table[s].id
        OBVIOUS
    <2>2. table[s] \in Entries \union {Free} /\ (table[s] # Free <=> table[s].fd \in Fds)
        BY EntryTypes DEF HttpdTypeOK
    <2>3. CASE table[s].fd = copy[i].fd /\ table[s].id = copy[i].id
        BY <1>2, <1>3, <1>4, <2>2, <2>3
    <2>4. CASE ~(table[s].fd = copy[i].fd /\ table[s].id = copy[i].id)
        BY <1>3, <2>2, <2>4
    <2> QED BY <2>3, <2>4
<1>6. table' \in Tables
    <2>1. table' = [s \in ClientSlots |-> table'[s]]
        BY DEF PushUpdate
    <2> QED BY <1>5, <2>1 DEF Tables
<1>7. TableShrinks
    BY <1>5, <1>6 DEF TableShrinks
<1>8. StateTypeOK' /\ HttpdTypeOK'
    BY <1>1, <1>6 DEF StateTypeOK, HttpdTypeOK
<1>9. /\ sent' \in [hello : BOOLEAN, snapshot : BOOLEAN]
      /\ pushPc' \in {"sleep", "hello", "snapshot"} /\ i' \in 1..(Clients + 1)
      /\ pushPc' \in {"hello", "snapshot"} => i' \in ClientSlots /\ copy[i'] # Free
    BY <1>1, <1>2, PassGoesOn
<1>10. PushTypeOK' /\ PushInv'
    BY <1>1, <1>9 DEF PushTypeOK, PushInv
<1>11. EntryInv' /\ NumberInv'
    BY <1>1, <1>5, <1>7, <1>9, SameTables, PushKept DEF Detached
<1> QED BY <1>8, <1>10, <1>11

(* The task ends and closes every client; the channel lets go of the       *)
(* server; the server stops, and starts.                                   *)
LEMMA EndKept ==
    ASSUME HaPushInv, PushEnd \/ Detach \/ Stopped \/ Starting
    PROVE  HaPushInv'
<1> USE DEF HaPushInv, HaPushTypeOK
<1>1. CASE PushEnd
    <2>1. /\ UNCHANGED <<version, revision, hash, pushGen, nextId, running, up, sess, sessions, shaking,
                          i, copy, copyGen, shot, sent, rest, stops>>
          /\ table' = [s \in ClientSlots |-> Free] /\ pushPc' = "off"
          /\ closing' = closing \union {table[s].fd : s \in {s \in ClientSlots : table[s] # Free}}
        BY <1>1 DEF PushEnd, state
    <2>2. TableShrinks
        BY <2>1, EmptyTable DEF TableShrinks
    <2>3. \A s \in ClientSlots : table[s] # Free <=> table[s].fd \in Fds
        BY EntryTypes DEF HttpdTypeOK
    <2>4. closing' \subseteq Fds
        BY <2>1, <2>3 DEF HttpdTypeOK
    <2>5. \A fd \in Fds : fd \notin closing' =>
              fd \notin closing /\ \A s \in ClientSlots : table[s].fd = fd => table'[s].fd = fd
        BY <2>1, <2>3
    <2>6. StateTypeOK' /\ HttpdTypeOK' /\ PushTypeOK' /\ PushInv'
        BY <2>1, <2>2, <2>4 DEF StateTypeOK, HttpdTypeOK, PushTypeOK, PushInv, TableShrinks
    <2>7. EntryInv' /\ NumberInv'
        BY <2>1, <2>2, <2>5, SameTables, PushKept DEF Detached
    <2> QED BY <2>6, <2>7
<1>2. CASE Detach
    <2>1. /\ UNCHANGED <<version, revision, hash, pushGen, table, nextId, running, up, sessions, shaking,
                          closing, i, copy, copyGen, shot, sent, rest, stops>>
          /\ pushPc' = "detached"
        BY <1>2 DEF Detach, state
    <2>2. /\ sess' \in [Fds -> Sessions \union {Closed}]
          /\ \A fd \in Fds : /\ sess'[fd].kind = sess[fd].kind
                             /\ sess'[fd].kind = "ws" => sess'[fd].stray
        <3>1. \A fd \in Fds : sess[fd].kind = "ws" =>
                  /\ [sess[fd] EXCEPT !.stray = TRUE] \in Sessions
                  /\ [sess[fd] EXCEPT !.stray = TRUE].kind = "ws"
                  /\ [sess[fd] EXCEPT !.stray = TRUE].stray
            BY SessionTypes DEF Sessions
        <3> QED BY <1>2, <3>1 DEF Detach, HttpdTypeOK
    <2>3. StateTypeOK' /\ HttpdTypeOK' /\ PushTypeOK' /\ PushInv'
        BY <2>1, <2>2 DEF StateTypeOK, HttpdTypeOK, PushTypeOK, PushInv
    <2>4. shaking' # NoFd => shaking' = shaking /\ sess'[shaking].kind = "ws"
        BY <2>1, <2>2 DEF EntryInv, HttpdTypeOK
    <2>5. EntryInv'
        BY <2>1, <2>2, <2>4, SameTables, EntriesShrink DEF Owed
    <2>6. NumberInv'
        BY <2>1, SameTables, NumbersShrink
    <2> QED BY <2>3, <2>5, <2>6
<1>3. CASE Stopped
    <2>1. /\ UNCHANGED <<version, revision, hash, pushGen, table, nextId, running, sessions, shaking, i,
                          copy, copyGen, shot, sent, rest>>
          /\ up' = FALSE /\ sess' = [fd \in Fds |-> Closed] /\ closing' = {} /\ shaking = NoFd
          /\ pushPc' = "detached" /\ stops' \in 0..MaxStops
        BY <1>3, PushLimits DEF Stopped, state, StateTypeOK
    <2>2. StateTypeOK' /\ PushTypeOK' /\ PushInv'
        BY <2>1 DEF StateTypeOK, PushTypeOK, PushInv
    <2>3. HttpdTypeOK'
        BY <2>1 DEF HttpdTypeOK
    <2>4. \A fd \in Fds : ~Owed(fd)'
        BY <2>1 DEF Owed, Closed
    <2>5. EntryInv'
        BY <2>1, <2>4, SameTables, EntriesShrink
    <2>6. NumberInv'
        BY <2>1, SameTables, NumbersShrink
    <2> QED BY <2>2, <2>3, <2>5, <2>6
<1>4. CASE Starting
    <2>1. /\ UNCHANGED <<version, revision, hash, pushGen, table, nextId, running, sess, sessions, shaking,
                          closing, i, copy, copyGen, shot, sent, rest, stops>>
          /\ up' = TRUE /\ pushPc' = "attaching" /\ pushPc = "detached"
        BY <1>4 DEF Starting, state
    <2>2. StateTypeOK' /\ HttpdTypeOK' /\ PushTypeOK' /\ PushInv'
        BY <2>1 DEF StateTypeOK, HttpdTypeOK, PushTypeOK, PushInv
    <2>3. Detached' => Detached
        BY <2>1 DEF Detached
    <2> QED BY <2>1, <2>2, <2>3, QuietKept
<1> QED BY <1>1, <1>2, <1>3, <1>4

-----------------------------------------------------------------------------
(* The theorems                                                            *)

(* At the start there are no clients.                                      *)
LEMMA PushStart ==
    ASSUME HaPushInit
    PROVE  HaPushInv
<1>1. StateTypeOK
    BY PushLimits DEF HaPushInit, StateTypeOK
<1>2. HttpdTypeOK
    BY PushLimits, EmptyTable DEF HaPushInit, HttpdTypeOK
<1>3. PushTypeOK
    <2>1. shot \in [version : Int, rev : Nat] /\ i \in 1..(Clients + 1) /\ copyGen \in 0..MaxPushGen
        BY PushLimits DEF HaPushInit
    <2>2. sent \in [hello : BOOLEAN, snapshot : BOOLEAN]
        BY DEF HaPushInit, None
    <2> QED BY <2>1, <2>2, EmptyTable DEF HaPushInit, PushTypeOK
<1>4. PushInv
    BY DEF HaPushInit, PushInv
<1>5. EntryInv
    BY DEF HaPushInit, EntryInv, Owed, Closed
<1>6. NumberInv
    BY DEF HaPushInit, NumberInv, SameConnection, Free
<1> QED BY <1>1, <1>2, <1>3, <1>4, <1>5, <1>6 DEF HaPushInv, HaPushTypeOK

(* Every step keeps the invariant.                                         *)
LEMMA PushNextKept ==
    ASSUME HaPushInv, [HaPushNext]_pushVars
    PROVE  HaPushInv'
<1>1. CASE PushStep
    BY <1>1, CopyKept, CheckKept, ReadKept, SendKept, UpdateKept, EndKept DEF PushStep
<1>2. CASE HttpdStep
    BY <1>2, PostHandshakeKept, SocketsKept DEF HttpdStep
<1>3. CASE HttpdRestart
    BY <1>3, EndKept, WorldKept DEF HttpdRestart
<1>4. CASE PushEnvironment
    BY <1>4, SocketsKept, PreHandshakeKept, CloseFrameKept, WorldKept DEF PushEnvironment
<1>5. CASE RestAssign
    BY <1>5, WorldKept
<1>6. CASE UNCHANGED pushVars
    BY <1>6 DEF pushVars, HaPushInv, HaPushTypeOK, StateTypeOK, HttpdTypeOK, PushTypeOK, PushInv, EntryInv,
       Owed, Detached, NumberInv, SameConnection
<1> QED BY <1>1, <1>2, <1>3, <1>4, <1>5, <1>6 DEF HaPushNext

(* The inductive invariant holds for any number of sockets, clients,       *)
(* connections, states, credentials and stops of the server.               *)
THEOREM HaPushInvariant == HaPushSpec => []HaPushInv
<1>1. HaPushInit => HaPushInv
    BY PushStart
<1>2. HaPushInv /\ [HaPushNext]_pushVars => HaPushInv'
    BY PushNextKept
<1> QED BY <1>1, <1>2, PTL DEF HaPushSpec

(* No socket has two entries in s_clients, and every open WebSocket the    *)
(* push task has to know has one, unless its handshake or its close is     *)
(* under way, however its number was used before.                          *)
THEOREM SocketsAreRegistered == HaPushSpec => []SocketsRegistered
<1>1. HaPushInv => SocketsRegistered
    <2> SUFFICES ASSUME HaPushInv, NEW fd \in Fds
                 PROVE  /\ \A s, t \in {s \in ClientSlots : table[s].fd = fd} : s = t
                        /\ Owed(fd) => {s \in ClientSlots : table[s].fd = fd} # {}
        BY DEF SocketsRegistered
    <2>1. \A s \in ClientSlots : table[s].fd = fd => table[s] # Free
        BY EntryTypes DEF HaPushInv, HaPushTypeOK, HttpdTypeOK
    <2> QED BY <2>1 DEF HaPushInv, EntryInv
<1> QED BY <1>1, HaPushInvariant, PTL

(* closeClient and updateClientAfterSend, which look for the socket and    *)
(* the number of a copied client, find that client or nothing.             *)
THEOREM CopiesAreToldApart == HaPushSpec => []SameConnection
<1>1. HaPushInv => SameConnection
    BY DEF HaPushInv, NumberInv
<1> QED BY <1>1, HaPushInvariant, PTL
=============================================================================
