------------------------------- MODULE HaPush -------------------------------
(***************************************************************************)
(* The Home Assistant push channel: the client table and the push task of  *)
(* ha_websocket.cpp, the revisions ha_integration.cpp gives to snapshots,  *)
(* and the sockets of the integration server, whose numbers are used again *)
(* as soon as they are free.                                               *)
(*                                                                         *)
(* Three tasks meet here: the push task, which works on a copy of the      *)
(* table; the server's task, which runs handshakes, frame handlers and     *)
(* queued closes one at a time; and whoever stops and starts the server.   *)
(* The server outlives the channel on both sides: it runs on after         *)
(* ha_websocket_stop() and already before ha_websocket_start().            *)
(* A state of the heat pump is its version; two snapshots have the same    *)
(* hash iff they show the same version.  Heartbeats and the periodic       *)
(* snapshot are due when the model chooses; a peer times out only when its *)
(* socket is gone or it has stopped answering.                             *)
(***************************************************************************)
EXTENDS Integers

CONSTANTS
    Fds,            \* sockets of the integration server
    Clients,        \* MAX_CLIENTS
    MaxVersion,     \* bound on changes of the heat pump's state
    MaxPushGen,         \* bound on changes of the integration credential
    MaxSessions,    \* bound on connections
    MaxStops        \* bound on stops of the server

NoFd == "none"

ASSUME HaPushParameters ==
    /\ Clients \in Nat \ {0} /\ NoFd \notin Fds
    /\ {MaxVersion, MaxPushGen, MaxSessions, MaxStops} \subseteq Nat

ClientSlots == 1..Clients

VARIABLES
    version,    \* the state of the heat pump
    revision,   \* s_revision
    hash,       \* s_state_hash, -1 before the first
    pushGen,    \* integration_generation
    table,      \* s_clients
    nextId,     \* s_next_connection_id
    running,    \* s_running, the push task's view of stop
    \* the server and its sockets
    up,         \* the server runs
    sess,       \* per socket: free, an HTTP or a WebSocket session, its token; stray is
                \* a ghost: the channel had no server while or since it was opened
    sessions,   \* sessions so far
    shaking,    \* socket whose handshake the server task is in, or NoFd
    closing,    \* closes in the server's work queue
    \* the push task
    pushPc, i,  \* where it is, and at which client of its copy
    copy,       \* its copy of the table
    copyGen,    \* auth_generation of this pass
    shot,       \* the snapshot: version and revision
    sent,       \* what went to client i: hello and snapshot
    \* a REST request for the state
    rest,       \* version it has read, -1 if none
    \* history
    stops       \* stops of the server so far

httpd    == <<up, sess, sessions, shaking, closing>>
push     == <<pushPc, i, copy, copyGen, shot, sent>>
state    == <<version, revision, hash, pushGen>>
pushVars == <<version, revision, hash, pushGen, table, nextId, running, up, sess, sessions,
              shaking, closing, pushPc, i, copy, copyGen, shot, sent, rest, stops>>

Free   == [fd |-> NoFd, id |-> 0, gen |-> 0, pending |-> FALSE, rev |-> 0]
Closed == [kind |-> "free", token |-> 0, seen |-> -1, mute |-> FALSE, stray |-> FALSE]

Entries  == [fd : Fds, id : Nat \ {0}, gen : 0..MaxPushGen, pending : BOOLEAN, rev : Nat]
Sessions == [kind : {"http", "ws"}, token : 0..MaxPushGen, seen : Int,
             mute : BOOLEAN, stray : BOOLEAN]
Tables   == [ClientSlots -> Entries \union {Free}]

StateTypeOK ==
    /\ version \in 0..MaxVersion /\ revision \in Nat /\ hash \in -1..MaxVersion
    /\ pushGen \in 0..MaxPushGen
    /\ rest \in -1..MaxVersion /\ stops \in 0..MaxStops

HttpdTypeOK ==
    /\ table \in Tables /\ nextId \in Nat \ {0}
    /\ running \in BOOLEAN /\ up \in BOOLEAN
    /\ sess \in [Fds -> Sessions \union {Closed}] /\ sessions \in 0..MaxSessions
    /\ shaking \in Fds \union {NoFd} /\ closing \subseteq Fds

PushTypeOK ==
    /\ pushPc \in {"off", "sleep", "check", "read", "assign", "hello", "snapshot", "update",
                  "detached", "attaching"}
    /\ i \in 1..(Clients + 1) /\ copy \in Tables /\ copyGen \in 0..MaxPushGen
    /\ shot \in [version : Int, rev : Nat] /\ sent \in [hello : BOOLEAN, snapshot : BOOLEAN]

HaPushTypeOK == StateTypeOK /\ HttpdTypeOK /\ PushTypeOK

-----------------------------------------------------------------------------
(* The client table                                                        *)

(* closeClient: the entry must still be the connection that was copied;    *)
(* the close itself waits in the server's queue.                           *)
CloseClient(c) ==
    LET Same == {s \in ClientSlots : table[s].fd = c.fd /\ table[s].id = c.id}
    IN IF Same = {} THEN UNCHANGED <<table, closing>>
       ELSE /\ table' = [s \in ClientSlots |-> IF s \in Same THEN Free ELSE table[s]]
            /\ closing' = closing \union {c.fd}

FirstOf(S) == CHOOSE s \in S : \A t \in S : s <= t

(* removeClientByFd                                                        *)
Without(t, fd) ==
    LET Same == {s \in ClientSlots : t[s].fd = fd}
    IN IF Same = {} THEN t ELSE [t EXCEPT ![FirstOf(Same)] = Free]

(* s_server is null: the channel was stopped, or is not started yet.       *)
Detached == pushPc \in {"detached", "attaching"}

(* Mutant: entries are counted, dead ones too, and none is cleared.        *)
LiveEntriesAll(t) == t

(* activeClientCount clears the entries whose socket is no WebSocket, and  *)
(* every entry while s_server is null.                                     *)
LiveEntries(t) ==
    [s \in ClientSlots |->
        IF t[s] # Free /\ (Detached \/ sess[t[s].fd].kind # "ws") THEN Free ELSE t[s]]

-----------------------------------------------------------------------------
(* The server's task: one thing at a time                                  *)

ServerIdle == up /\ shaking = NoFd

Accept(fd) ==
    /\ ServerIdle /\ sess[fd] = Closed /\ sessions < MaxSessions
    /\ sessions' = sessions + 1
    /\ sess' = [sess EXCEPT ![fd] = [kind |-> "http", token |-> pushGen,
                                     seen |-> -1, mute |-> FALSE, stray |-> FALSE]]
    /\ UNCHANGED <<state, table, nextId, running, up, shaking, closing, push, rest, stops>>

(* ha_websocket_pre_handshake: refuse, or write the 101 response.          *)
PreHandshake(fd) ==
    /\ ServerIdle /\ sess[fd].kind = "http"
    /\ table' = IF sess[fd].token = pushGen THEN LiveEntries(table) ELSE table
    /\ \/ /\ sess[fd].token # pushGen \/ \A s \in ClientSlots : table'[s] # Free
          /\ sess' = [sess EXCEPT ![fd] = Closed] /\ UNCHANGED shaking
       \/ /\ \E s \in ClientSlots : table'[s] = Free
          /\ sess[fd].token = pushGen
          /\ sess' = [sess EXCEPT ![fd].kind = "ws"] /\ shaking' = fd
    /\ UNCHANGED <<state, nextId, running, up, sessions, closing, push, rest, stops>>

(* ha_websocket_post_handshake: the token may have been replaced since,    *)
(* and the socket option refused.                                          *)
PostHandshake ==
    /\ up /\ shaking # NoFd
    /\ shaking' = NoFd
    /\ \/ /\ sess[shaking].token = pushGen /\ \E s \in ClientSlots : table[s] = Free
          /\ table' = [table EXCEPT ![FirstOf({s \in ClientSlots : table[s] = Free})] =
                [fd |-> shaking, id |-> nextId, gen |-> pushGen, pending |-> TRUE, rev |-> 0]]
          /\ nextId' = nextId + 1
          /\ sess' = [sess EXCEPT ![shaking].stray = Detached]
       \/ /\ sess' = [sess EXCEPT ![shaking] = Closed] /\ UNCHANGED <<table, nextId>>
    /\ UNCHANGED <<state, running, up, sessions, closing, push, rest, stops>>

(* The connection is lost: the server frees the socket and tells no one.   *)
PeerGone(fd) ==
    /\ ServerIdle /\ sess[fd] # Closed
    /\ sess' = [sess EXCEPT ![fd] = Closed]
    /\ UNCHANGED <<state, table, nextId, running, up, sessions, shaking, closing, push, rest, stops>>

PeerMute(fd) ==
    /\ up /\ sess[fd].kind = "ws" /\ ~sess[fd].mute
    /\ sess' = [sess EXCEPT ![fd].mute = TRUE]
    /\ UNCHANGED <<state, table, nextId, running, up, sessions, shaking, closing, push, rest, stops>>

(* A close frame, or one the handler does not accept.                      *)
CloseFrame(fd) ==
    /\ ServerIdle /\ sess[fd].kind = "ws"
    /\ table' = Without(table, fd) /\ closing' = closing \union {fd}
    /\ UNCHANGED <<state, nextId, running, up, sess, sessions, shaking, push, rest, stops>>

(* A queued close: it takes whatever session the socket has by now.        *)
RunClose(fd) ==
    /\ ServerIdle /\ fd \in closing
    /\ closing' = closing \ {fd} /\ sess' = [sess EXCEPT ![fd] = Closed]
    /\ UNCHANGED <<state, table, nextId, running, up, sessions, shaking, push, rest, stops>>

-----------------------------------------------------------------------------
(* Snapshots                                                               *)

(* Mutant: the hash of the first state is kept.                            *)
AssignRevisionOnce(v) ==
    IF hash = -1 THEN hash' = v /\ revision' = revision + 1 ELSE UNCHANGED <<hash, revision>>

(* assignRevision: a state that differs from the last one gets a new       *)
(* number.                                                                 *)
AssignRevision(v) ==
    IF hash # v THEN hash' = v /\ revision' = revision + 1 ELSE UNCHANGED <<hash, revision>>

StateChanges ==
    /\ version < MaxVersion /\ version' = version + 1
    /\ UNCHANGED <<revision, hash, pushGen, table, nextId, running, httpd, push, rest, stops>>

(* auth_mgr_issue_integration_token or auth_mgr_revoke_integration_token.  *)
Rotate ==
    /\ pushGen < MaxPushGen /\ pushGen' = pushGen + 1
    /\ UNCHANGED <<version, revision, hash, table, nextId, running, httpd, push, rest, stops>>

(* createStateSnapshot for a REST request: the state is read first, its    *)
(* revision assigned later.                                                *)
RestRead ==
    /\ up /\ rest = -1 /\ rest' = version
    /\ UNCHANGED <<state, table, nextId, running, httpd, push, stops>>

RestAssign ==
    /\ rest # -1 /\ AssignRevision(rest) /\ rest' = -1
    /\ UNCHANGED <<version, pushGen, table, nextId, running, httpd, push, stops>>

-----------------------------------------------------------------------------
(* The push task                                                           *)

None == [hello |-> FALSE, snapshot |-> FALSE]

Skip(k) == FirstOf({j \in (k + 1)..Clients : copy[j] # Free} \union {Clients + 1})

(* The loop: copy the table, or stop.                                      *)
PushCopy ==
    /\ pushPc = "sleep" /\ running
    /\ copy' = table /\ copyGen' = pushGen
    /\ LET Active == {s \in ClientSlots : table[s] # Free}
       IN IF Active = {} THEN UNCHANGED <<pushPc, i>>
          ELSE pushPc' = "check" /\ i' = FirstOf(Active)
    /\ UNCHANGED <<state, table, nextId, running, httpd, shot, sent, rest, stops>>

(* Credential, heartbeat and ping of one client; a client that fails is    *)
(* closed and left out of this pass.                                       *)
PushCheck ==
    /\ pushPc = "check"
    /\ LET c == copy[i]
           dead == sess[c.fd].kind # "ws" \/ sess[c.fd].mute
       IN \/ /\ c.gen # copyGen \/ dead
             /\ CloseClient(c)
             /\ copy' = [copy EXCEPT ![i] = Free]
          \/ /\ c.gen = copyGen
             /\ UNCHANGED <<table, closing, copy>>
    /\ i' = Skip(i)
    /\ pushPc' = IF Skip(i) > Clients THEN "read" ELSE "check"
    /\ UNCHANGED <<state, nextId, running, up, sess, sessions, shaking, copyGen, shot, sent, rest, stops>>

PushRead ==
    /\ pushPc = "read"
    /\ shot' = [version |-> version, rev |-> 0] /\ pushPc' = "assign"
    /\ UNCHANGED <<state, table, nextId, running, httpd, i, copy, copyGen, sent, rest, stops>>

(* Where the pass goes after client k.                                     *)
NextClient(k) ==
    /\ sent' = None
    /\ IF Skip(k) > Clients THEN pushPc' = "sleep" /\ i' = 1
       ELSE /\ i' = Skip(k)
            /\ pushPc' = IF copy[Skip(k)].pending THEN "hello" ELSE "snapshot"

PushAssign ==
    /\ pushPc = "assign"
    /\ AssignRevision(shot.version)
    /\ shot' = [shot EXCEPT !.rev = revision']
    /\ NextClient(0)
    /\ UNCHANGED <<version, pushGen, table, nextId, running, httpd, copy, copyGen, rest, stops>>

(* sendFrame asks only whether the socket is a WebSocket; the send may     *)
(* fail or time out on one that is.                                        *)
PushHello ==
    /\ pushPc = "hello"
    /\ \/ /\ sess[copy[i].fd].kind = "ws"
          /\ sent' = [None EXCEPT !.hello = TRUE] /\ pushPc' = "snapshot"
          /\ UNCHANGED <<table, closing, i>>
       \/ /\ sess[copy[i].fd].kind # "ws" \/ sess[copy[i].fd].mute
          /\ CloseClient(copy[i]) /\ NextClient(i)
    /\ UNCHANGED <<state, nextId, running, up, sess, sessions, shaking, copy, copyGen, shot, rest, stops>>

(* A client gets it anyway when its last one is PERIODIC_SNAPSHOT_US old.  *)
SnapshotDue(c) == c.pending \/ shot.rev # c.rev

PushSnapshot ==
    /\ pushPc = "snapshot"
    /\ LET c == copy[i]
       IN \/ /\ sess[c.fd].kind = "ws"
             /\ sess' = [sess EXCEPT ![c.fd].seen = shot.version]
             /\ sent' = [sent EXCEPT !.snapshot = TRUE] /\ pushPc' = "update"
             /\ UNCHANGED <<table, closing, i>>
          \/ /\ ~SnapshotDue(c)
             /\ pushPc' = "update"
             /\ UNCHANGED <<sess, sent, table, closing, i>>
          \/ /\ sess[c.fd].kind # "ws" \/ sess[c.fd].mute
             /\ CloseClient(c) /\ NextClient(i)
             /\ UNCHANGED sess
    /\ UNCHANGED <<state, nextId, running, up, sessions, shaking, copy, copyGen, shot, rest, stops>>

(* updateClientAfterSend                                                   *)
PushUpdate ==
    /\ pushPc = "update"
    /\ table' = [s \in ClientSlots |->
            IF table[s].fd = copy[i].fd /\ table[s].id = copy[i].id
            THEN [table[s] EXCEPT !.pending = @ /\ ~sent.hello,
                                  !.rev = IF sent.snapshot THEN shot.rev ELSE @]
            ELSE table[s]]
    /\ NextClient(i)
    /\ UNCHANGED <<state, nextId, running, httpd, copy, copyGen, shot, rest, stops>>

(* closeAllClients, then the task ends.                                    *)
PushEnd ==
    /\ pushPc = "sleep" /\ ~running
    /\ table' = [s \in ClientSlots |-> Free]
    /\ closing' = closing \union {table[s].fd : s \in {s \in ClientSlots : table[s] # Free}}
    /\ pushPc' = "off"
    /\ UNCHANGED <<state, nextId, running, up, sess, sessions, shaking, i, copy, copyGen, shot, sent,
                   rest, stops>>

-----------------------------------------------------------------------------
(* stop_integration_locked and start_integration_locked                    *)

Stop ==
    /\ up /\ running /\ stops < MaxStops
    /\ running' = FALSE /\ stops' = stops + 1
    /\ UNCHANGED <<state, table, nextId, httpd, push, rest>>

(* ha_websocket_stop has seen the task end: s_server is null, and the      *)
(* server still runs.                                                      *)
Detach ==
    /\ ~running /\ pushPc = "off"
    /\ pushPc' = "detached"
    /\ sess' = [fd \in Fds |-> IF sess[fd].kind = "ws" THEN [sess[fd] EXCEPT !.stray = TRUE] ELSE sess[fd]]
    /\ UNCHANGED <<state, table, nextId, running, up, sessions, shaking, closing, i, copy, copyGen,
                   shot, sent, rest, stops>>

(* httpd_ssl_stop, after that, or because a start failed on its way.       *)
Stopped ==
    /\ up /\ shaking = NoFd
    /\ \/ pushPc = "detached" /\ UNCHANGED stops
       \/ pushPc = "attaching" /\ stops < MaxStops /\ stops' = stops + 1
    /\ up' = FALSE /\ sess' = [fd \in Fds |-> Closed] /\ closing' = {} /\ pushPc' = "detached"
    /\ UNCHANGED <<state, table, nextId, running, sessions, shaking, i, copy, copyGen, shot, sent,
                   rest>>

(* httpd_ssl_start, and the route of the WebSocket is registered.          *)
Starting ==
    /\ ~up /\ pushPc = "detached"
    /\ up' = TRUE /\ pushPc' = "attaching"
    /\ UNCHANGED <<state, table, nextId, running, sess, sessions, shaking, closing, i, copy, copyGen,
                   shot, sent, rest, stops>>

(* ha_websocket_start: the table keeps what it has.                        *)
Started ==
    /\ pushPc = "attaching"
    /\ running' = TRUE /\ pushPc' = "sleep" /\ i' = 1
    /\ UNCHANGED <<state, table, nextId, httpd, copy, copyGen, shot, sent, rest, stops>>

-----------------------------------------------------------------------------

HaPushInit ==
    /\ version = 0 /\ revision = 0 /\ hash = -1 /\ pushGen = 0
    /\ table = [s \in ClientSlots |-> Free] /\ nextId = 1 /\ running = TRUE
    /\ up = TRUE /\ sess = [fd \in Fds |-> Closed] /\ sessions = 0 /\ shaking = NoFd /\ closing = {}
    /\ pushPc = "sleep" /\ i = 1 /\ copy = [s \in ClientSlots |-> Free] /\ copyGen = 0
    /\ shot = [version |-> -1, rev |-> 0] /\ sent = None
    /\ rest = -1 /\ stops = 0

PushStep ==
    \/ PushCopy \/ PushCheck \/ PushRead \/ PushAssign \/ PushHello \/ PushSnapshot \/ PushUpdate
    \/ PushEnd

HttpdStep == PostHandshake \/ \E fd \in Fds : RunClose(fd)

HttpdRestart == Detach \/ Stopped \/ Starting \/ Started

PushEnvironment ==
    \/ \E fd \in Fds : Accept(fd) \/ PreHandshake(fd) \/ PeerGone(fd) \/ PeerMute(fd) \/ CloseFrame(fd)
    \/ StateChanges \/ Rotate \/ RestRead \/ Stop

HaPushNext == PushStep \/ HttpdStep \/ HttpdRestart \/ PushEnvironment \/ RestAssign

HaPushSpec == HaPushInit /\ [][HaPushNext]_pushVars

(* All tasks keep running.                                                 *)
HaPushFairSpec ==
    /\ HaPushSpec
    /\ WF_pushVars(PushStep) /\ WF_pushVars(HttpdStep) /\ WF_pushVars(HttpdRestart)
    /\ WF_pushVars(RestAssign)

-----------------------------------------------------------------------------
(* Properties                                                              *)

(* An open WebSocket that the push task has to know: its handshake is over *)
(* and its close is not under way, and the channel had its server all the  *)
(* time.                                                                   *)
Owed(fd) == sess[fd].kind = "ws" /\ ~sess[fd].stray /\ fd # shaking /\ fd \notin closing

(* A socket has at most one entry in the table, so none is served twice,   *)
(* and every open WebSocket has one, so no client is connected and never   *)
(* served, however numbers of sockets are used again; except while its     *)
(* handshake or its close is under way, and for a client that connected    *)
(* while the channel was stopped.                                          *)
SocketsRegistered ==
    \A fd \in Fds :
        LET Own == {s \in ClientSlots : table[s].fd = fd}
        IN /\ \A s, t \in Own : s = t
           /\ Owed(fd) => Own # {}

(* Once the heat pump's state and the credential no longer change, every   *)
(* client in the table that is still connected has the latest state, and   *)
(* none is left that connected with a former credential.                   *)
ClientsConverge ==
    <>[](\A s \in ClientSlots : table[s] # Free =>
            /\ table[s].gen = pushGen
            /\ sess[table[s].fd].kind = "ws" => sess[table[s].fd].seen = version)

-----------------------------------------------------------------------------
(* The inductive invariant                                                 *)

(* Where the push task works on a client, its copy has one; the snapshot   *)
(* shows a state there was.                                                *)
PushInv ==
    /\ pushPc \in {"check", "hello", "snapshot", "update"} => i \in ClientSlots /\ copy[i] # Free
    /\ pushPc = "assign" => shot.version \in 0..MaxVersion

(* A socket has one entry, and none while its handshake is under way;      *)
(* without a server the channel owes no client anything.                   *)
EntryInv ==
    /\ \A s, t \in ClientSlots : table[s] # Free /\ table[s].fd = table[t].fd => s = t
    /\ shaking # NoFd => sess[shaking].kind = "ws" /\ \A s \in ClientSlots : table[s].fd # shaking
    /\ \A fd \in Fds : Owed(fd) => ~Detached /\ \E s \in ClientSlots : table[s].fd = fd

(* A connection's number is never given again: what closeClient and        *)
(* updateClientAfterSend find under the fd and the number of the copy is   *)
(* the connection that was copied.                                         *)
SameConnection ==
    /\ \A s, t \in ClientSlots : table[s] # Free /\ table[s].id = table[t].id => s = t
    /\ \A s, j \in ClientSlots : copy[j] # Free /\ table[s].id = copy[j].id => table[s].fd = copy[j].fd

NumberInv ==
    /\ \A s \in ClientSlots : table[s].id < nextId /\ copy[s].id < nextId
    /\ SameConnection

HaPushInv == HaPushTypeOK /\ PushInv /\ EntryInv /\ NumberInv
=============================================================================
