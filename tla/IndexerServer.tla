---------------------------- MODULE IndexerServer ----------------------------
(***************************************************************************)
(* The processes around one workspace: indexer servers that compete for it *)
(* (indexer/control.go, coordinator.go) and the commands start, status and *)
(* stop that talk to them (cmd/agent-wayfinder/main.go).                   *)
(*                                                                         *)
(* The processes share a lock file and a socket file.  The operating       *)
(* system drops the lock and the connections of a process that dies, and   *)
(* leaves its socket file behind.  A server answers one connection at a    *)
(* time; others wait in the backlog of its listener.                       *)
(*                                                                         *)
(* The manager inside the server is IndexerManager; here it only matters   *)
(* that its Start takes the lock and its Stop releases it.  Durations are  *)
(* left out: deadlines pass at any moment.                                 *)
(***************************************************************************)
EXTENDS Naturals, SequencesExt

CONSTANTS
  Server,     \* server processes; bounds how many exist at once
  Client,     \* command processes
  Backlog,    \* connections a listener lets wait; more are refused
  Nobody

(* A connection whose client has died, after it had sent a stop or not.    *)
Gone == {"stop", "silent"}

ASSUME ServerAssumption ==
  /\ Nobody \notin Server \cup Client
  /\ Client \cap Gone = {}
  /\ Backlog \in Nat \ {0}

VARIABLES
  lock,       \* who holds indexer.lock
  endpoint,   \* the server whose listener indexer.sock was made for
  server,     \* where each server process is
  client      \* where each command is

serverVars == <<lock, endpoint, server, client>>

(* absent: no such process; acquire: before Manager.Start; remove, listen: *)
(* before these calls of Serve; accept: in the loop; handle: reading the   *)
(* request of a connection; close, unlink, release: the deferred calls.    *)
Process == [at : {"absent", "acquire", "remove", "listen", "accept", "handle",
                  "close", "unlink", "release"},
            backlog : Seq(Client \cup Gone),
            serving : Client \cup Gone \cup {Nobody}]

Absent == [at |-> "absent", backlog |-> <<>>, serving |-> Nobody]

(* polling and expired are about the wait of start for the server it has   *)
(* launched.  link: the connection, as long as the server keeps it open;   *)
(* reply: who answered.                                                    *)
Command == [at : {"idle", "dial", "send", "receive", "launch"},
            command : {"start", "status", "stop"},
            polling : BOOLEAN, expired : BOOLEAN,
            link : Server \cup {Nobody}, reply : Server \cup {Nobody}]

NoCommand == [at |-> "idle", command |-> "status", polling |-> FALSE, expired |-> FALSE,
              link |-> Nobody, reply |-> Nobody]

ServerTypeOK ==
  /\ lock \in Server \cup {Nobody}
  /\ endpoint \in Server \cup {Nobody}
  /\ server \in [Server -> Process]
  /\ client \in [Client -> Command]

Listening(s) == server[s].at \in {"accept", "handle", "close"}

ServerInit ==
  /\ lock = Nobody
  /\ endpoint = Nobody
  /\ server = [s \in Server |-> Absent]
  /\ client = [c \in Client |-> NoCommand]
-----------------------------------------------------------------------------
(* Serve *)

(* Manager.Start and Acquire: a server that finds the lock taken ends.     *)
Acquire(s) ==
  /\ server[s].at = "acquire"
  /\ IF lock = Nobody
     THEN /\ lock' = s
          /\ server' = [server EXCEPT ![s].at = "remove"]
     ELSE /\ server' = [server EXCEPT ![s] = Absent]
          /\ UNCHANGED lock
  /\ UNCHANGED <<endpoint, client>>

RemoveEndpoint(s) ==
  /\ server[s].at = "remove"
  /\ endpoint' = Nobody
  /\ server' = [server EXCEPT ![s].at = "listen"]
  /\ UNCHANGED <<lock, client>>

(* net.Listen fails if the file exists; the server then gives up.          *)
Listen(s) ==
  /\ server[s].at = "listen"
  /\ IF endpoint = Nobody
     THEN endpoint' = s /\ server' = [server EXCEPT ![s].at = "accept"]
     ELSE server' = [server EXCEPT ![s].at = "release"] /\ UNCHANGED endpoint
  /\ UNCHANGED <<lock, client>>

(* A plausible bug: the connection stays in the backlog.                   *)
Accept_Peeks(s) ==
  /\ server[s].at = "accept" /\ server[s].backlog # <<>>
  /\ server' = [server EXCEPT ![s].at = "handle", ![s].serving = Head(server[s].backlog)]
  /\ UNCHANGED <<lock, endpoint, client>>

Accept(s) ==
  /\ server[s].at = "accept" /\ server[s].backlog # <<>>
  /\ server' = [server EXCEPT ![s].at = "handle", ![s].backlog = Tail(@),
                              ![s].serving = Head(server[s].backlog)]
  /\ UNCHANGED <<lock, endpoint, client>>

IdleTimeout(s) ==
  /\ server[s].at = "accept"
  /\ server' = [server EXCEPT ![s].at = "close"]
  /\ UNCHANGED <<lock, endpoint, client>>

(* A plausible bug: the server does not leave its loop after a stop.       *)
Handle_StopGoesOn(s) ==
  /\ server[s].at = "handle" /\ server[s].serving \in Client
  /\ client[server[s].serving].at = "receive"
  /\ client' = [client EXCEPT ![server[s].serving].link = Nobody,
                              ![server[s].serving].reply = s]
  /\ server' = [server EXCEPT ![s].at = "accept", ![s].serving = Nobody]
  /\ UNCHANGED <<lock, endpoint>>

(* handle, with the close of the connection.                               *)
Handle(s) ==
  LET c == server[s].serving IN
  /\ server[s].at = "handle" /\ c \in Client
  /\ client[c].at = "receive"
  /\ client' = [client EXCEPT ![c].link = Nobody, ![c].reply = s]
  /\ server' = [server EXCEPT ![s].at = IF client[c].command = "stop" THEN "close" ELSE "accept",
                              ![s].serving = Nobody]
  /\ UNCHANGED <<lock, endpoint>>

(* What a client sent before it died can still be read, and the answer may *)
(* or may not seem to be delivered; otherwise there is nothing to decode.  *)
HandleGone(s) ==
  /\ server[s].at = "handle" /\ server[s].serving \in Gone
  /\ \E next \in {"accept", "close"} :
       /\ next = "close" => server[s].serving = "stop"
       /\ server' = [server EXCEPT ![s].at = next, ![s].serving = Nobody]
  /\ UNCHANGED <<lock, endpoint, client>>

Disconnected(s) ==
  [c \in Client |-> IF client[c].link = s THEN [client[c] EXCEPT !.link = Nobody] ELSE client[c]]

(* A plausible bug: connections that wait in the backlog are not reset.    *)
CloseListener_KeepsBacklog(s) ==
  /\ server[s].at = "close"
  /\ endpoint' = Nobody
  /\ server' = [server EXCEPT ![s].at = "unlink", ![s].backlog = <<>>]
  /\ UNCHANGED <<lock, client>>

(* Closing a listener of package net also removes its socket file.         *)
CloseListener(s) ==
  /\ server[s].at = "close"
  /\ endpoint' = Nobody
  /\ server' = [server EXCEPT ![s].at = "unlink", ![s].backlog = <<>>]
  /\ client' = Disconnected(s)
  /\ UNCHANGED lock

(* A plausible bug: the lock is released before the socket file is gone.   *)
RemoveOwnEndpoint_Unlocked(s) ==
  /\ server[s].at \in {"unlink", "release"}
  /\ IF server[s].at = "unlink"
     THEN lock' = Nobody /\ server' = [server EXCEPT ![s].at = "release"] /\ UNCHANGED endpoint
     ELSE endpoint' = Nobody /\ server' = [server EXCEPT ![s] = Absent] /\ UNCHANGED lock
  /\ UNCHANGED client

RemoveOwnEndpoint(s) ==
  /\ server[s].at = "unlink"
  /\ endpoint' = Nobody
  /\ server' = [server EXCEPT ![s].at = "release"]
  /\ UNCHANGED <<lock, client>>

(* Manager.Stop, and the end of the process.                               *)
Release(s) ==
  /\ server[s].at = "release"
  /\ lock' = IF lock = s THEN Nobody ELSE lock
  /\ server' = [server EXCEPT ![s] = Absent]
  /\ UNCHANGED <<endpoint, client>>

(* The process dies: lock and connections go, the socket file stays.       *)
ServerDies(s) ==
  /\ server[s].at # "absent"
  /\ lock' = IF lock = s THEN Nobody ELSE lock
  /\ server' = [server EXCEPT ![s] = Absent]
  /\ client' = Disconnected(s)
  /\ UNCHANGED endpoint
-----------------------------------------------------------------------------
(* Request and the commands that use it *)

BeginCommand(c) ==
  /\ client[c].at = "idle"
  /\ \E command \in {"start", "status", "stop"} :
       client' = [client EXCEPT ![c] = [NoCommand EXCEPT !.at = "dial", !.command = command]]
  /\ UNCHANGED <<lock, endpoint, server>>

(* What a command does when its request fails: start launches a server and *)
(* asks again until its deadline has passed, the others report the error.  *)
Retried(c) ==
  IF client[c].command # "start" \/ client[c].expired THEN NoCommand
  ELSE [client[c] EXCEPT !.at = IF client[c].polling THEN "dial" ELSE "launch", !.link = Nobody]

Dial(c) ==
  /\ client[c].at = "dial"
  /\ IF endpoint # Nobody /\ Listening(endpoint) /\ Len(server[endpoint].backlog) < Backlog
     THEN /\ client' = [client EXCEPT ![c].at = "send", ![c].link = endpoint]
          /\ server' = [server EXCEPT ![endpoint].backlog = Append(@, c)]
     ELSE /\ client' = [client EXCEPT ![c] = Retried(c)]
          /\ UNCHANGED server
  /\ UNCHANGED <<lock, endpoint>>

Send(c) ==
  /\ client[c].at = "send"
  /\ client' = [client EXCEPT ![c] = IF client[c].link = Nobody THEN Retried(c)
                                     ELSE [client[c] EXCEPT !.at = "receive"]]
  /\ UNCHANGED <<lock, endpoint, server>>

(* The answer, or the end of the connection without one.                   *)
Receive(c) ==
  /\ client[c].at = "receive" /\ client[c].link = Nobody
  /\ client' = [client EXCEPT ![c] = IF client[c].reply # Nobody THEN NoCommand ELSE Retried(c)]
  /\ UNCHANGED <<lock, endpoint, server>>

(* A process name is not used again while an answer of the process that    *)
(* had it is on its way.                                                   *)
Launch(c) ==
  /\ client[c].at = "launch"
  /\ \E s \in Server :
       /\ server[s].at = "absent" /\ \A d \in Client : client[d].reply # s
       /\ server' = [server EXCEPT ![s].at = "acquire"]
  /\ client' = [client EXCEPT ![c].at = "dial", ![c].polling = TRUE]
  /\ UNCHANGED <<lock, endpoint>>

DeadlinePasses(c) ==
  /\ client[c].polling /\ ~client[c].expired
  /\ client' = [client EXCEPT ![c].expired = TRUE]
  /\ UNCHANGED <<lock, endpoint, server>>

(* The command is interrupted; its connection reads as closed.             *)
ClientDies(c) ==
  /\ client[c].at # "idle"
  /\ client' = [client EXCEPT ![c] = NoCommand]
  /\ LET gone == IF client[c].at = "receive" /\ client[c].command = "stop"
                 THEN "stop" ELSE "silent"
     IN server' = [s \in Server |->
          [server[s] EXCEPT !.backlog = [i \in DOMAIN @ |-> IF @[i] = c THEN gone ELSE @[i]],
                            !.serving = IF @ = c THEN gone ELSE @]]
  /\ UNCHANGED <<lock, endpoint>>

ServerSteps(s) ==
  \/ Acquire(s) \/ RemoveEndpoint(s) \/ Listen(s) \/ Accept(s) \/ Handle(s) \/ HandleGone(s)
  \/ CloseListener(s) \/ RemoveOwnEndpoint(s) \/ Release(s)

ClientSteps(c) == Dial(c) \/ Send(c) \/ Receive(c)

ServerNext ==
  \/ \E s \in Server : ServerSteps(s) \/ IdleTimeout(s) \/ ServerDies(s)
  \/ \E c \in Client : ClientSteps(c) \/ BeginCommand(c) \/ Launch(c) \/ DeadlinePasses(c)
                       \/ ClientDies(c)

(* Processes that live keep running, and time passes.  Launching competes  *)
(* for the bounded number of server processes of the model, hence strong.  *)
Fairness ==
  /\ \A s \in Server : WF_serverVars(ServerSteps(s))
  /\ \A c \in Client : /\ WF_serverVars(ClientSteps(c)) /\ WF_serverVars(DeadlinePasses(c))
                       /\ SF_serverVars(Launch(c))

ServerSpec == ServerInit /\ [][ServerNext]_serverVars /\ Fairness
-----------------------------------------------------------------------------
(* From the moment it has acquired the workspace until it has released it  *)
(* a server holds the lock, so that two are never past that point; and the *)
(* socket file is its own from Listen until its listener is closed.        *)
OwnersHoldLock ==
  \A s \in Server :
    /\ server[s].at \notin {"absent", "acquire"} => lock = s
    /\ server[s].at = "listen" => endpoint = Nobody
    /\ Listening(s) => endpoint = s

(* The connections of one server.  Where nothing listens nothing waits;    *)
(* a live command waits at most once, and is at a request to this server.  *)
Exclusive(s) ==
  LET waiting == server[s].backlog IN
  /\ ~Listening(s) => waiting = <<>>
  /\ server[s].at # "handle" => server[s].serving = Nobody
  /\ \A i, j \in DOMAIN waiting : waiting[i] = waiting[j] /\ waiting[i] \in Client => i = j
  /\ \A i \in DOMAIN waiting : waiting[i] \in Client => waiting[i] # server[s].serving
  /\ \A c \in Client :
       server[s].serving = c \/ (\E i \in DOMAIN waiting : waiting[i] = c) =>
         client[c].link = s /\ client[c].at \in {"send", "receive"}

(* Serve, handle: no server answers a command twice, or one that has moved *)
(* on to another server.                                                   *)
ConnectionsAreExclusive == \A s \in Server : Exclusive(s)

(* What the lock, the socket and the connections keep to at every moment.  *)
ServerInv ==
  /\ ServerTypeOK
  /\ OwnersHoldLock
  /\ ConnectionsAreExclusive

(* Serve: the socket file follows the lock.  A server that accepts         *)
(* requests can be reached, that is, no other server starting, ending or   *)
(* dying ever removes or replaces its socket, and the file a crash leaves  *)
(* behind never keeps a later owner from listening.                        *)
SocketFollowsLock ==
  \A s \in Server :
    /\ server[s].at = "listen" => lock = s /\ endpoint = Nobody
    /\ server[s].at \in {"accept", "handle"} => lock = s /\ endpoint = s

(* Request, runIndexerStart: no command waits forever, although requests   *)
(* have no deadline of their own: each is answered, refused or cut off.    *)
CommandsReturn == \A c \in Client : client[c].at # "idle" ~> client[c].at = "idle"

(* handle, Serve: a stop that was answered ends the server that answered.  *)
StopTakesEffect ==
  \A s \in Server, c \in Client :
    client[c].command = "stop" /\ client[c].reply = s ~> server[s].at = "absent"
=============================================================================
