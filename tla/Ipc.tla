--------------------------------- MODULE Ipc ---------------------------------
(***************************************************************************)
(* IPC sessions: hos/Session.h, hos/PortRegistry.h, hos/ServiceManager.h,  *)
(* the service pump of hos/Kernel.h and SVCs 0x0E, 0x10, 0x11 and 0x12.    *)
(*                                                                         *)
(* Three parties share the sessions: host clients that hold the            *)
(* shared_ptr<Session> GetService gave them, the guest, which reaches      *)
(* sessions only through SVCs, and the pump, which Emulator::frame calls   *)
(* once per frame.  Each call is one action: they all run on one thread.   *)
(*                                                                         *)
(* A request is its number, whether its service understands it, and the    *)
(* name its sender meant it for; a reply is the request it answers and who *)
(* made it.  Calls that fail change nothing and are not actions.           *)
(***************************************************************************)
EXTENDS Naturals, Sequences, FiniteSets

CONSTANTS
  Name,         \* the service names anyone uses
  Booted,       \* those the pump has a dispatcher for
  GuestNames,   \* those the guest connects to
  MaxSessions,  \* max_sessions of a port
  MaxQueue,     \* kMaxQueue
  Window,       \* a host client keeps fewer messages than this in its session
  MaxSession,   \* bound: sessions ever opened
  MaxReq        \* bound: requests ever sent

ASSUME IpcAssumption ==
  /\ Booted \subseteq Name /\ GuestNames \subseteq Name
  /\ MaxSessions \in Nat /\ MaxQueue \in Nat /\ Window \in Nat
  /\ MaxSession \in Nat /\ MaxReq \in Nat

VARIABLES
  ports,         \* the names registered in PortRegistry::ports_
  current,       \* PortInfo::current_sessions
  service,       \* SessionPair::service of the sessions 1 .. next_session - 1
  next_session,  \* ServiceManager::next_session_
  to_server,     \* Session::to_server_
  to_client,     \* Session::to_client_
  client_of,     \* the names the guest has a client handle for
  next_req       \* numbers the requests

(* History variables.                                                      *)
VARIABLES
  received,      \* [s]: the service answers its client has read, in order
  lost           \* understood requests whose answer found the queue full

portVars == <<ports, current, service, next_session, client_of>>
vars == <<portVars, to_server, to_client, next_req, received, lost>>

SessionId == 1 .. MaxSession
Req == 1 .. MaxReq
Request == [req : Req, known : BOOLEAN, via : Name]
Reply == [req : 0 .. MaxReq, by : {"service", "echo", "guest"}]

Open == 1 .. next_session - 1

\* Kernel::bootServices publishes the names of the boot.
bootServices == Booted

Init ==
  /\ ports = bootServices /\ current = [n \in Name |-> 0]
  /\ service = <<>> /\ next_session = 1
  /\ to_server = [s \in SessionId |-> <<>>]
  /\ to_client = [s \in SessionId |-> <<>>]
  /\ client_of = {}
  /\ next_req = 1
  /\ received = [s \in SessionId |-> <<>>]
  /\ lost = {}

-----------------------------------------------------------------------------
(* Ports.                                                                  *)

\* Mutant: a second registration overwrites the port.
RegisterAgain(n) ==
  /\ ports' = ports \cup {n}
  /\ client_of' = client_of \cup {n}
  /\ current' = [current EXCEPT ![n] = 0]
  /\ UNCHANGED <<service, next_session, to_server, to_client, next_req,
                 received, lost>>

\* A second registration is refused, but the SVC makes a client-side handle
\* in either case.
svcCreatePort(n) ==
  /\ ports' = ports \cup {n}
  /\ client_of' = client_of \cup {n}
  /\ UNCHANGED <<current, service, next_session, to_server, to_client, next_req,
                 received, lost>>

HasRoom(n) == current[n] < MaxSessions

\* sm: GetService: no session is ever closed, disconnect() has no caller.
connectService(n) ==
  /\ n \in ports /\ HasRoom(n)
  /\ next_session <= MaxSession
  /\ current' = [current EXCEPT ![n] = @ + 1]
  /\ service' = Append(service, n)
  /\ next_session' = next_session + 1
  /\ UNCHANGED <<ports, client_of, to_server, to_client, next_req, received, lost>>

\* The handle the guest gets is tagged with findPort's answer, which is 1 for
\* every port, and no session is opened.
svcConnectToPort(n) ==
  /\ n \in ports
  /\ client_of' = client_of \cup {n}
  /\ UNCHANGED <<ports, current, service, next_session, to_server, to_client,
                 next_req, received, lost>>

-----------------------------------------------------------------------------
(* Messages.                                                               *)

\* Mutant: the queue is checked with > for >=.
FullPastTheEnd(q) == Len(q) > MaxQueue

\* Mutant: one slot of the queue is never used.
FullTooEarly(q) == Len(q) + 1 >= MaxQueue

Full(q) == Len(q) >= MaxQueue

MoreRequests == next_req <= MaxReq

\* A host client sends on its own session.
sendRequest(s) ==
  /\ MoreRequests
  /\ ~Full(to_server[s])
  /\ Len(to_server[s]) + Len(to_client[s]) < Window
  /\ \E known \in BOOLEAN :
       to_server' = [to_server EXCEPT ![s] =
         Append(@, [req |-> next_req, known |-> known, via |-> service[s]])]
  /\ next_req' = next_req + 1
  /\ UNCHANGED <<portVars, to_client, received, lost>>

\* A reply that finds the queue full is dropped.
Replied(s, rep) ==
  IF Full(to_client[s]) THEN to_client
  ELSE [to_client EXCEPT ![s] = Append(@, rep)]

\* The guest's request goes to the first session with room, whatever the tag
\* of its handle says, is echoed at once, and stays queued for the pump; with
\* no such session it vanishes.  The SVC returns RESULT_OK in every case.
svcSendSyncRequest(n) ==
  /\ MoreRequests
  /\ n \in client_of
  /\ \/ \E s \in Open :
          /\ ~Full(to_server[s])
          /\ \E known \in BOOLEAN :
               to_server' = [to_server EXCEPT ![s] =
                 Append(@, [req |-> next_req, known |-> known, via |-> n])]
          /\ to_client' = Replied(s, [req |-> next_req, by |-> "echo"])
     \/ /\ \A s \in Open : Full(to_server[s])
        /\ UNCHANGED <<to_server, to_client>>
  /\ next_req' = next_req + 1
  /\ UNCHANGED <<portVars, received, lost>>

\* A reply of the guest goes to the first session with room as well.
svcReplyAndReceive ==
  /\ GuestNames # {}
  /\ \E s \in Open :
       /\ ~Full(to_client[s])
       /\ to_client' = Replied(s, [req |-> 0, by |-> "guest"])
  /\ UNCHANGED <<portVars, to_server, next_req, received, lost>>

\* Mutant: the front of the queue is copied and not popped.
NotPopped(q) == q

Popped(q) == IF q = <<>> THEN q ELSE Tail(q)

understood(s) == Head(to_server[s]).known /\ service[s] \in Booted

\* Mutant: a session whose service has no dispatcher is skipped.
ServedIfKnown == {s \in Open : to_server[s] # <<>> /\ service[s] \in Booted}

Served == {s \in Open : to_server[s] # <<>>}

\* One request of every session goes to its service.
pumpServices ==
  /\ Served # {}
  /\ to_server' = [s \in SessionId |-> IF s \in Served THEN Popped(to_server[s])
                                       ELSE to_server[s]]
  /\ to_client' = [s \in SessionId |->
       IF s \in Served /\ understood(s)
       THEN Replied(s, [req |-> Head(to_server[s]).req, by |-> "service"])[s]
       ELSE to_client[s]]
  /\ lost' = lost \cup {Head(to_server[s]).req : s \in
                 {r \in Served : understood(r) /\ Full(to_client[r])}}
  /\ UNCHANGED <<portVars, next_req, received>>

recvReply(s) ==
  /\ to_client[s] # <<>>
  /\ to_client' = [to_client EXCEPT ![s] = Popped(@)]
  /\ received' = IF Head(to_client[s]).by = "service"
                 THEN [received EXCEPT ![s] = Append(@, Head(to_client[s]).req)]
                 ELSE received
  /\ UNCHANGED <<portVars, to_server, next_req, lost>>

-----------------------------------------------------------------------------
Guest ==
  \/ \E n \in GuestNames :
       svcCreatePort(n) \/ svcConnectToPort(n) \/ svcSendSyncRequest(n)
  \/ svcReplyAndReceive

HostClient ==
  \/ \E n \in Name : connectService(n)
  \/ \E s \in Open : sendRequest(s) \/ recvReply(s)

Next == Guest \/ HostClient \/ pumpServices

\* Frames go on, and a client that can read does.
Fairness ==
  /\ WF_vars(pumpServices)
  /\ \A s \in SessionId : WF_vars(s \in Open /\ recvReply(s))

Spec == Init /\ [][Next]_vars /\ Fairness

-----------------------------------------------------------------------------
(* Properties.                                                             *)

(* Types, and the bound of both queues of every session.                   *)
TypeOK ==
  /\ ports \subseteq Name /\ client_of \subseteq ports
  /\ current \in [Name -> 0 .. MaxSessions]
  /\ next_session \in 1 .. MaxSession + 1
  /\ service \in Seq(Name) /\ Len(service) = next_session - 1
  /\ next_req \in 1 .. MaxReq + 1
  /\ to_server \in [SessionId -> Seq(Request)]
  /\ to_client \in [SessionId -> Seq(Reply)]
  /\ \A s \in SessionId : /\ Len(to_server[s]) <= MaxQueue
                          /\ Len(to_client[s]) <= MaxQueue
  /\ received \in [SessionId -> Seq(0 .. MaxReq)]
  /\ lost \subseteq Req

(* A port counts exactly the sessions that exist for it, so its limit is   *)
(* the limit of its sessions (PortRegistry::connect's check).              *)
SessionsCounted ==
  \A n \in Name : current[n] = Cardinality({s \in Open : service[s] = n})

\* Where numbers of requests stand in a session: <<1, i>> read by its client,
\* <<2, i>> answered by its service, <<3, i>> waiting for the pump.
Places(s) ==
  ({1} \X DOMAIN received[s])
  \cup ({2} \X {i \in DOMAIN to_client[s] : to_client[s][i].by = "service"})
  \cup ({3} \X DOMAIN to_server[s])

NumberAt(s, p) ==
  CASE p[1] = 1 -> received[s][p[2]]
    [] p[1] = 2 -> to_client[s][p[2]].req
    [] p[1] = 3 -> to_server[s][p[2]].req

Before(p, q) == p[1] < q[1] \/ (p[1] = q[1] /\ p[2] < q[2])

(* Each client reads the answers of its service in the order of the        *)
(* requests, none twice, whoever else writes into the session and whatever *)
(* is dropped (to_server_ and to_client_ are two independent queues).      *)
AnswersInOrder ==
  \A s \in SessionId : \A p, q \in Places(s) :
    Before(p, q) => NumberAt(s, p) < NumberAt(s, q)

\* Every place of a number, with its session.
Copies(r) == UNION {{s} \X {p \in Places(s) : NumberAt(s, p) = r} : s \in Open}

\* A request that stands in two places has no status RpcPromise knows.
StatusOf(r) ==
  LET copies == Copies(r)
      Stands(stage) == \E x \in copies : x[2][1] = stage
  IN IF r >= next_req THEN "new"
     ELSE IF \E x, y \in copies : x # y THEN "twice"
     ELSE IF Stands(3) THEN "queued"
     ELSE IF Stands(2) THEN "answered"
     ELSE IF Stands(1) THEN "received"
     ELSE "gone"

Rpc == INSTANCE RpcPromise WITH status <- [r \in Req |-> StatusOf(r)]

(* Over all sessions the queues implement the promise of RpcPromise.       *)
AnsweredAtMostOnce == Rpc!Spec

(* The pump starves no session: whatever the others are sent, every queued *)
(* request is taken to its service.                                        *)
EveryRequestServed ==
  \A r \in Req : StatusOf(r) = "queued" ~> StatusOf(r) # "queued"

(* If every client keeps its two queues within kMaxQueue together and the  *)
(* guest stays away, no answer is ever dropped.                            *)
NothingLost == lost = {}

Answerable(r) ==
  \E s \in Open : \E i \in DOMAIN to_server[s] :
    to_server[s][i].req = r /\ to_server[s][i].known /\ service[s] \in Booted

(* Under the same discipline every request its service understands is      *)
(* answered, and the client gets the answer.                               *)
EveryAnswerRead == \A r \in Req : Answerable(r) ~> StatusOf(r) = "received"

(* A request the guest sends through a handle waits in a session of the    *)
(* service the handle was opened for, says Kernel.h:475 ("finds the session *)
(* by the tag").  The loop below never looks at the tag, TLC finds a        *)
(* counterexample, and no configuration lists this.                        *)
RoutedByTag ==
  \A s \in Open : \A i \in DOMAIN to_server[s] : to_server[s][i].via = service[s]

=============================================================================
