----------------------------- MODULE SleManager -----------------------------
(* The SLE interface manager (sle/util/sle_interface_manager.py), which keeps
   a state of its own for each service and serves REST requests, and the
   server that brings the services up and tears them down by such requests
   (sle_interface_mgr_server.py).  A second client, the operator, sends
   requests of its own.

   A handler checks the state, prepares its PDU and yields while it waits for
   a writable socket: Begin goes that far, Finish does the rest.  The data
   queue is an attribute of the class of the services: what one of them read,
   any of them may handle. *)
EXTENDS SleProvider, FiniteSets

CONSTANTS
  Setups,    \* the setups checked: the services the server was given, and the
             \* bounds on the operator's requests, the commands and the faults
  MaxUploads \* bound: times the server uploads

ASSUME SetupsAssumption ==
  Setups \subseteq [names : SUBSET {"raf", "rcf", "cltu"}, requests : Nat, data : Nat, faults : Nat]

S    == INSTANCE Sle
RAF  == INSTANCE Raf
RCF  == INSTANCE Rcf
CLTU == INSTANCE Cltu

Clients == {"server", "operator"}

VARIABLES
  setup,     \* one of Setups
  info,      \* service_map: of each interface the service, the state, the data
  slot,      \* the request of each client that a handler is working on
  server,    \* what SleMgrServers is doing
  provider,  \* the provider of each service
  queue,     \* _data_queue, with the service that read each PDU
  arrived,   \* how many commands arrived over UDP: 1 .. arrived
  sent,      \* the commands that left on the connection
  requests, faults,
  happened   \* what happened so far that the properties except

vars == <<setup, info, slot, server, provider, queue, arrived, sent, requests,
          faults, happened>>

links == <<provider, queue>>
udp   == <<arrived, sent>>

Names == setup.names

NoRequest == [op |-> "none"]

\* todo: the services the present loop has not reached; next: the request it
\* will send, asked: that it was sent; started: services_started.
NewServer(todo) ==
  [doing |-> "bring_up", todo |-> todo, next |-> "connect", asked |-> FALSE,
   started |-> 0, uploads |-> 0]

Listed(names) ==
  LET One(n) == IF n \in names THEN <<n>> ELSE <<>>
  IN  One("raf") \o One("rcf") \o One("cltu")

Init ==
  /\ setup \in Setups
  /\ LET names == setup.names IN
       /\ info = [n \in names |->
                    [service |-> S!NewService(n, "none", "TMTransFrame", FALSE),
                     state |-> "DISCONNECTED", data |-> <<>>]]
       /\ provider = [n \in names |-> NewProvider]
       /\ server = NewServer(Listed(names))
  /\ slot = [c \in Clients |-> NoRequest]
  /\ queue = <<>> /\ arrived = 0 /\ sent = <<>>
  /\ requests = 0 /\ faults = 0 /\ happened = {}

-----------------------------------------------------------------------------
(* The handlers. *)

\* The states a handler accepts, and the one it leaves.
Legal ==
  [connect |-> "DISCONNECTED", bind |-> "CONNECTED", start |-> "BOUND",
   stop |-> "STARTED", unbind |-> "BOUND", disconnect |-> "CONNECTED"]

After ==
  [connect |-> "CONNECTED", bind |-> "BOUND", start |-> "STARTED",
   stop |-> "BOUND", unbind |-> "CONNECTED", disconnect |-> "DISCONNECTED"]

connect_handler(i) == [i EXCEPT !.state = After["connect"]]

bind_handler(i) == [i EXCEPT !.state = After["bind"]]

start_handler(i) == [i EXCEPT !.state = After["start"]]

\* As it would be if it took the service for unbound.
stopUnbinds(i) == [i EXCEPT !.state = "CONNECTED"]

stop_handler(i) == [i EXCEPT !.state = After["stop"]]

unbind_handler(i) == [i EXCEPT !.state = After["unbind"]]

Handler(i, op) ==
  CASE op = "connect" -> connect_handler(i)
    [] op = "bind"    -> bind_handler(i)
    [] op = "start"   -> start_handler(i)
    [] op = "stop"    -> stop_handler(i)
    [] op = "unbind"  -> unbind_handler(i)

\* The PDU of a request, as the service prepares it.
PduOf(s, op) ==
  LET open == [s EXCEPT !.socket = "open", !.wire = <<>>]
      done ==
        CASE op = "bind"   -> S!common_bind(open)
          [] op = "unbind" -> S!common_unbind(open)
          [] op = "stop"   -> S!common_stop(open)
          [] op = "start"  -> IF s.kind = "cltu" THEN CLTU!start(open) ELSE RAF!start(open)
  IN  done.wire[1]

\* The first command waiting, prepared.  The request goes on to the next one
\* in the same way.
Uploading(i) ==
  LET prepared == CLTU!prepare_cltu_pdu(i.service)
  IN  [slot |-> [op |-> "upload", name |-> "cltu", pdu |-> prepared.pdu, item |-> Head(i.data)],
       info |-> [i EXCEPT !.service = prepared.service]]

Overlaps(c, op) == \E d \in Clients \ {c} : slot[d].op = op

\* upload_handler reports a service that is not started, and goes on.
BeginUpload(c, n) ==
  LET up == Uploading(info[n])
  IN  /\ n = "cltu" /\ info[n].data # <<>>
      /\ slot' = [slot EXCEPT ![c] = up.slot]
      /\ info' = [info EXCEPT ![n] = up.info]
      /\ happened' = IF Overlaps(c, "upload") THEN happened \cup {"overlap"} ELSE happened
      /\ UNCHANGED links

Answered(n) ==
  /\ info[n].service.wire = <<>>
  /\ \A i \in 1 .. Len(queue) : queue[i].from # n

\* disconnect_handler does not yield before it set the state.  It does not
\* wait for the returns that are still to come.
disconnect_handler(n) ==
  /\ happened' = IF Answered(n) THEN happened ELSE happened \cup {"unanswered"}
  /\ info' = [info EXCEPT ![n].service = S!Handled(S!disconnect(@)),
                          ![n].state = After["disconnect"]]
  /\ provider' = [provider EXCEPT ![n] = Aborted(@)]
  /\ UNCHANGED <<slot, queue>>

\* Two connects of one service at once are left out.
Begin(c, op, n) ==
  /\ slot[c] = NoRequest
  /\ \/ op = "upload" /\ BeginUpload(c, n)
     \/ /\ op = "disconnect" /\ info[n].state = Legal[op]
        /\ disconnect_handler(n)
     \/ /\ op = "connect" /\ info[n].state = Legal[op] /\ ~Overlaps(c, op)
        /\ slot' = [slot EXCEPT ![c] = [op |-> op, name |-> n]]
        /\ UNCHANGED <<info, happened, links>>
     \/ /\ op \in {"bind", "start", "stop", "unbind"} /\ info[n].state = Legal[op]
        /\ slot' = [slot EXCEPT ![c] = [op |-> op, name |-> n, pdu |-> PduOf(info[n].service, op)]]
        /\ UNCHANGED <<info, happened, links>>
  /\ UNCHANGED <<udp, faults>>

\* connect raises an Exception, which the handler does not catch, when no
\* host answers.
FinishConnect(c) ==
  LET n == slot[c].name
  IN  /\ slot[c].op = "connect"
      /\ slot' = [slot EXCEPT ![c] = NoRequest]
      /\ \/ /\ info' = [info EXCEPT ![n] = connect_handler([info[n] EXCEPT !.service = S!connect(@, TRUE)])]
            /\ provider' = [provider EXCEPT ![n] = [NewProvider EXCEPT !.up = TRUE]]
            /\ UNCHANGED <<faults, happened>>
         \/ /\ faults < setup.faults /\ faults' = faults + 1
            /\ info' = [info EXCEPT ![n].service = S!Handled(S!connect(@, FALSE))]
            /\ happened' = happened \cup {"unreachable"}
            /\ UNCHANGED provider
      /\ UNCHANGED <<queue, udp, server, requests>>

Swallowed(s) == IF s.socket = "reset" THEN happened \cup {"swallowed"} ELSE happened

\* The state is set when the PDU has left, whatever the answer will be; an
\* exception leaves it as it was.
FinishRequest(c) ==
  LET n    == slot[c].name
      done == S!send(info[n].service, slot[c].pdu)
      new  == [info[n] EXCEPT !.service = S!Handled(done)]
  IN  /\ slot[c].op \in {"bind", "start", "stop", "unbind"}
      /\ slot' = [slot EXCEPT ![c] = NoRequest]
      /\ info' = [info EXCEPT ![n] = IF done.raised = S!NoError
                                     THEN Handler(new, slot[c].op) ELSE new]
      /\ happened' = Swallowed(info[n].service)
      /\ UNCHANGED <<links, udp, server, requests, faults>>

DeleteFirst(i) == [i EXCEPT !.data = Tail(@)]

\* As it would be if a failure deleted the command as well.
failedDeletes(i) == IF i.data = <<>> THEN i ELSE DeleteFirst(i)

AfterFailure(i) == i

\* The command is deleted when it was sent: the first of the list, which
\* another upload may have changed meanwhile.  The next is prepared.
FinishUpload(c) ==
  LET s       == info["cltu"].service
      done    == S!send(s, slot[c].pdu)
      i       == [info["cltu"] EXCEPT !.service = S!Handled(done)]
      failed  == done.raised # S!NoError \/ i.data = <<>>
      left    == DeleteFirst(i)
      Go(new) == info' = [info EXCEPT !["cltu"] = new]
  IN  /\ slot[c].op = "upload"
      /\ sent' = IF s.socket = "open" THEN Append(sent, slot[c].item) ELSE sent
      /\ \/ /\ failed
            /\ Go(AfterFailure(i)) /\ slot' = [slot EXCEPT ![c] = NoRequest]
         \/ /\ ~failed /\ left.data = <<>>
            /\ Go(left) /\ slot' = [slot EXCEPT ![c] = NoRequest]
         \/ /\ ~failed /\ left.data # <<>>
            /\ Go(Uploading(left).info) /\ slot' = [slot EXCEPT ![c] = Uploading(left).slot]
      /\ happened' = Swallowed(s)
      /\ UNCHANGED <<links, arrived, server, requests, faults>>

Finish(c) ==
  /\ FinishConnect(c) \/ FinishRequest(c) \/ FinishUpload(c)
  /\ UNCHANGED setup

\* append_cltu_data: a datagram with a command.
Append_cltu_data ==
  /\ "cltu" \in Names
  /\ arrived < setup.data /\ arrived' = arrived + 1
  /\ info' = [info EXCEPT !["cltu"].data = Append(@, arrived')]
  /\ UNCHANGED <<links, slot, server, sent, requests, faults, happened>>

\* The operator sends a request that is answered with other than 400.
OperatorRequest ==
  /\ requests < setup.requests /\ requests' = requests + 1
  /\ server.doing # "exited"
  /\ \E n \in Names, op \in DOMAIN Legal \cup {"upload"} : Begin("operator", op, n)
  /\ UNCHANGED server

-----------------------------------------------------------------------------
(* SleMgrServers. *)

Service == Head(server.todo)

NextOf == [connect |-> "bind", bind |-> "start", stop |-> "unbind", unbind |-> "disconnect"]

\* The server sends its request and waits for the answer; one that the
\* handler refuses is answered at once.
ServerRequest ==
  /\ server.todo # <<>> /\ ~server.asked
  /\ server.doing = "bring_up" \/ info[Service].state = Legal[server.next]
  /\ server' = [server EXCEPT !.asked = TRUE]
  /\ IF info[Service].state = Legal[server.next] /\ ~Overlaps("server", "connect")
     THEN Begin("server", server.next, Service)
     ELSE UNCHANGED <<info, slot, links, udp, faults, happened>>
  /\ UNCHANGED requests

\* A service that came up, or did not: the loop goes on with the next one.
OnToNext(s) == [s EXCEPT !.asked = FALSE, !.next = "connect", !.todo = Tail(@)]

\* As it would be if a service that does not come up were tried again.
retry(s) == [s EXCEPT !.asked = FALSE, !.next = "connect"]

give_up(s) == OnToNext(s)

\* As it would be if every step were counted.
countSteps(s) ==
  IF s.next = "start" THEN OnToNext([s EXCEPT !.started = @ + 1])
  ELSE [s EXCEPT !.asked = FALSE, !.next = NextOf[@], !.started = @ + 1]

step_done(s) ==
  IF s.next = "start" THEN OnToNext([s EXCEPT !.started = @ + 1])
  ELSE [s EXCEPT !.asked = FALSE, !.next = NextOf[@]]

\* After the answer and a pause the server looks at the manager's state: a
\* service that did not get there is left as it is.
bring_up_services ==
  /\ server.doing = "bring_up" /\ server.asked /\ slot["server"] = NoRequest
  /\ server' = IF info[Service].state = After[server.next] THEN step_done(server) ELSE give_up(server)
  /\ UNCHANGED <<info, slot, links, udp, requests, faults, happened>>

TearDown(s) == [s EXCEPT !.doing = "tear_down", !.todo = Listed(Names), !.next = "stop"]

\* Every service was tried.  With none started the server tears down and ends.
BroughtUp ==
  /\ server.doing = "bring_up" /\ server.todo = <<>>
  /\ server' = IF server.started = 0 THEN TearDown(server) ELSE [server EXCEPT !.doing = "ready"]
  /\ UNCHANGED <<info, slot, links, udp, requests, faults, happened>>

\* upload_data, after its datagrams.
upload_data ==
  /\ server.doing = "ready"
  /\ "cltu" \in Names
  /\ server.uploads < MaxUploads /\ server' = [server EXCEPT !.uploads = @ + 1]
  /\ Begin("server", "upload", "cltu")
  /\ UNCHANGED requests

tear_down_services ==
  /\ server.doing = "ready" /\ slot["server"] = NoRequest
  /\ server' = TearDown(server)
  /\ UNCHANGED <<info, slot, links, udp, requests, faults, happened>>

\* The answer came, or the state does not call for the request.
TearDownStep ==
  /\ server.doing = "tear_down" /\ server.todo # <<>> /\ slot["server"] = NoRequest
  /\ server.asked \/ info[Service].state # Legal[server.next]
  /\ server' = IF server.next = "disconnect"
               THEN [server EXCEPT !.asked = FALSE, !.next = "stop", !.todo = Tail(@)]
               ELSE [server EXCEPT !.asked = FALSE, !.next = NextOf[@]]
  /\ UNCHANGED <<info, slot, links, udp, requests, faults, happened>>

\* kill_servers, and the end of the program.
kill_servers ==
  /\ server.doing = "tear_down" /\ server.todo = <<>>
  /\ server' = [server EXCEPT !.doing = "exited"]
  /\ UNCHANGED <<info, slot, links, udp, requests, faults, happened>>

Server ==
  /\ ServerRequest \/ bring_up_services \/ BroughtUp \/ TearDownStep \/ kill_servers
  /\ UNCHANGED setup

-----------------------------------------------------------------------------
(* The greenlets of the services. *)

\* The choices of the three services share these tags.
Decodes(n, from, type) ==
  \/ n = from
  \/ type \in {"BindReturn", "UnbindReturn", "StopReturn", "ScheduleReturn", "PeerAbort"}
  \/ type = "StartReturn" /\ {n, from} = {"raf", "rcf"}

handle_pdu(s, pdu) ==
  CASE s.kind = "raf"  -> RAF!handle_pdu(s, pdu)
    [] s.kind = "rcf"  -> RCF!handle_pdu(s, pdu)
    [] s.kind = "cltu" -> CLTU!handle_pdu(s, pdu)

\* The greenlet of service n takes a PDU, whichever service read it.
Process(n) ==
  LET from == Head(queue).from
      pdu  == Head(queue).pdu
      s    == info[n].service
      done == IF Decodes(n, from, pdu.type) THEN S!AfterHandler(handle_pdu(s, pdu)) ELSE s
      ends == done.socket = "closed" /\ s.socket # "closed"
  IN  /\ s.processor > 0 /\ queue # <<>>
      /\ queue' = Tail(queue)
      /\ info' = [info EXCEPT ![n].service = done]
      /\ provider' = IF ends THEN [provider EXCEPT ![n] = Aborted(@)] ELSE provider
      /\ happened' = IF from # n THEN happened \cup {"misrouted"} ELSE happened
      /\ UNCHANGED <<slot, server, udp, requests, faults>>

-----------------------------------------------------------------------------
(* The providers. *)

Fault == faults < setup.faults /\ faults' = faults + 1

Grants(answer) == answer.pdus # <<>> /\ answer.pdus[1].result = "positive"

ReadBy(n, pdus) == [i \in 1 .. Len(pdus) |-> [from |-> n, pdu |-> pdus[i]]]

\* The PDUs are read at once: that they are read later, or lost with the
\* connection, is as if the provider had sent them later, or not.
Reply(n) ==
  /\ provider[n].up /\ info[n].service.wire # <<>> /\ S!CanRead(info[n].service)
  /\ \E answer \in Answers(provider[n], Head(info[n].service.wire), {"known"}) :
       /\ \/ Grants(answer) /\ UNCHANGED <<faults, happened>>
          \/ ~Grants(answer) /\ ~answer.provider.up
             /\ happened' = happened \cup {"aborted"} /\ UNCHANGED faults
          \/ ~Grants(answer) /\ answer.provider.up
             /\ happened' = happened \cup {"refused"} /\ Fault
       /\ provider' = [provider EXCEPT ![n] = answer.provider]
       /\ queue' = queue \o ReadBy(n, answer.pdus)
  /\ info' = [info EXCEPT ![n].service.wire = Tail(@)]
  /\ UNCHANGED <<slot, server, udp, requests>>

Abort(n) ==
  /\ Fault
  /\ provider[n].up /\ provider[n].state # "unbound"
  /\ queue' = queue \o ReadBy(n, <<Pdu("PeerAbort", "listed")>>)
  /\ provider' = [provider EXCEPT ![n] = Aborted(@)]
  /\ happened' = happened \cup {"aborted"}
  /\ UNCHANGED <<info, slot, server, udp, requests>>

Lose(n) ==
  /\ Fault
  /\ info[n].service.socket = "open"
  /\ provider' = [provider EXCEPT ![n] = Aborted(@)]
  /\ \E how \in {"reset", "broken"} : info' = [info EXCEPT ![n].service.socket = how]
  /\ happened' = happened \cup {"lost"}
  /\ UNCHANGED <<slot, server, queue, udp, requests>>

-----------------------------------------------------------------------------
Environment ==
  /\ \/ upload_data \/ tear_down_services \/ OperatorRequest \/ Append_cltu_data
     \/ \E n \in Names : Process(n) \/ Reply(n) \/ Abort(n) \/ Lose(n)
  /\ UNCHANGED setup

Next == Server \/ Environment \/ \E c \in Clients : Finish(c)

\* The server's loops go on after each answer, and gevent resumes a handler
\* whose socket is writable (an error counts as writable).
Fairness == WF_vars(Server) /\ \A c \in Clients : WF_vars(Finish(c))

Spec == Init /\ [][Next]_vars /\ Fairness

-----------------------------------------------------------------------------
(* Properties. *)

\* Every variable holds what the code can put there.
TypeOK ==
  /\ \A n \in Names :
       /\ info[n].state \in {"DISCONNECTED", "CONNECTED", "BOUND", "STARTED"}
       /\ info[n].data \in Seq(1 .. setup.data)
       /\ info[n].service.raised = S!NoError
  /\ \A c \in Clients : slot[c] # NoRequest => slot[c].name \in Names
  /\ server.doing \in {"bring_up", "ready", "tear_down", "exited"}
  /\ server.started \in 0 .. Cardinality(Names)
  /\ \A i \in 1 .. Len(queue) : queue[i].from \in Names
  /\ arrived \in 0 .. setup.data /\ sent \in Seq(1 .. setup.data)

\* What was sent and what waits is what arrived, in its order: no command is
\* lost, repeated or overtaken, whatever fails, is aborted or arrives during
\* an upload; unless two uploads overlapped, or a reset connection swallowed
\* what was written to it.
UploadsInOrder ==
  happened \cap {"overlap", "swallowed"} = {} /\ "cltu" \in Names
    => sent \o info["cltu"].data = [k \in 1 .. arrived |-> k]

Quiet ==
  /\ \A c \in Clients : slot[c] = NoRequest
  /\ queue = <<>>
  /\ \A n \in Names : info[n].service.wire = <<>>

StateOf ==
  [DISCONNECTED |-> "unbound", CONNECTED |-> "unbound", BOUND |-> "ready", STARTED |-> "active"]

Agree == \A n \in Names : StateOf[info[n].state] = info[n].service.state

\* When nothing is on its way, the manager's states are those of the services,
\* unless a provider refused or aborted, a connection was lost, the return for
\* one service was handled by another, or a connection was closed before the
\* returns had come.
AgreesUnlessFailed ==
  Quiet /\ happened \cap {"refused", "aborted", "lost", "misrouted", "unanswered"} = {} => Agree

\* The manager "keeps track of states" when nothing fails.
TracksStates ==
  Quiet /\ happened \cap {"refused", "aborted", "lost", "unanswered"} = {} => Agree

\* Bringing up ends, and tearing down ends with every service disconnected,
\* whatever the providers answer; unless a connection ended by itself or the
\* operator interfered.
LifecycleEnds ==
  /\ (server.doing = "bring_up") ~> (server.doing # "bring_up")
  /\ (server.doing = "tear_down") ~>
       /\ server.doing = "exited"
       /\ \/ \A n \in Names : info[n].state = "DISCONNECTED"
          \/ happened \cap {"aborted", "lost"} # {} \/ requests > 0
=============================================================================
