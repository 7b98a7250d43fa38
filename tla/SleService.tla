----------------------------- MODULE SleService -----------------------------
(* One SLE service of any kind, its user, its two greenlets and its provider.
   The user calls the methods of the service at any time (the code checks no
   state before a request); the provider answers, sends frames and reports,
   aborts, or is lost.  Everything between them is a queue: the requests on
   the wire, the PDUs sent back, and the data queue between the greenlets,
   which belongs to the class and outlives a connection. *)
EXTENDS SleProvider, FiniteSets

CONSTANTS
  Kinds,          \* the kinds of service checked
  AuthLevels,     \* the authentication levels checked
  FrameTypes,     \* the downlink frame types checked
  Locks,          \* what the status reports say of the locks
  MaxCalls,       \* bound: calls of the user, connect included
  MaxOdd,         \* bound: those that do not wait or do not fit the state
  MaxConnections, \* bound: connections the user opens
  MaxBuffers,     \* bound: transfer buffers the provider sends
  MaxFaults       \* bound: aborts, losses of the connection and of frame synchronisation

ASSUME KindsAssumption == Kinds \subseteq {"raf", "rcf", "cltu"}

ASSUME BoundsAssumption ==
  /\ MaxCalls \in Nat /\ MaxOdd \in Nat /\ MaxConnections \in Nat
  /\ MaxBuffers \in Nat /\ MaxFaults \in Nat

RAF  == INSTANCE Raf
RCF  == INSTANCE Rcf
CLTU == INSTANCE Cltu
S    == INSTANCE Sle

VARIABLES
  service,     \* the service object
  provider,    \* the provider of the service
  inbound,     \* PDUs the provider sent and the first greenlet has not read
  queue,       \* _data_queue
  calls,       \* how often the user called
  odd,         \* how many of the calls did not wait or did not fit
  connections, \* how often the user connected
  buffers,     \* how many transfer buffers were sent
  offered,     \* how many frames they held
  faults,      \* how many faults happened
  stale,       \* the connection began with PDUs or a state of an earlier one
  saved        \* a CLTU was saved to a file during the connection

vars == <<service, provider, inbound, queue, calls, odd, connections, buffers,
          offered, faults, stale, saved>>

network == <<provider, inbound, queue>>
history == <<buffers, offered, faults>>
counts  == <<calls, odd>>

Init ==
  /\ \E kind \in Kinds, auth \in AuthLevels, type \in FrameTypes, plugin \in BOOLEAN :
       /\ plugin => kind = "raf"
       /\ auth # "none" => ~plugin
       /\ service = S!NewService(kind, auth, type, plugin)
  /\ provider = NewProvider
  /\ inbound = <<>> /\ queue = <<>>
  /\ calls = 0 /\ odd = 0 /\ connections = 0 /\ buffers = 0 /\ offered = 0 /\ faults = 0
  /\ stale = FALSE /\ saved = FALSE

-----------------------------------------------------------------------------
(* The user.  An exception of a call is the caller's. *)

Quiet == service.wire = <<>> /\ inbound = <<>> /\ queue = <<>>

\* fits: what a careful user looks at before the call.
Call(result, fits) ==
  /\ calls < MaxCalls /\ calls' = calls + 1
  /\ odd' = IF fits /\ Quiet THEN odd ELSE odd + 1
  /\ odd' <= MaxOdd
  /\ service' = S!Handled(result)

In(state) == service.state = state /\ service.socket = "open"

\* Before the first connection every request raises, and changes nothing.
Request(result, fits) ==
  /\ service.socket # "none"
  /\ Call(result, fits)
  /\ UNCHANGED <<network, connections, history, stale, saved>>

IsCltu == service.kind = "cltu"

\* The user disconnects before connecting again: both greenlets have ended.
Connect ==
  /\ service.socket \in {"none", "closed"}
  /\ service.monitor = 0 /\ service.processor = 0
  /\ connections < MaxConnections /\ connections' = connections + 1
  /\ \E reachable \in BOOLEAN :
       /\ Call(S!connect(service, reachable), TRUE)
       /\ provider' = IF reachable THEN [NewProvider EXCEPT !.up = TRUE] ELSE provider
       /\ stale' = (queue # <<>> \/ service.state # "unbound")
       /\ saved' = (saved /\ ~reachable)
  /\ inbound' = <<>>
  /\ UNCHANGED <<queue, history>>

Disconnect ==
  /\ service.socket # "none"
  /\ Call(S!disconnect(service), In("unbound"))
  /\ provider' = Aborted(provider)
  /\ inbound' = <<>>
  /\ UNCHANGED <<queue, connections, history, stale, saved>>

Bind ==
  Request(CASE service.kind = "raf"  -> RAF!bind(service)
            [] service.kind = "rcf"  -> RCF!bind(service)
            [] service.kind = "cltu" -> CLTU!bind(service),
          In("unbound"))

Unbind ==
  Request(CASE service.kind = "raf"  -> RAF!unbind(service)
            [] service.kind = "rcf"  -> RCF!unbind(service)
            [] service.kind = "cltu" -> CLTU!unbind(service),
          In("ready"))

Start ==
  /\ \/ service.kind = "raf" /\ Call(RAF!start(service), In("ready"))
     \/ /\ service.kind = "rcf"
        /\ \E given \in {RCF!StartParameters, {"channel"}} : Call(RCF!start(service, given), In("ready"))
     \/ IsCltu /\ Call(CLTU!start(service), In("ready"))
  /\ UNCHANGED <<network, connections, history, stale, saved>>

Stop ==
  Request(CASE service.kind = "raf"  -> RAF!stop(service)
            [] service.kind = "rcf"  -> RCF!stop(service)
            [] service.kind = "cltu" -> CLTU!stop(service),
          In("active"))

ScheduleStatusReport ==
  \E known \in BOOLEAN :
    Request(CASE service.kind = "raf"  -> RAF!schedule_status_report(service, known)
              [] service.kind = "rcf"  -> RCF!schedule_status_report(service, known)
              [] service.kind = "cltu" -> CLTU!schedule_status_report(service, known),
            In("active"))

PeerAbort ==
  Request(CASE service.kind = "raf"  -> RAF!peer_abort(service)
            [] service.kind = "rcf"  -> RCF!peer_abort(service)
            [] service.kind = "cltu" -> CLTU!peer_abort(service),
          FALSE)

UploadCltu == IsCltu /\ Request(CLTU!upload_cltu(service), In("active"))

ThrowEvent == IsCltu /\ Request(CLTU!throw_event(service), In("active"))

\* The plugin is given a CLTU.
PluginProcess == IsCltu /\ Request(CLTU!process(service), In("active"))

SaveToFile ==
  /\ IsCltu
  /\ Call(CLTU!save_to_file(service), In("active"))
  /\ saved' = TRUE
  /\ UNCHANGED <<network, connections, history, stale>>

-----------------------------------------------------------------------------
(* The greenlets of the connection. *)

\* As it would be if the last PDU read were the first one handled.
ReadToFront ==
  /\ S!CanRead(service) /\ inbound # <<>>
  /\ queue' = <<Head(inbound)>> \o queue
  /\ inbound' = Tail(inbound)
  /\ UNCHANGED <<service, provider, counts, connections, history, stale, saved>>

\* conn_handler takes a PDU from the socket.
Read ==
  /\ S!CanRead(service) /\ inbound # <<>>
  /\ queue' = Append(queue, Head(inbound))
  /\ inbound' = Tail(inbound)
  /\ UNCHANGED <<service, provider, counts, connections, history, stale, saved>>

\* conn_handler sends a heartbeat; one that arrives has no effect.
Heartbeat ==
  /\ service.monitor > 0
  /\ service.socket # "open"
  /\ service' = S!send_heartbeat(service)
  /\ UNCHANGED <<network, counts, connections, history, stale, saved>>

handle_pdu(s, pdu) ==
  CASE s.kind = "raf"  -> RAF!handle_pdu(s, pdu)
    [] s.kind = "rcf"  -> RCF!handle_pdu(s, pdu)
    [] s.kind = "cltu" -> CLTU!handle_pdu(s, pdu)

\* data_processor takes a PDU from the queue.
Process ==
  /\ service.processor > 0 /\ queue # <<>>
  /\ queue' = Tail(queue)
  /\ service' = S!AfterHandler(handle_pdu(service, Head(queue)))
  /\ IF service'.socket = "closed" /\ service.socket # "closed"
     THEN provider' = Aborted(provider) /\ inbound' = <<>>
     ELSE UNCHANGED <<provider, inbound>>
  /\ UNCHANGED <<counts, connections, history, stale, saved>>

-----------------------------------------------------------------------------
(* The provider. *)

Reply ==
  /\ provider.up /\ service.wire # <<>>
  /\ \E answer \in Answers(provider, Head(service.wire), Locks) :
       provider' = answer.provider /\ inbound' = inbound \o answer.pdus
  /\ service' = [service EXCEPT !.wire = Tail(@)]
  /\ UNCHANGED <<queue, counts, connections, history, stale, saved>>

\* A transfer buffer of the next two frames, one of them idle or an annotation
\* without data, with or without a notification, which comes first.  A loss of
\* frame synchronisation is a fault.
Buffers ==
  LET item(of, k) == [of |-> of, n |-> offered + k]
  IN  {<<item("frame", 1), item("idle", 2)>>}
        \cup {<<item(of, 0), item("empty", 1), item("frame", 2)>> : of \in S!Notifications}

FramesIn(items) == Cardinality({i \in 1 .. Len(items) : items[i].of \notin S!Notifications})

SyncLost(items) == \E i \in 1 .. Len(items) : items[i].of = "lossFrameSync"

SendBuffer ==
  /\ provider.up /\ provider.state = "active" /\ ~IsCltu
  /\ buffers < MaxBuffers /\ buffers' = buffers + 1
  /\ \E items \in Buffers :
       /\ inbound' = Append(inbound, [Pdu("TransferBuffer", "frames") EXCEPT !.items = items])
       /\ offered' = offered + FramesIn(items)
       /\ faults' = IF SyncLost(items) THEN faults + 1 ELSE faults
  /\ faults' <= MaxFaults
  /\ UNCHANGED <<service, provider, queue, counts, connections, stale, saved>>

Fault == faults < MaxFaults /\ faults' = faults + 1

Abort ==
  /\ Fault
  /\ provider.up /\ provider.state # "unbound"
  /\ \E reason \in {"listed", "otherReason"} :
       inbound' = Append(inbound, Pdu("PeerAbort", reason))
  /\ provider' = Aborted(provider)
  /\ UNCHANGED <<service, queue, counts, connections, buffers, offered, stale, saved>>

\* The connection is lost: the next send is told, by a reset or another error,
\* and a reset takes what was not yet read.
Lose ==
  /\ Fault
  /\ service.socket = "open"
  /\ provider' = Aborted(provider)
  /\ \E how \in {"reset", "broken"} :
       /\ service' = [service EXCEPT !.socket = how]
       /\ inbound' = IF how = "reset" THEN <<>> ELSE inbound
  /\ UNCHANGED <<queue, counts, connections, buffers, offered, stale, saved>>

-----------------------------------------------------------------------------
User ==
  \/ Connect \/ Disconnect \/ Bind \/ Unbind \/ Start \/ Stop
  \/ ScheduleStatusReport \/ PeerAbort \/ UploadCltu \/ ThrowEvent
  \/ PluginProcess \/ SaveToFile

Next == User \/ Read \/ Heartbeat \/ Process \/ Reply \/ SendBuffer \/ Abort \/ Lose

\* gevent runs every greenlet that can run: both greenlets sleep between two
\* PDUs and are resumed.  The provider and the network are not fair.
Fairness == WF_vars(Read) /\ WF_vars(Process)

Spec == Init /\ [][Next]_vars /\ Fairness

-----------------------------------------------------------------------------
(* Properties. *)

PduTypes ==
  {"BindReturn", "UnbindReturn", "StartReturn", "StopReturn", "TransferBuffer",
   "ScheduleReturn", "StatusReport", "PeerAbort", "TransferReturn",
   "AsyncNotify", "ThrowReturn"}

\* Every variable holds what the code can put there.
TypeOK ==
  /\ service.kind \in Kinds /\ service.auth_level \in AuthLevels
  /\ service.state \in {"unbound", "ready", "active"}
  /\ service.socket \in {"none", "open", "reset", "broken", "closed"}
  /\ service.telem \in {"open", "closed"}
  /\ service.monitor \in 0 .. 1 /\ service.processor \in 0 .. 1
  /\ service.cltu_id \in 0 .. MaxCalls /\ service.event_invoc_id \in 0 .. MaxCalls
  /\ service.raised = S!NoError
  /\ provider.state \in {"unbound", "ready", "active"} /\ provider.up \in BOOLEAN
  /\ \A pdus \in {inbound, queue} : \A i \in 1 .. Len(pdus) : pdus[i].type \in PduTypes
  /\ calls \in 0 .. MaxCalls /\ odd \in 0 .. MaxOdd /\ connections \in 0 .. MaxConnections
  /\ offered \in 0 .. 2 * MaxBuffers /\ faults \in 0 .. MaxFaults

\* When nothing is on its way between them, service and provider agree on the
\* state of the association, whatever was requested, refused or answered with
\* PEER-ABORT before; unless the connection began with PDUs in the queue or a
\* state that an earlier one left (disconnect resets neither), or the greenlet
\* that handles PDUs has died.
AgreesWhenQuiet ==
  Quiet /\ provider.up /\ service.socket = "open" /\ service.processor > 0 /\ ~stale
    => service.state = provider.state

\* The frames reach the frame port in order, each at most once (FrameRelay).
Relay == INSTANCE FrameRelay WITH offered <- offered, relayed <- service.forwarded
RelaysInOrder == Relay!Spec

\* The PDUs whose handlers raise an exception, which ends the greenlet.
Fatal(pdu) ==
  \/ pdu.type = "StatusReport" /\ (service.kind # "raf" \/ pdu.result = "unknown")
  \/ pdu.type \in {"ScheduleReturn", "TransferReturn"} /\ pdu.result = "common"
  \/ pdu.type = "PeerAbort" /\ pdu.result = "otherReason"
  \/ pdu.type = "ThrowReturn" /\ pdu.result = "negative"
  \/ pdu.type = "BindReturn" /\ service.auth_level # "none"
  \/ pdu.type = "TransferBuffer" /\ (service.telem = "closed" \/ SyncLost(pdu.items))

Coming == {inbound[i] : i \in 1 .. Len(inbound)} \cup {queue[i] : i \in 1 .. Len(queue)}

\* The PDUs read are all handled, and the greenlet that handles them survives,
\* whatever is requested meanwhile: unless a fatal PDU or a PEER-ABORT comes,
\* the connection is lost, or the user disconnects or aborts.
Disturbed ==
  \/ \E pdu \in Coming : Fatal(pdu) \/ pdu.type = "PeerAbort"
  \/ service.socket # "open" \/ ~provider.up
EventuallyHandled ==
  (queue # <<>> /\ service.processor > 0)
    ~> ((queue = <<>> /\ service.processor > 0) \/ Disturbed)

\* A PEER-ABORT that was read, with a diagnostic that has a name, ends the
\* greenlet that handles PDUs, whatever else is queued, sent or lost.
AbortRead == \E i \in 1 .. Len(queue) : queue[i] = Pdu("PeerAbort", "listed")
AbortEnds == AbortRead ~> (service.processor = 0)

\* A CLTU is refused as out of sequence only if another one of the connection
\* was saved to a file, or one since the start was refused: both leave a gap
\* in the identifiers.
CltusInSequence == provider.outOfSequence => saved \/ provider.refused

\* The plugin "uploads any incoming CLTUs to the DSN" while it is started.
PluginUploads ==
  [][PluginProcess /\ service.state = "active" /\ service.socket = "open"
       => Len(service'.wire) > Len(service.wire)]_vars
==============================================================================
