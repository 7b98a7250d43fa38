----------------------------- MODULE SleProvider -----------------------------
(* The provider of an SLE service as the service's code expects it: it is
   bound, started, stopped and unbound, answers every request once and in
   order, and aborts the association when a request does not fit its state.
   It may refuse what it could have granted, but never grants what it should
   refuse.  The module is external: it is drawn from the PDUs the services
   send and from the results their handlers distinguish. *)
EXTENDS Naturals, Sequences

\* up: its end of the connection; nextCltu, nextEvent: the identifiers it
\* expects next; refused, outOfSequence: it refused a CLTU since the start
\* for a reason of its own, or for its identifier.
NewProvider ==
  [state |-> "unbound", up |-> FALSE, nextCltu |-> 0, nextEvent |-> 0,
   refused |-> FALSE, outOfSequence |-> FALSE]

Pdu(type, result) == [type |-> type, result |-> result, n |-> 0, items |-> <<>>]

Answer(p, pdus) == [provider |-> p, pdus |-> pdus]

Aborted(p) == [p EXCEPT !.state = "unbound", !.up = FALSE]

ProtocolError(p) == {Answer(Aborted(p), <<Pdu("PeerAbort", "listed")>>)}

\* A request that takes the provider from one state to another, or is refused.
Step(p, from, to, type) ==
  IF p.state # from THEN ProtocolError(p)
  ELSE {Answer([p EXCEPT !.state = to], <<Pdu(type, "positive")>>),
        Answer(p, <<Pdu(type, "negative")>>)}

OnBind(p) ==
  Step(p, "unbound", "ready", "BindReturn")
    \cup (IF p.state = "unbound"
          THEN {Answer([p EXCEPT !.state = "ready"], <<Pdu("BindReturn", "stranger")>>)}
          ELSE {})

OnStart(p, request) ==
  Step([p EXCEPT !.nextCltu = request.n, !.refused = FALSE, !.outOfSequence = FALSE],
       "ready", "active", "StartReturn")

OnUnbind(p) ==
  IF p.state # "ready" THEN ProtocolError(p)
  ELSE {Answer([p EXCEPT !.state = "unbound"], <<Pdu("UnbindReturn", result)>>) :
          result \in {"positive", "negative"}}

OnSchedule(p, lock) ==
  IF p.state = "unbound" THEN ProtocolError(p)
  ELSE {Answer(p, <<Pdu("ScheduleReturn", "positive"), Pdu("StatusReport", lock)>>),
        Answer(p, <<Pdu("ScheduleReturn", "common")>>),
        Answer(p, <<Pdu("ScheduleReturn", "specific")>>)}

OnTransfer(p, request) ==
  IF p.state # "active" THEN ProtocolError(p)
  ELSE IF request.n # p.nextCltu
  THEN {Answer([p EXCEPT !.outOfSequence = TRUE], <<Pdu("TransferReturn", "specific")>>)}
  ELSE {Answer([p EXCEPT !.nextCltu = @ + 1],
               <<Pdu("TransferReturn", "positive"), Pdu("AsyncNotify", "radiated")>>),
        Answer([p EXCEPT !.refused = TRUE], <<Pdu("TransferReturn", "common")>>),
        Answer([p EXCEPT !.refused = TRUE], <<Pdu("TransferReturn", "specific")>>)}

OnThrow(p, request) ==
  IF p.state = "unbound" THEN ProtocolError(p)
  ELSE IF request.n # p.nextEvent
  THEN {Answer(p, <<Pdu("ThrowReturn", "negative")>>)}
  ELSE {Answer([p EXCEPT !.nextEvent = @ + 1],
               <<[Pdu("ThrowReturn", "positive") EXCEPT !.n = request.n + 1]>>)}

\* The ways to answer a request.
Answers(p, request, locks) ==
  CASE request.op = "bind"     -> OnBind(p)
    [] request.op = "start"    -> OnStart(p, request)
    [] request.op = "stop"     -> Step(p, "active", "ready", "StopReturn")
    [] request.op = "unbind"   -> OnUnbind(p)
    [] request.op = "schedule" -> UNION {OnSchedule(p, lock) : lock \in locks}
    [] request.op = "transfer" -> OnTransfer(p, request)
    [] request.op = "throw"    -> OnThrow(p, request)
    [] request.op = "abort"    -> {Answer(Aborted(p), <<>>)}
==============================================================================
