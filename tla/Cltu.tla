-------------------------------- MODULE Cltu --------------------------------
(* The Forward CLTU service (sle/cltu.py) and the plugin that uploads what it
   is given (plugins/send_cltu.py). *)
EXTENDS Sle

bind(s) == common_bind(s)

unbind(s) == common_unbind(s)

\* The start names the first CLTU that will be sent.
start(s) == send(s, [op |-> "start", n |-> s.cltu_id])

stop(s) == common_stop(s)

\* As it would be if it took the identifier after counting.
prepareNamesNext(s) ==
  [service |-> [s EXCEPT !.cltu_id = @ + 1],
   pdu     |-> [op |-> "transfer", n |-> s.cltu_id + 1]]

\* Preparing a CLTU takes an identifier; nothing gives one back.
prepare_cltu_pdu(s) ==
  [service |-> [s EXCEPT !.cltu_id = @ + 1],
   pdu     |-> [op |-> "transfer", n |-> s.cltu_id]]

upload_cltu(s) ==
  LET prepared == prepare_cltu_pdu(s) IN send(prepared.service, prepared.pdu)

save_to_file(s) == prepare_cltu_pdu(s).service

schedule_status_report(s, known) ==
  IF known THEN send(s, Request("schedule")) ELSE Raise(s, "ValueError")

throw_event(s) == send(s, [op |-> "throw", n |-> s.event_invoc_id])

peer_abort(s) ==
  LET sent == send(s, Request("abort"))
  IN  IF sent.raised = NoError THEN [sent EXCEPT !.state = "unbound"] ELSE sent

\* The plugin uploads when the service is ready: bound, and not started.
process(s) == IF s.state = "ready" THEN upload_cltu(s) ELSE s

bind_return_handler(s, pdu) ==
  LET Accept(t) == IF t.raised = NoError THEN [t EXCEPT !.state = "ready"] ELSE t
  IN  CASE pdu.result = "stranger" -> peer_abort(s)
        [] pdu.result = "negative" -> [s EXCEPT !.state = "unbound"]
        [] pdu.result = "positive" /\ s.auth_level # "none" -> check_return_credentials(s)
        [] pdu.result = "positive" /\ s.auth_level = "none" ->
             Accept(IF s.state = "unbound" THEN s ELSE peer_abort(s))

unbind_return_handler(s, pdu) == [s EXCEPT !.state = "unbound"]

\* A misspelt name sends the common diagnostics to the specific ones.
trans_data_return_handler(s, pdu) ==
  IF pdu.result = "common" THEN Raise(s, "PyAsn1Error") ELSE s

start_return_handler(s, pdu) ==
  [s EXCEPT !.state = IF pdu.result = "positive" THEN "active" ELSE "ready"]

stop_return_handler(s, pdu) ==
  [s EXCEPT !.state = IF pdu.result = "positive" THEN "ready" ELSE "active"]

async_notify_invoc_handler(s, pdu) == s

schedule_status_report_return_handler(s, pdu) ==
  IF pdu.result = "common" THEN Raise(s, "IndexError") ELSE s

\* The report is asked for the numbers of frames of a RAF report.
status_report_invoc_handler(s, pdu) == Raise(s, "KeyError")

peer_abort_handler(s, pdu) ==
  IF pdu.result = "otherReason"
  THEN Raise(s, "IndexError")
  ELSE disconnect([s EXCEPT !.state = "unbound"])

\* The identifier that was accepted is kept as the next one; a diagnostic is
\* used as an index before its value is taken.
throw_event_handler(s, pdu) ==
  IF pdu.result = "positive"
  THEN [s EXCEPT !.event_invoc_id = pdu.n]
  ELSE Raise(s, "TypeError")

handle_pdu(s, pdu) ==
  CASE pdu.type = "BindReturn"     -> bind_return_handler(s, pdu)
    [] pdu.type = "UnbindReturn"   -> unbind_return_handler(s, pdu)
    [] pdu.type = "StartReturn"    -> start_return_handler(s, pdu)
    [] pdu.type = "StopReturn"     -> stop_return_handler(s, pdu)
    [] pdu.type = "TransferReturn" -> trans_data_return_handler(s, pdu)
    [] pdu.type = "AsyncNotify"    -> async_notify_invoc_handler(s, pdu)
    [] pdu.type = "ScheduleReturn" -> schedule_status_report_return_handler(s, pdu)
    [] pdu.type = "StatusReport"   -> status_report_invoc_handler(s, pdu)
    [] pdu.type = "ThrowReturn"    -> throw_event_handler(s, pdu)
    [] pdu.type = "PeerAbort"      -> peer_abort_handler(s, pdu)
    [] OTHER -> s
=============================================================================
