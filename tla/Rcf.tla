-------------------------------- MODULE Rcf --------------------------------
(* The Return Channel Frames service (sle/rcf.py): the requests of the user
   and the handlers of the provider's PDUs. *)
EXTENDS Sle

bind(s) == common_bind(s)

unbind(s) == common_unbind(s)

\* What a start needs, from its arguments or from the configuration.
StartParameters == {"channel", "spacecraft_id", "trans_frame_ver_num"}

start(s, given) ==
  IF StartParameters \subseteq given
  THEN send(s, Request("start"))
  ELSE Raise(s, "AttributeError")

stop(s) == common_stop(s)

schedule_status_report(s, known) ==
  IF known THEN send(s, Request("schedule")) ELSE Raise(s, "ValueError")

peer_abort(s) ==
  LET sent == send(s, Request("abort"))
  IN  IF sent.raised = NoError THEN [sent EXCEPT !.state = "unbound"] ELSE sent

\* As for RAF: a positive return on a bound service is answered with
\* PEER-ABORT, and then taken.
bind_return_handler(s, pdu) ==
  LET Accept(t) == IF t.raised = NoError THEN [t EXCEPT !.state = "ready"] ELSE t
  IN  CASE pdu.result = "stranger" -> peer_abort(s)
        [] pdu.result = "negative" -> [s EXCEPT !.state = "unbound"]
        [] pdu.result = "positive" /\ s.auth_level # "none" -> check_return_credentials(s)
        [] pdu.result = "positive" /\ s.auth_level = "none" ->
             Accept(IF s.state = "unbound" THEN s ELSE peer_abort(s))

unbind_return_handler(s, pdu) == [s EXCEPT !.state = "unbound"]

start_return_handler(s, pdu) ==
  [s EXCEPT !.state = IF pdu.result = "positive" THEN "active" ELSE "ready"]

stop_return_handler(s, pdu) ==
  [s EXCEPT !.state = IF pdu.result = "positive" THEN "ready" ELSE "active"]

\* AOS frames are asked whether they are idle, TM frames are never decoded.
Idle(s, item) == item.of = "idle" /\ s.frame_type = "AOSTransFrame"

transfer_data_invoc_handler(s, item) ==
  CASE item.of = "empty" \/ Idle(s, item) -> s
    [] ~(item.of = "empty" \/ Idle(s, item)) /\ s.telem = "open" ->
         [s EXCEPT !.forwarded = Append(@, item.n)]
    [] OTHER -> Raise(s, "socket.error")

\* As for RAF, a loss of frame synchronisation cannot be reported.
sync_notify_handler(s, item) ==
  IF item.of = "lossFrameSync" THEN Raise(s, "KeyError") ELSE s

\* The frames of a buffer in their order, up to the first that raises.
data_transfer_handler(s, pdu) ==
  LET Item(t, item) == IF item.of \in Notifications THEN sync_notify_handler(t, item)
                       ELSE transfer_data_invoc_handler(t, item)
      upTo[i \in 0 .. Len(pdu.items)] ==
        IF i = 0 THEN s
        ELSE IF upTo[i - 1].raised # NoError THEN upTo[i - 1]
             ELSE Item(upTo[i - 1], pdu.items[i])
  IN  upTo[Len(pdu.items)]

schedule_status_report_return_handler(s, pdu) ==
  IF pdu.result = "common" THEN Raise(s, "IndexError") ELSE s

\* The report is asked for a number of error free frames, which the reports
\* of this service do not have.
status_report_invoc_handler(s, pdu) == Raise(s, "KeyError")

peer_abort_handler(s, pdu) ==
  IF pdu.result = "otherReason"
  THEN Raise(s, "IndexError")
  ELSE disconnect([s EXCEPT !.state = "unbound"])

\* The service's own copy of the dispatch.
handle_pdu(s, pdu) ==
  CASE pdu.type = "BindReturn"     -> bind_return_handler(s, pdu)
    [] pdu.type = "UnbindReturn"   -> unbind_return_handler(s, pdu)
    [] pdu.type = "StartReturn"    -> start_return_handler(s, pdu)
    [] pdu.type = "StopReturn"     -> stop_return_handler(s, pdu)
    [] pdu.type = "TransferBuffer" -> data_transfer_handler(s, pdu)
    [] pdu.type = "ScheduleReturn" -> schedule_status_report_return_handler(s, pdu)
    [] pdu.type = "StatusReport"   -> status_report_invoc_handler(s, pdu)
    [] pdu.type = "PeerAbort"      -> peer_abort_handler(s, pdu)
    [] OTHER -> s
=============================================================================
