-------------------------------- MODULE Raf --------------------------------
(* The Return All Frames service (sle/raf.py) and the plugin that publishes
   its frames (plugins/raf_plugin.py): the requests of the user and the
   handlers of the provider's PDUs. *)
EXTENDS Sle

bind(s) == common_bind(s)

unbind(s) == common_unbind(s)

start(s) == send(s, Request("start"))

stop(s) == common_stop(s)

schedule_status_report(s, known) ==
  IF known THEN send(s, Request("schedule")) ELSE Raise(s, "ValueError")

peer_abort(s) ==
  LET sent == send(s, Request("abort"))
  IN  IF sent.raised = NoError THEN [sent EXCEPT !.state = "unbound"] ELSE sent

\* An unknown responder is answered with PEER-ABORT.  So is a positive return
\* on a service that is bound already, but then the service is ready all the
\* same.
bind_return_handler(s, pdu) ==
  LET Accept(t) == IF t.raised = NoError THEN [t EXCEPT !.state = "ready"] ELSE t
  IN  CASE pdu.result = "stranger" -> peer_abort(s)
        [] pdu.result = "negative" -> [s EXCEPT !.state = "unbound"]
        [] pdu.result = "positive" /\ s.auth_level # "none" -> check_return_credentials(s)
        [] pdu.result = "positive" /\ s.auth_level = "none" ->
             Accept(IF s.state = "unbound" THEN s ELSE peer_abort(s))

unbind_return_handler(s, pdu) == [s EXCEPT !.state = "unbound"]

\* As it would be without a look at the result.
startAlwaysActive(s, pdu) == [s EXCEPT !.state = "active"]

start_return_handler(s, pdu) ==
  [s EXCEPT !.state = IF pdu.result = "positive" THEN "active" ELSE "ready"]

stop_return_handler(s, pdu) ==
  [s EXCEPT !.state = IF pdu.result = "positive" THEN "ready" ELSE "active"]

\* AOS frames are asked whether they are idle, TM frames are never decoded
\* and so never idle.
Idle(s, item) == item.of = "idle" /\ s.frame_type = "AOSTransFrame"

transfer_data_invoc_handler(s, item) ==
  CASE item.of = "empty" \/ Idle(s, item) -> s
    [] ~(item.of = "empty" \/ Idle(s, item)) /\ s.telem = "open" ->
         [s EXCEPT !.forwarded = Append(@, item.n)]
    [] OTHER -> Raise(s, "socket.error")

\* The plugin takes the place of that handler: every frame is published.
plugin_transfer_data_invoc_handler(s, item) ==
  IF item.of = "empty" THEN s ELSE [s EXCEPT !.forwarded = Append(@, item.n)]

\* The report on a loss of frame synchronisation asks for symbolSynclockStatus,
\* a name the notification's LockStatusReport does not have.
sync_notify_handler(s, item) ==
  IF item.of = "lossFrameSync" THEN Raise(s, "KeyError") ELSE s

Item(s, item) ==
  CASE item.of \in Notifications -> sync_notify_handler(s, item)
    [] item.of \notin Notifications /\ s.plugin -> plugin_transfer_data_invoc_handler(s, item)
    [] OTHER -> transfer_data_invoc_handler(s, item)

\* The frames of a buffer in their order, up to the first that raises.
data_transfer_handler(s, pdu) ==
  LET upTo[i \in 0 .. Len(pdu.items)] ==
        IF i = 0 THEN s
        ELSE IF upTo[i - 1].raised # NoError THEN upTo[i - 1]
             ELSE Item(upTo[i - 1], pdu.items[i])
  IN  upTo[Len(pdu.items)]

\* As it would be if no diagnostic had a name.
scheduleAnyNegative(s, pdu) ==
  IF pdu.result = "positive" THEN s ELSE Raise(s, "IndexError")

\* The common diagnostics are 100 and 127, the list of their names has two.
schedule_status_report_return_handler(s, pdu) ==
  IF pdu.result = "common" THEN Raise(s, "IndexError") ELSE s

\* The lists of names have three entries, the value of unknown is 3.
status_report_invoc_handler(s, pdu) ==
  IF pdu.result = "unknown" THEN Raise(s, "IndexError") ELSE s

\* As it would be if it did not disconnect.
abortOnlyUnbinds(s, pdu) == [s EXCEPT !.state = "unbound"]

\* The list of diagnostics has ten names, the value of otherReason is 127.
peer_abort_handler(s, pdu) ==
  IF pdu.result = "otherReason"
  THEN Raise(s, "IndexError")
  ELSE disconnect([s EXCEPT !.state = "unbound"])

\* What the service does with a PDU; one it cannot decode, or has no handler
\* for, is skipped.
handle_pdu(s, pdu) ==
  CASE pdu.type = "BindReturn"     -> bind_return_handler(s, pdu)
    [] pdu.type = "UnbindReturn"   -> unbind_return_handler(s, pdu)
    [] pdu.type = "StartReturn"    -> start_return_handler(s, pdu)
    [] pdu.type = "StopReturn"     -> stop_return_handler(s, pdu)
    [] pdu.type = "TransferBuffer" -> data_transfer_handler(s, pdu)
    [] pdu.type = "ScheduleReturn" -> schedule_status_report_return_handler(s, pdu)
    [] pdu.type = "StatusReport"   -> status_report_invoc_handler(s, pdu)
    [] pdu.type = "PeerAbort"      -> peer_abort_handler(s, pdu)
    [] OTHER -> s
=============================================================================
