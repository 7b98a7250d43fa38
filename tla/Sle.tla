-------------------------------- MODULE Sle --------------------------------
(* What the SLE services RAF, RCF and CLTU share (sle/common.py): the socket
   to the provider, the requests every service sends, and the two greenlets
   of a connection, the one that reads the socket and the one that handles
   the PDUs read.  A service is a record and a method is an operator from
   services to services; an exception that leaves the method is kept in the
   field raised, for the caller to look at.

   Left out: the invoke identifiers, which no return handler compares; the
   octets of the encodings; the wording of the log.  The context message and
   the heartbeats are sent but never read by the provider's model. *)
EXTENDS Integers, Sequences

NoError == "none"

\* A service as its constructor leaves it.  forwarded: the frames handed to
\* the frame port (or published, for a service of the RAF plugin); wire: the
\* requests on their way to the provider.
NewService(kind, auth, frameType, plugin) ==
  [kind |-> kind, auth_level |-> auth, frame_type |-> frameType,
   plugin |-> plugin, state |-> "unbound", socket |-> "none", telem |-> "open", monitor |-> 0, processor |-> 0,
   cltu_id |-> 0, event_invoc_id |-> 0, wire |-> <<>>, forwarded |-> <<>>,
   raised |-> NoError]

Raise(s, error) == [s EXCEPT !.raised = error]

Handled(s) == [s EXCEPT !.raised = NoError]

\* The notifications among the frames of a buffer that the model tells apart.
Notifications == {"endOfData", "lossFrameSync"}

Request(op) == [op |-> op, n |-> 0]

\* A connection that the provider reset is closed and send returns as if the
\* data had left; any other socket error is raised again; select refuses the
\* descriptor of a closed socket with a ValueError.
send(s, request) ==
  [open   |-> [s EXCEPT !.wire = Append(@, request)],
   reset  |-> [s EXCEPT !.socket = "closed"],
   broken |-> Raise(s, "socket.error"),
   closed |-> Raise(s, "ValueError"),
   none   |-> Raise(s, "AttributeError")][s.socket]

common_bind(s) == send(s, Request("bind"))

common_unbind(s) == send(s, Request("unbind"))

common_stop(s) == send(s, Request("stop"))

\* Each connection has greenlets of its own; the telemetry socket is the one
\* the constructor made.
connect(s, reachable) ==
  IF reachable
  THEN [s EXCEPT !.socket = "open", !.wire = <<>>,
                 !.monitor = @ + 1, !.processor = @ + 1]
  ELSE Raise([s EXCEPT !.socket = "none"], "Exception")

\* As it would be without the test that there is a greenlet.
LessUnchecked(n) == n - 1

\* Only the greenlets of the last connection are known, and killed.
Less(n) == IF n = 0 THEN 0 ELSE n - 1

disconnect(s) ==
  IF s.socket = "none"
  THEN Raise(s, "AttributeError")
  ELSE [s EXCEPT !.socket = "closed", !.telem = "closed",
                 !.monitor = Less(@), !.processor = Less(@)]

\* A heartbeat that cannot be sent ends the greenlet that reads the socket.
send_heartbeat(s) ==
  LET sent == send(s, Request("heartbeat"))
  IN  IF sent.raised = NoError
      THEN [sent EXCEPT !.wire = s.wire]
      ELSE Handled([sent EXCEPT !.monitor = Less(@)])

\* The greenlet reads complete PDUs from the socket into the queue.
CanRead(s) == s.monitor > 0 /\ s.socket \in {"open", "reset", "broken"}

\* The return's credentials are unpacked from the str of a bytearray, which
\* struct refuses with a TypeError, whatever they are.
check_return_credentials(s) == Raise(s, "TypeError")

\* The greenlet that handles PDUs catches the errors of decoding only: an
\* exception of a handler ends it, and what the handler did stays done.
AfterHandler(s) ==
  IF s.raised = NoError THEN s ELSE Handled([s EXCEPT !.processor = Less(@)])
=============================================================================
