-------------------------- MODULE SleManagerProofs --------------------------
(***************************************************************************)
(* That the interface manager loses, repeats and reorders no command, that *)
(* the states it keeps are those of its services when nothing is on its    *)
(* way, unless something failed, and that every variable keeps its type:   *)
(* for every set of services and every bound on requests, commands and     *)
(* faults.                                                                 *)
(***************************************************************************)
EXTENDS SleManager, SequenceTheorems, FiniteSetTheorems, TLAPS

----------------------------------------------------------------------------
(* The types of what the manager works on. *)

Ops == {"bind", "unbind", "start", "stop", "transfer", "abort"}
Requests == [op : Ops, n : Nat]

\* A PDU of the provider: only the results of a bind return are told apart
\* one by one.
Types ==
  {"BindReturn", "UnbindReturn", "StartReturn", "StopReturn", "PeerAbort",
   "TransferReturn", "AsyncNotify"}
Results == {"positive", "negative", "stranger", "common", "specific", "listed", "radiated"}

PduOK(pdu) ==
  /\ pdu.type \in Types
  /\ pdu.type = "BindReturn" => pdu.result \in {"positive", "negative", "stranger"}

Pdus == {pdu \in [type : Types, result : Results, n : Nat, items : {<<>>}] : PduOK(pdu)}

Sockets == {"none", "open", "reset", "broken", "closed"}
States  == {"unbound", "ready", "active"}
Ends    == {"open", "closed"}
Errors  ==
  {"none", "socket.error", "ValueError", "AttributeError", "TypeError", "PyAsn1Error",
   "IndexError", "Exception"}

Services ==
  [kind : {"raf", "rcf", "cltu"}, auth_level : {"none"}, frame_type : {"TMTransFrame"},
   plugin : {FALSE}, state : States, socket : Sockets, telem : Ends, monitor : Nat,
   processor : Nat, cltu_id : Nat, event_invoc_id : Nat, wire : Seq(Requests),
   forwarded : {<<>>}, raised : Errors]

\* A service between two calls: no exception is on its way.
Resting(s) == s \in Services /\ s.raised = "none"

----------------------------------------------------------------------------
(* What the methods of a service preserve. *)

\* A field of a service may be given any value of its own.
LEMMA Updates ==
  ASSUME NEW s \in Services
  PROVE  /\ \A v \in States  : [s EXCEPT !.state = v] \in Services
         /\ \A v \in Sockets : [s EXCEPT !.socket = v] \in Services
         /\ \A v \in Errors  : /\ [s EXCEPT !.raised = v] \in Services
                               /\ [s EXCEPT !.raised = v].raised = v
         /\ \A v \in Seq(Requests) : [s EXCEPT !.wire = v] \in Services
         /\ \A v \in Nat : [s EXCEPT !.cltu_id = v] \in Services
<1>1. \A v \in States  : [s EXCEPT !.state = v] \in Services
  BY DEF Services
<1>2. \A v \in Sockets : [s EXCEPT !.socket = v] \in Services
  BY DEF Services
<1>3. \A v \in Errors  : /\ [s EXCEPT !.raised = v] \in Services
                         /\ [s EXCEPT !.raised = v].raised = v
  BY DEF Services
<1>4. \A v \in Seq(Requests) : [s EXCEPT !.wire = v] \in Services
  BY DEF Services
<1>5. \A v \in Nat : [s EXCEPT !.cltu_id = v] \in Services
  BY DEF Services
<1>6. QED  BY <1>1, <1>2, <1>3, <1>4, <1>5

\* send keeps a service well-typed and raises nothing when the socket is open;
\* when it raises nothing, the socket was open or reset.
LEMMA SendType ==
  ASSUME NEW s \in Services, NEW r \in Requests
  PROVE  /\ S!send(s, r) \in Services
         /\ s.socket = "open" => S!send(s, r).raised = s.raised
         /\ s.socket = "open" => S!send(s, r).wire = Append(s.wire, r)
         /\ s.socket \in {"none", "broken", "closed"} => S!send(s, r).raised # "none"
<1>1. CASE s.socket = "open"
  <2>1. S!send(s, r) = [s EXCEPT !.wire = Append(s.wire, r)]
    BY <1>1 DEF S!send, Services
  <2>2. Append(s.wire, r) \in Seq(Requests)
    BY DEF Services
  <2>3. QED  BY <1>1, <2>1, <2>2 DEF Services
<1>2. CASE s.socket = "reset"
  <2>1. S!send(s, r) = [s EXCEPT !.socket = "closed"]
    BY <1>2 DEF S!send
  <2>2. QED  BY <1>2, <2>1, Updates DEF Sockets
<1>3. CASE s.socket \in {"none", "broken", "closed"}
  <2>1. PICK e \in {"socket.error", "ValueError", "AttributeError"} :
          S!send(s, r) = [s EXCEPT !.raised = e]
    BY <1>3 DEF S!send, S!Raise
  <2>2. e \in Errors /\ e # "none"
    BY DEF Errors
  <2>3. [s EXCEPT !.raised = e] \in Services /\ [s EXCEPT !.raised = e].raised = e
    BY <2>2, Updates
  <2>4. QED  BY <1>3, <2>1, <2>2, <2>3
<1>4. QED  BY <1>1, <1>2, <1>3 DEF Services, Sockets

\* Every module of a service has the same send and disconnect.
LEMMA SameSend ==
  ASSUME NEW s, NEW r
  PROVE  /\ RAF!send(s, r) = S!send(s, r)
         /\ RCF!send(s, r) = S!send(s, r)
         /\ CLTU!send(s, r) = S!send(s, r)
         /\ RAF!disconnect(s) = S!disconnect(s)
         /\ RCF!disconnect(s) = S!disconnect(s)
         /\ CLTU!disconnect(s) = S!disconnect(s)
BY DEF S!send, RAF!send, RCF!send, CLTU!send, S!Raise, RAF!Raise, RCF!Raise, CLTU!Raise,
       S!disconnect, RAF!disconnect, RCF!disconnect, CLTU!disconnect,
       S!Less, RAF!Less, RCF!Less, CLTU!Less

\* disconnect keeps a service well-typed, whether or not it raises.
LEMMA DisconnectType ==
  ASSUME NEW s \in Services
  PROVE  S!disconnect(s) \in Services
<1>1. CASE s.socket = "none"
  BY <1>1, Updates DEF S!disconnect, S!Raise, Errors
<1>2. CASE s.socket # "none"
  <2> DEFINE m == S!Less(s.monitor)
             p == S!Less(s.processor)
  <2>1. m \in Nat /\ p \in Nat
    BY DEF S!Less, Services
  <2>2. S!disconnect(s) = [s EXCEPT !.socket = "closed", !.telem = "closed",
                                    !.monitor = m, !.processor = p]
    BY <1>2 DEF S!disconnect
  <2>. HIDE DEF m, p
  <2>3. QED  BY <2>1, <2>2 DEF Services, Sockets, Ends
<1>3. QED  BY <1>1, <1>2

----------------------------------------------------------------------------
(* The handlers of the three services. *)

\* Every handler of RAF that the manager's PDUs reach keeps a service well-typed.
LEMMA RafHandlers ==
  ASSUME NEW s \in Services, NEW pdu, PduOK(pdu)
  PROVE  RAF!handle_pdu(s, pdu) \in Services
<1>1. RAF!peer_abort(s) \in Services
  <2>1. S!send(s, [op |-> "abort", n |-> 0]) \in Services
    BY SendType DEF Requests, Ops
  <2>2. QED  BY <2>1, SameSend, Updates DEF RAF!peer_abort, RAF!Request, States
<1>2. CASE pdu.type = "BindReturn"
  <2>1. s.auth_level = "none"
    BY DEF Services
  <2>2. RAF!bind_return_handler(s, pdu) \in Services
    BY <1>1, <1>2, <2>1, Updates DEF RAF!bind_return_handler, PduOK, States
  <2>3. QED  BY <1>2, <2>2 DEF RAF!handle_pdu
<1>3. CASE pdu.type = "PeerAbort"
  <2> DEFINE unbound == [s EXCEPT !.state = "unbound"]
  <2>1. unbound \in Services
    BY Updates DEF States
  <2>. HIDE DEF unbound
  <2>2. RAF!disconnect(unbound) \in Services
    BY <2>1, SameSend, DisconnectType
  <2>3. [s EXCEPT !.raised = "IndexError"] \in Services
    BY Updates DEF Errors
  <2>4. RAF!peer_abort_handler(s, pdu) \in Services
    BY <2>2, <2>3 DEF RAF!peer_abort_handler, RAF!Raise, unbound
  <2>5. QED  BY <1>3, <2>4 DEF RAF!handle_pdu
<1>4. /\ RAF!unbind_return_handler(s, pdu) \in Services
      /\ RAF!start_return_handler(s, pdu) \in Services
      /\ RAF!stop_return_handler(s, pdu) \in Services
  BY Updates DEF RAF!unbind_return_handler, RAF!start_return_handler,
      RAF!stop_return_handler, States
<1>5. QED  BY <1>2, <1>3, <1>4 DEF RAF!handle_pdu, PduOK, Types

\* So does every handler of RCF.
LEMMA RcfHandlers ==
  ASSUME NEW s \in Services, NEW pdu, PduOK(pdu)
  PROVE  RCF!handle_pdu(s, pdu) \in Services
<1>1. RCF!peer_abort(s) \in Services
  <2>1. S!send(s, [op |-> "abort", n |-> 0]) \in Services
    BY SendType DEF Requests, Ops
  <2>2. QED  BY <2>1, SameSend, Updates DEF RCF!peer_abort, RCF!Request, States
<1>2. CASE pdu.type = "BindReturn"
  <2>1. s.auth_level = "none"
    BY DEF Services
  <2>2. RCF!bind_return_handler(s, pdu) \in Services
    BY <1>1, <1>2, <2>1, Updates DEF RCF!bind_return_handler, PduOK, States
  <2>3. QED  BY <1>2, <2>2 DEF RCF!handle_pdu
<1>3. CASE pdu.type = "PeerAbort"
  <2> DEFINE unbound == [s EXCEPT !.state = "unbound"]
  <2>1. unbound \in Services
    BY Updates DEF States
  <2>. HIDE DEF unbound
  <2>2. RCF!disconnect(unbound) \in Services
    BY <2>1, SameSend, DisconnectType
  <2>3. [s EXCEPT !.raised = "IndexError"] \in Services
    BY Updates DEF Errors
  <2>4. RCF!peer_abort_handler(s, pdu) \in Services
    BY <2>2, <2>3 DEF RCF!peer_abort_handler, RCF!Raise, unbound
  <2>5. QED  BY <1>3, <2>4 DEF RCF!handle_pdu
<1>4. /\ RCF!unbind_return_handler(s, pdu) \in Services
      /\ RCF!start_return_handler(s, pdu) \in Services
      /\ RCF!stop_return_handler(s, pdu) \in Services
  BY Updates DEF RCF!unbind_return_handler, RCF!start_return_handler,
      RCF!stop_return_handler, States
<1>5. QED  BY <1>2, <1>3, <1>4 DEF RCF!handle_pdu, PduOK, Types

\* So does every handler of CLTU.
LEMMA CltuHandlers ==
  ASSUME NEW s \in Services, NEW pdu, PduOK(pdu)
  PROVE  CLTU!handle_pdu(s, pdu) \in Services
<1>1. CLTU!peer_abort(s) \in Services
  <2>1. S!send(s, [op |-> "abort", n |-> 0]) \in Services
    BY SendType DEF Requests, Ops
  <2>2. QED  BY <2>1, SameSend, Updates DEF CLTU!peer_abort, CLTU!Request, States
<1>2. CASE pdu.type = "BindReturn"
  <2>1. s.auth_level = "none"
    BY DEF Services
  <2>2. CLTU!bind_return_handler(s, pdu) \in Services
    BY <1>1, <1>2, <2>1, Updates DEF CLTU!bind_return_handler, PduOK, States
  <2>3. QED  BY <1>2, <2>2 DEF CLTU!handle_pdu
<1>3. CASE pdu.type = "PeerAbort"
  <2> DEFINE unbound == [s EXCEPT !.state = "unbound"]
  <2>1. unbound \in Services
    BY Updates DEF States
  <2>. HIDE DEF unbound
  <2>2. CLTU!disconnect(unbound) \in Services
    BY <2>1, SameSend, DisconnectType
  <2>3. [s EXCEPT !.raised = "IndexError"] \in Services
    BY Updates DEF Errors
  <2>4. CLTU!peer_abort_handler(s, pdu) \in Services
    BY <2>2, <2>3 DEF CLTU!peer_abort_handler, CLTU!Raise, unbound
  <2>5. QED  BY <1>3, <2>4 DEF CLTU!handle_pdu
<1>4. /\ CLTU!unbind_return_handler(s, pdu) \in Services
      /\ CLTU!start_return_handler(s, pdu) \in Services
      /\ CLTU!stop_return_handler(s, pdu) \in Services
      /\ CLTU!trans_data_return_handler(s, pdu) \in Services
      /\ CLTU!async_notify_invoc_handler(s, pdu) \in Services
  BY Updates DEF CLTU!unbind_return_handler, CLTU!start_return_handler,
      CLTU!stop_return_handler, States,
      CLTU!trans_data_return_handler, CLTU!async_notify_invoc_handler, CLTU!Raise, Errors
<1>5. QED  BY <1>2, <1>3, <1>4 DEF CLTU!handle_pdu, PduOK, Types

\* What the greenlet of a service leaves after it handled a PDU.
LEMMA HandledType ==
  ASSUME NEW s, Resting(s), NEW pdu, PduOK(pdu)
  PROVE  Resting(S!AfterHandler(handle_pdu(s, pdu)))
<1> DEFINE t == handle_pdu(s, pdu)
<1>1. t \in Services
  BY RafHandlers, RcfHandlers, CltuHandlers DEF handle_pdu, Resting, Services
<1>. HIDE DEF t
<1>2. ASSUME t.raised = "none" PROVE Resting(S!AfterHandler(t))
  BY <1>1, <1>2 DEF Resting, S!AfterHandler, S!NoError
<1>3. ASSUME t.raised # "none" PROVE Resting(S!AfterHandler(t))
  <2> DEFINE p == S!Less(t.processor)
  <2>1. p \in Nat
    BY <1>1 DEF S!Less, Services
  <2>2. S!AfterHandler(t) = [[t EXCEPT !.processor = p] EXCEPT !.raised = "none"]
    BY <1>3 DEF S!AfterHandler, S!NoError, S!Handled
  <2>. HIDE DEF p
  <2> DEFINE u == [t EXCEPT !.processor = p]
  <2>3. u \in Services
    BY <1>1, <2>1 DEF Services
  <2>. HIDE DEF u
  <2>4. [u EXCEPT !.raised = "none"] \in Services /\ [u EXCEPT !.raised = "none"].raised = "none"
    BY <2>3, Updates DEF Errors
  <2>5. S!AfterHandler(t) = [u EXCEPT !.raised = "none"]
    BY <2>2 DEF u
  <2>6. QED  BY <2>4, <2>5 DEF Resting
<1>4. QED  BY <1>2, <1>3 DEF t

----------------------------------------------------------------------------
(* Connecting and disconnecting, the requests, and the answers to them. *)

\* An exception that the manager handles is gone.
LEMMA HandledRests ==
  ASSUME NEW s \in Services
  PROVE  Resting(S!Handled(s))
BY Updates DEF Resting, S!Handled, S!NoError, Errors

\* connect leaves no exception, or one that the manager handles.
LEMMA ConnectType ==
  ASSUME NEW s, Resting(s)
  PROVE  /\ Resting(S!connect(s, TRUE))
         /\ Resting(S!Handled(S!connect(s, FALSE)))
<1>1. Resting(S!connect(s, TRUE))
  <2> DEFINE m == s.monitor + 1
             p == s.processor + 1
  <2>1. m \in Nat /\ p \in Nat /\ <<>> \in Seq(Requests)
    BY EmptySeq DEF Resting, Services
  <2>2. S!connect(s, TRUE) = [s EXCEPT !.socket = "open", !.wire = <<>>, !.monitor = m, !.processor = p]
    BY DEF S!connect
  <2>. HIDE DEF m, p
  <2>3. QED  BY <2>1, <2>2 DEF Resting, Services, Sockets
<1>2. Resting(S!Handled(S!connect(s, FALSE)))
  <2>1. [s EXCEPT !.socket = "none"] \in Services
    BY Updates DEF Sockets, Resting
  <2>2. S!connect(s, FALSE) \in Services
    BY <2>1, Updates DEF S!connect, S!Raise, Errors
  <2>3. QED  BY <2>2, HandledRests
<1>3. QED  BY <1>1, <1>2

\* The PDU of a request is one the provider knows.
LEMMA RequestType ==
  ASSUME NEW s \in Services, NEW op \in {"bind", "start", "stop", "unbind"}
  PROVE  PduOf(s, op) \in Requests
<1> DEFINE open == [[s EXCEPT !.socket = "open"] EXCEPT !.wire = <<>>]
<1>1. open \in Services /\ open.socket = "open" /\ open.wire = <<>>
  <2>1. [s EXCEPT !.socket = "open"] \in Services /\ [s EXCEPT !.socket = "open"].socket = "open"
    BY DEF Services, Sockets
  <2>2. <<>> \in Seq(Requests)
    BY EmptySeq
  <2>3. QED  BY <2>1, <2>2 DEF Services
<1>2. open = [s EXCEPT !.socket = "open", !.wire = <<>>] /\ open.cltu_id \in Nat /\ open.kind = s.kind
  BY DEF Services
<1>. HIDE DEF open
<1>3. \A r \in Requests : S!send(open, r).wire[1] = r
  BY <1>1, SendType
<1>4. \A o \in Ops, n \in Nat : [op |-> o, n |-> n] \in Requests
  BY DEF Requests
<1>5. PICK r \in Requests : PduOf(s, op) = S!send(open, r).wire[1]
  <2>1. CASE op = "bind"
    BY <1>2, <1>4, <2>1 DEF PduOf, S!common_bind, S!Request, Ops
  <2>2. CASE op = "unbind"
    BY <1>2, <1>4, <2>2 DEF PduOf, S!common_unbind, S!Request, Ops
  <2>3. CASE op = "stop"
    BY <1>2, <1>4, <2>3 DEF PduOf, S!common_stop, S!Request, Ops
  <2>4. CASE op = "start"
    BY <1>2, <1>4, <2>4, SameSend DEF PduOf, CLTU!start, RAF!start, RAF!Request, Ops
  <2>5. QED  BY <2>1, <2>2, <2>3, <2>4
<1>6. QED  BY <1>3, <1>5

\* Preparing a CLTU changes the identifier only.
LEMMA PreparedType ==
  ASSUME NEW s, Resting(s)
  PROVE  /\ Resting(CLTU!prepare_cltu_pdu(s).service)
         /\ CLTU!prepare_cltu_pdu(s).pdu \in Requests
         /\ CLTU!prepare_cltu_pdu(s).service.socket = s.socket
<1> DEFINE n == s.cltu_id + 1
<1>1. n \in Nat /\ s.cltu_id \in Nat
  BY DEF Resting, Services
<1>2. CLTU!prepare_cltu_pdu(s).service = [s EXCEPT !.cltu_id = n]
  BY DEF CLTU!prepare_cltu_pdu
<1>3. CLTU!prepare_cltu_pdu(s).pdu = [op |-> "transfer", n |-> s.cltu_id]
  BY DEF CLTU!prepare_cltu_pdu
<1>4. CLTU!prepare_cltu_pdu(s).pdu \in Requests
  BY <1>1, <1>3 DEF Requests, Ops
<1>. HIDE DEF n
<1>5. QED  BY <1>1, <1>2, <1>4 DEF Resting, Services

\* Every answer is a sequence of PDUs that the services know.
LEMMA AnswerType ==
  ASSUME NEW p, NEW r \in Requests, NEW answer \in Answers(p, r, {"known"})
  PROVE  answer.pdus \in Seq(Pdus)
<1> DEFINE OK(answers) == \A a \in answers : a.pdus \in Seq(Pdus)
<1>1. \A t \in Types \ {"BindReturn"}, result \in Results : Pdu(t, result) \in Pdus
  BY DEF Pdu, Pdus, PduOK
<1>2. \A result \in {"positive", "negative", "stranger"} : Pdu("BindReturn", result) \in Pdus
  BY DEF Pdu, Pdus, PduOK, Types, Results
<1>3. /\ \A x \in Pdus : <<x>> \in Seq(Pdus)
      /\ \A x, y \in Pdus : <<x, y>> \in Seq(Pdus)
  OBVIOUS
<1>4. \A q, x : x \in Seq(Pdus) => OK({Answer(q, x)})
  BY DEF Answer
<1>5. \A A, B : OK(A) /\ OK(B) => OK(A \cup B)
  OBVIOUS
<1>. HIDE DEF OK
<1>6. \A q : OK(ProtocolError(q))
  <2>1. Pdu("PeerAbort", "listed") \in Pdus
    BY <1>1 DEF Types, Results
  <2>2. QED  BY <1>3, <1>4, <2>1 DEF ProtocolError
<1>7. ASSUME NEW q, NEW from, NEW to, NEW t \in Types
      PROVE  OK(Step(q, from, to, t))
  <2> DEFINE A == {Answer([q EXCEPT !.state = to], <<Pdu(t, "positive")>>)}
             B == {Answer(q, <<Pdu(t, "negative")>>)}
  <2>1. Pdu(t, "positive") \in Pdus /\ Pdu(t, "negative") \in Pdus
    BY <1>1, <1>2 DEF Results
  <2>2. OK(A) /\ OK(B)
    BY <1>3, <1>4, <2>1
  <2>3. Step(q, from, to, t) = IF q.state # from THEN ProtocolError(q) ELSE A \cup B
    BY DEF Step
  <2>. HIDE DEF A, B
  <2>4. QED  BY <1>5, <1>6, <2>2, <2>3
<1>8. OK(OnBind(p))
  <2> DEFINE A == Step(p, "unbound", "ready", "BindReturn")
             B == {Answer([p EXCEPT !.state = "ready"], <<Pdu("BindReturn", "stranger")>>)}
  <2>1. OK(A)
    BY <1>7 DEF Types
  <2>2. OK(B)
    BY <1>2, <1>3, <1>4
  <2>3. OnBind(p) = A \cup (IF p.state = "unbound" THEN B ELSE {})
    BY DEF OnBind
  <2>4. OK({})
    BY DEF OK
  <2>. HIDE DEF A, B
  <2>5. QED  BY <1>5, <2>1, <2>2, <2>3, <2>4
<1>9. OK(OnStart(p, r))
  BY <1>7 DEF OnStart, Types
<1>10. OK(Step(p, "active", "ready", "StopReturn"))
  BY <1>7 DEF Types
<1>11. OK(OnUnbind(p))
  <2> DEFINE q == [p EXCEPT !.state = "unbound"]
             A == {Answer(q, <<Pdu("UnbindReturn", "positive")>>)}
             B == {Answer(q, <<Pdu("UnbindReturn", "negative")>>)}
  <2>1. OK(A) /\ OK(B)
    BY <1>1, <1>3, <1>4 DEF Types, Results
  <2>2. OnUnbind(p) = IF p.state # "ready" THEN ProtocolError(p) ELSE A \cup B
    BY DEF OnUnbind
  <2>. HIDE DEF A, B
  <2>3. QED  BY <1>5, <1>6, <2>1, <2>2
<1>12. OK(OnTransfer(p, r))
  <2> DEFINE A == {Answer([p EXCEPT !.outOfSequence = TRUE], <<Pdu("TransferReturn", "specific")>>)}
             B == {Answer([p EXCEPT !.nextCltu = @ + 1],
                          <<Pdu("TransferReturn", "positive"), Pdu("AsyncNotify", "radiated")>>)}
             C == {Answer([p EXCEPT !.refused = TRUE], <<Pdu("TransferReturn", "common")>>)}
             D == {Answer([p EXCEPT !.refused = TRUE], <<Pdu("TransferReturn", "specific")>>)}
  <2>1. /\ Pdu("TransferReturn", "positive") \in Pdus /\ Pdu("TransferReturn", "common") \in Pdus
        /\ Pdu("TransferReturn", "specific") \in Pdus /\ Pdu("AsyncNotify", "radiated") \in Pdus
    BY <1>1 DEF Types, Results
  <2>2. OK(A) /\ OK(B) /\ OK(C) /\ OK(D)
    BY <1>3, <1>4, <2>1
  <2>3. OnTransfer(p, r) = IF p.state # "active" THEN ProtocolError(p)
                           ELSE IF r.n # p.nextCltu THEN A ELSE B \cup C \cup D
    BY DEF OnTransfer
  <2>. HIDE DEF A, B, C, D
  <2>4. QED  BY <1>5, <1>6, <2>2, <2>3
<1>13. OK({Answer(Aborted(p), <<>>)})
  BY <1>4, EmptySeq
<1>14. OK(Answers(p, r, {"known"}))
  BY <1>8, <1>9, <1>10, <1>11, <1>12, <1>13 DEF Answers, Requests, Ops
<1>15. QED  BY <1>14 DEF OK

----------------------------------------------------------------------------
(* Sequences of commands. *)

\* A command that arrives is the next one.
LEMMA Counted ==
  ASSUME NEW k \in Nat, NEW q \in Seq(Nat), NEW d \in Seq(Nat),
         q \o d = [j \in 1 .. k |-> j]
  PROVE  q \o Append(d, k + 1) = [j \in 1 .. k + 1 |-> j]
<1>1. q \o Append(d, k + 1) = Append(q \o d, k + 1)
  <2>1. <<k + 1>> \in Seq(Nat)
    OBVIOUS
  <2>2. Append(d, k + 1) = d \o <<k + 1>>
    BY AppendIsConcat
  <2>3. q \o d \in Seq(Nat)
    BY ConcatProperties
  <2>4. Append(q \o d, k + 1) = (q \o d) \o <<k + 1>>
    BY <2>3, AppendIsConcat, k + 1 \in Nat
  <2>5. q \o (d \o <<k + 1>>) = (q \o d) \o <<k + 1>>
    BY ONLY q \in Seq(Nat), d \in Seq(Nat), <2>1, ConcatAssociative
  <2>6. QED  BY <2>2, <2>4, <2>5
<1>2. Append([j \in 1 .. k |-> j], k + 1) = [j \in 1 .. k + 1 |-> j]
  OBVIOUS
<1>3. QED  BY <1>1, <1>2

\* A command that is sent and deleted moves from the one sequence to the other.
LEMMA Moved ==
  ASSUME NEW q \in Seq(Nat), NEW d \in Seq(Nat), d # <<>>
  PROVE  Append(q, Head(d)) \o Tail(d) = q \o d
<1>1. Head(d) \in Nat /\ Tail(d) \in Seq(Nat) /\ <<Head(d)>> \in Seq(Nat)
  BY HeadTailProperties
<1>2. Append(q, Head(d)) = q \o <<Head(d)>>
  BY <1>1, AppendIsConcat
<1>3. d = <<Head(d)>> \o Tail(d)
  <2>1. /\ Len(<<Head(d)>> \o Tail(d)) = 1 + Len(Tail(d))
        /\ <<Head(d)>> \o Tail(d) \in Seq(Nat)
        /\ \A i \in 1 .. 1 + Len(Tail(d)) :
             (<<Head(d)>> \o Tail(d))[i] = IF i <= 1 THEN Head(d) ELSE Tail(d)[i - 1]
    BY <1>1, ConcatProperties
  <2>2. /\ Len(Tail(d)) = Len(d) - 1 /\ Len(d) \in Nat
        /\ \A i \in 1 .. Len(Tail(d)) : Tail(d)[i] = d[i + 1]
        /\ Head(d) = d[1]
    BY HeadTailProperties, LenProperties
  <2>3. \A i \in 1 .. Len(d) : d[i] = (<<Head(d)>> \o Tail(d))[i]
    BY <2>1, <2>2
  <2>4. QED  BY <2>1, <2>2, <2>3, SeqEqual
<1>4. QED  BY <1>1, <1>2, <1>3, ConcatAssociative
----------------------------------------------------------------------------
(* The inductive invariant. *)

Infos ==
  [service : {s \in Services : Resting(s)},
   state : {"DISCONNECTED", "CONNECTED", "BOUND", "STARTED"}, data : Seq(Nat)]

Slots ==
  {NoRequest}
    \cup [op : {"connect"}, name : Names]
    \cup [op : {"bind", "start", "stop", "unbind"}, name : Names, pdu : Requests]
    \cup [op : {"upload"}, name : Names \cap {"cltu"}, pdu : Requests, item : Nat]

\* The types that the proof needs.
InfoOK   == info \in [Names -> Infos]
SlotOK   == slot \in [Clients -> Slots]
ServerOK ==
  /\ {"todo", "doing", "asked"} \subseteq DOMAIN server /\ server.todo \in Seq(Names)
  /\ server.doing = "bring_up" /\ server.asked => server.todo # <<>>
QueueOK  == queue \in Seq([from : Names, pdu : Pdus])
UdpOK    == arrived \in Nat /\ sent \in Seq(Nat)

TypeInv == setup \in Setups /\ InfoOK /\ SlotOK /\ ServerOK /\ QueueOK /\ UdpOK

\* Unless two uploads overlapped, one client at most uploads, and what it sends
\* is the first command that waits: the one it will delete.
UploadInv ==
  "overlap" \notin happened =>
    /\ \A c, d \in Clients : slot[c].op = "upload" /\ slot[d].op = "upload" => c = d
    /\ \A c \in Clients :
         slot[c].op = "upload" =>
           /\ info["cltu"].data # <<>>
           /\ slot[c].item = Head(info["cltu"].data)

Inv == TypeInv /\ UploadInv /\ UploadsInOrder

\* Nothing happens to the commands.
SameCommands ==
  /\ udp' = udp
  /\ happened \subseteq happened'
  /\ "cltu" \in Names => info'["cltu"].data = info["cltu"].data

\* No upload begins.
NoNewUpload == \A c \in Clients : slot'[c].op = "upload" => slot'[c] = slot[c]

\* The services in the order the server takes them.
LEMMA ListedType == ASSUME NEW names PROVE Listed(names) \in Seq(names)
<1> DEFINE One(n) == IF n \in names THEN <<n>> ELSE <<>>
<1>1. \A n : One(n) \in Seq(names)
  BY EmptySeq
<1>2. Listed(names) = One("raf") \o One("rcf") \o One("cltu")
  BY DEF Listed
<1>. HIDE DEF One
<1>3. One("raf") \o One("rcf") \in Seq(names)
  BY <1>1, ConcatProperties
<1>4. QED  BY <1>1, <1>2, <1>3, ConcatProperties

\* The manager's initial state satisfies the invariant.
LEMMA InitInv == Init => Inv
<1> SUFFICES ASSUME Init PROVE Inv
  OBVIOUS
<1>1. setup \in Setups /\ Names \subseteq {"raf", "rcf", "cltu"}
  BY SetupsAssumption DEF Init, Names
<1>2. \A T : <<>> \in Seq(T)
  BY EmptySeq
<1>3. InfoOK
  <2> DEFINE i(n) == [service |-> S!NewService(n, "none", "TMTransFrame", FALSE),
                      state |-> "DISCONNECTED", data |-> <<>>]
  <2>1. ASSUME NEW n \in Names PROVE i(n) \in Infos
    <3>1. S!NewService(n, "none", "TMTransFrame", FALSE) \in Services
      BY <1>1, <1>2 DEF S!NewService, S!NoError, Services, States, Sockets, Ends, Errors
    <3>2. S!NewService(n, "none", "TMTransFrame", FALSE).raised = "none"
      BY DEF S!NewService, S!NoError
    <3>3. QED  BY <1>2, <3>1, <3>2 DEF Infos, Resting
  <2>2. info = [n \in Names |-> i(n)]
    BY DEF Init, Names
  <2>. HIDE DEF i
  <2>3. QED  BY <2>1, <2>2 DEF InfoOK
<1>4. SlotOK
  BY DEF Init, SlotOK, Slots
<1>5. ServerOK
  <2>1. Listed(Names) \in Seq(Names)
    BY ListedType
  <2>2. /\ {"todo", "doing", "asked"} \subseteq DOMAIN server
        /\ server.todo = Listed(Names) /\ server.asked = FALSE
    BY DEF Init, NewServer, Names
  <2>3. QED  BY <2>1, <2>2 DEF ServerOK
<1>6. QueueOK /\ UdpOK
  BY <1>2 DEF Init, QueueOK, UdpOK
<1>7. UploadInv
  BY DEF Init, UploadInv, NoRequest
<1>8. UploadsInOrder
  <2>1. ASSUME "cltu" \in Names PROVE info["cltu"].data = <<>>
    BY <2>1 DEF Init, Names
  <2>2. <<>> \o <<>> = <<>>
    OBVIOUS
  <2>3. <<>> = [k \in 1 .. 0 |-> k]
    OBVIOUS
  <2>4. QED  BY <2>1, <2>2, <2>3 DEF Init, UploadsInOrder
<1>9. QED  BY <1>1, <1>3, <1>4, <1>5, <1>6, <1>7, <1>8 DEF Inv, TypeInv

\* A step that leaves the commands alone and begins no upload.
LEMMA QuietStep ==
  ASSUME Inv, TypeInv', setup' = setup, SameCommands, NoNewUpload
  PROVE  Inv'
<1>1. UploadInv'
  <2> SUFFICES ASSUME "overlap" \notin happened' PROVE UploadInv'
    BY DEF UploadInv
  <2>1. "overlap" \notin happened
    BY DEF SameCommands
  <2>2. \A c \in Clients : slot'[c].op = "upload" => slot'[c] = slot[c] /\ "cltu" \in Names
    BY DEF NoNewUpload, Inv, TypeInv, SlotOK, Slots, NoRequest
  <2>3. QED  BY <2>1, <2>2 DEF Inv, UploadInv, SameCommands
<1>2. UploadsInOrder'
  <2>1. Names' = Names
    BY DEF Names
  <2>2. QED  BY <2>1 DEF Inv, UploadsInOrder, SameCommands, udp
<1>3. QED  BY <1>1, <1>2 DEF Inv
----------------------------------------------------------------------------
(* The steps. *)

\* The service of an interface, and its data, may be replaced.
LEMMA NewInfo ==
  ASSUME InfoOK, NEW n \in Names, NEW s, Resting(s)
  PROVE  /\ [info EXCEPT ![n].service = s] \in [Names -> Infos]
         /\ \A m \in Names : [info EXCEPT ![n].service = s][m].data = info[m].data
<1>1. info[n] \in Infos /\ info \in [Names -> Infos]
  BY DEF InfoOK
<1>2. s \in {x \in Services : Resting(x)}
  BY DEF Resting
<1> DEFINE i == [info[n] EXCEPT !.service = s]
<1>3. i \in Infos /\ i.data = info[n].data
  BY <1>1, <1>2 DEF Infos
<1>4. [info EXCEPT ![n].service = s] = [info EXCEPT ![n] = i]
  OBVIOUS
<1>. HIDE DEF i
<1>5. QED  BY <1>1, <1>3, <1>4

\* A handler that uploads: the first command that waits is prepared.
LEMMA UploadingType ==
  ASSUME NEW i \in Infos, i.data # <<>>, "cltu" \in Names
  PROVE  /\ Uploading(i).info \in Infos
         /\ Uploading(i).info.data = i.data
         /\ Uploading(i).slot \in Slots
         /\ Uploading(i).slot.op = "upload"
         /\ Uploading(i).slot.item = Head(i.data)
<1> DEFINE x == CLTU!prepare_cltu_pdu(i.service)
<1>1. Resting(i.service) /\ i.data \in Seq(Nat)
  BY DEF Infos
<1>2. Resting(x.service) /\ x.pdu \in Requests /\ Head(i.data) \in Nat
  BY <1>1, PreparedType, HeadTailProperties
<1>3. x.service \in {s \in Services : Resting(s)}
  BY <1>2 DEF Resting
<1>4. /\ Uploading(i).slot = [op |-> "upload", name |-> "cltu", pdu |-> x.pdu, item |-> Head(i.data)]
      /\ Uploading(i).info = [i EXCEPT !.service = x.service]
  BY DEF Uploading
<1>. HIDE DEF x
<1>5. Uploading(i).info \in Infos /\ Uploading(i).info.data = i.data
  BY <1>3, <1>4 DEF Infos
<1>6. QED  BY <1>2, <1>4, <1>5 DEF Slots

\* A request that a handler begins.
LEMMA BeginStep ==
  ASSUME Inv, NEW c \in Clients, NEW op, NEW n \in Names, Begin(c, op, n),
         setup' = setup, ServerOK'
  PROVE  Inv'
<1>1. Names' = Names /\ Slots' = Slots
  BY DEF Names, Slots
<1>2. info \in [Names -> Infos] /\ slot \in [Clients -> Slots] /\ info[n] \in Infos
  BY DEF Inv, TypeInv, InfoOK, SlotOK
<1>3. UdpOK' /\ udp' = udp
  BY DEF Begin, udp, Inv, TypeInv, UdpOK
<1>4. CASE BeginUpload(c, n)
  <2> DEFINE u == Uploading(info[n])
  <2>1. /\ n = "cltu" /\ info[n].data # <<>>
        /\ slot' = [slot EXCEPT ![c] = u.slot]
        /\ info' = [info EXCEPT ![n] = u.info]
        /\ queue' = queue
        /\ happened' = IF Overlaps(c, "upload") THEN happened \cup {"overlap"} ELSE happened
    BY <1>4 DEF BeginUpload, links
  <2>2. u.info \in Infos /\ u.info.data = info[n].data /\ u.slot \in Slots
        /\ u.slot.op = "upload" /\ u.slot.item = Head(info[n].data)
    BY <1>2, <2>1, UploadingType
  <2>. HIDE DEF u
  <2>3. TypeInv'
    BY <1>1, <1>2, <1>3, <2>1, <2>2 DEF Inv, TypeInv, InfoOK, SlotOK, QueueOK
  <2>4. info'["cltu"].data = info["cltu"].data
    BY <1>2, <2>1, <2>2
  <2>5. UploadInv'
    <3> SUFFICES ASSUME "overlap" \notin happened' PROVE UploadInv'
      BY DEF UploadInv
    <3>1. "overlap" \notin happened /\ \A d \in Clients \ {c} : slot[d].op # "upload"
      BY <2>1 DEF Overlaps
    <3>2. slot'[c] = u.slot /\ \A d \in Clients \ {c} : slot'[d] = slot[d]
      BY <1>2, <2>1
    <3>3. QED  BY <2>1, <2>2, <2>4, <3>1, <3>2 DEF UploadInv
  <2>6. UploadsInOrder'
    BY <1>1, <1>3, <2>1, <2>4 DEF Inv, UploadsInOrder, udp
  <2>7. QED  BY <2>3, <2>5, <2>6 DEF Inv
<1>5. CASE disconnect_handler(n)
  <2> DEFINE s == S!Handled(S!disconnect(info[n].service))
             i == [info[n] EXCEPT !.service = s, !.state = "DISCONNECTED"]
  <2>1. Resting(s)
    BY <1>2, DisconnectType, HandledRests DEF Infos
  <2>2. s \in {x \in Services : Resting(x)}
    BY <2>1 DEF Resting
  <2>. HIDE DEF s
  <2>3. i \in Infos /\ i.data = info[n].data
    BY <1>2, <2>2 DEF Infos
  <2>4. info' = [info EXCEPT ![n] = i] /\ slot' = slot /\ queue' = queue /\ happened \subseteq happened'
    BY <1>5 DEF disconnect_handler, After, s
  <2>. HIDE DEF i
  <2>5. TypeInv'
    BY <1>1, <1>2, <1>3, <2>3, <2>4 DEF Inv, TypeInv, InfoOK, SlotOK, QueueOK
  <2>6. SameCommands /\ NoNewUpload
    BY <1>2, <1>3, <2>3, <2>4 DEF SameCommands, NoNewUpload
  <2>7. QED  BY <2>5, <2>6, QuietStep
<1>6. CASE UNCHANGED <<info, happened, links>>
           /\ \E r \in Slots : r.op # "upload" /\ slot' = [slot EXCEPT ![c] = r]
  <2>1. PICK r \in Slots : r.op # "upload" /\ slot' = [slot EXCEPT ![c] = r]
    BY <1>6
  <2>2. info' = info /\ happened' = happened /\ queue' = queue
    BY <1>6 DEF links
  <2>3. TypeInv'
    BY <1>1, <1>2, <1>3, <2>1, <2>2 DEF Inv, TypeInv, InfoOK, SlotOK, QueueOK
  <2>4. SameCommands /\ NoNewUpload
    BY <1>2, <1>3, <2>1, <2>2 DEF SameCommands, NoNewUpload
  <2>5. QED  BY <2>3, <2>4, QuietStep
<1>7. ASSUME op = "connect", slot' = [slot EXCEPT ![c] = [op |-> op, name |-> n]]
      PROVE  \E r \in Slots : r.op # "upload" /\ slot' = [slot EXCEPT ![c] = r]
  BY <1>7 DEF Slots
<1>8. ASSUME op \in {"bind", "start", "stop", "unbind"},
             slot' = [slot EXCEPT ![c] = [op |-> op, name |-> n, pdu |-> PduOf(info[n].service, op)]]
      PROVE  \E r \in Slots : r.op # "upload" /\ slot' = [slot EXCEPT ![c] = r]
  <2>1. PduOf(info[n].service, op) \in Requests
    BY <1>2, <1>8, RequestType DEF Infos
  <2>2. QED  BY <1>8, <2>1 DEF Slots
<1>9. QED  BY <1>4, <1>5, <1>6, <1>7, <1>8 DEF Begin
\* A connect that is answered, or not.
LEMMA FinishConnectStep ==
  ASSUME Inv, NEW c \in Clients, FinishConnect(c), setup' = setup
  PROVE  Inv'
<1> DEFINE n == slot[c].name
           s == S!connect(info[n].service, TRUE)
           f == S!Handled(S!connect(info[n].service, FALSE))
           i == [info[n] EXCEPT !.service = s, !.state = "CONNECTED"]
<1>1. Names' = Names /\ Slots' = Slots
  BY DEF Names, Slots
<1>2. InfoOK /\ info \in [Names -> Infos] /\ slot \in [Clients -> Slots]
  BY DEF Inv, TypeInv, InfoOK, SlotOK
<1>3. n \in Names /\ info[n] \in Infos
  BY <1>2 DEF FinishConnect, Slots, NoRequest
<1>4. Resting(s) /\ Resting(f)
  BY <1>3, ConnectType DEF Infos
<1>5. s \in {x \in Services : Resting(x)}
  BY <1>4 DEF Resting
<1>6. /\ slot' = [slot EXCEPT ![c] = NoRequest]
      /\ queue' = queue /\ udp' = udp /\ server' = server
      /\ happened \subseteq happened'
      /\ info' = [info EXCEPT ![n] = i] \/ info' = [info EXCEPT ![n].service = f]
  <2>1. info' = [info EXCEPT ![n] = connect_handler([info[n] EXCEPT !.service = S!connect(@, TRUE)])]
        \/ info' = [info EXCEPT ![n].service = S!Handled(S!connect(@, FALSE))]
    BY DEF FinishConnect
  <2>2. connect_handler([info[n] EXCEPT !.service = S!connect(@, TRUE)]) = i
    BY DEF connect_handler, After
  <2>3. info' = [info EXCEPT ![n] = i] \/ info' = [info EXCEPT ![n].service = f]
    BY <2>1, <2>2
  <2>4. /\ slot' = [slot EXCEPT ![c] = NoRequest]
        /\ queue' = queue /\ udp' = udp /\ server' = server
        /\ happened \subseteq happened'
    BY DEF FinishConnect
  <2>5. QED  BY <2>3, <2>4
<1>. HIDE DEF n, s, f
<1>7. i \in Infos /\ i.data = info[n].data
  BY <1>3, <1>5 DEF Infos
<1>. HIDE DEF i
<1>8. info' \in [Names -> Infos] /\ \A m \in Names : info'[m].data = info[m].data
  <2>1. CASE info' = [info EXCEPT ![n] = i]
    BY <1>2, <1>3, <1>7, <2>1
  <2>2. CASE info' = [info EXCEPT ![n].service = f]
    BY <1>2, <1>3, <1>4, <2>2, NewInfo
  <2>3. QED  BY <1>6, <2>1, <2>2
<1>9. slot' \in [Clients -> Slots] /\ NoNewUpload
  BY <1>2, <1>6 DEF Slots, NoRequest, NoNewUpload
<1>10. TypeInv'
  BY <1>1, <1>6, <1>8, <1>9 DEF Inv, TypeInv, InfoOK, SlotOK, QueueOK, ServerOK, UdpOK, udp
<1>11. QED  BY <1>6, <1>8, <1>9, <1>10, QuietStep DEF SameCommands

\* A request that is sent, or raises.
LEMMA FinishRequestStep ==
  ASSUME Inv, NEW c \in Clients, FinishRequest(c), setup' = setup
  PROVE  Inv'
<1> DEFINE n == slot[c].name
           done == S!send(info[n].service, slot[c].pdu)
           s == S!Handled(done)
           new == [info[n] EXCEPT !.service = s]
           i == IF done.raised = S!NoError THEN Handler(new, slot[c].op) ELSE new
<1>1. Names' = Names /\ Slots' = Slots
  BY DEF Names, Slots
<1>2. info \in [Names -> Infos] /\ slot \in [Clients -> Slots]
  BY DEF Inv, TypeInv, InfoOK, SlotOK
<1>3. /\ n \in Names /\ info[n] \in Infos /\ slot[c].pdu \in Requests
      /\ slot[c].op \in {"bind", "start", "stop", "unbind"}
  BY <1>2 DEF FinishRequest, Slots, NoRequest
<1>4. Resting(s)
  BY <1>3, SendType, HandledRests DEF Infos, Resting
<1>5. s \in {x \in Services : Resting(x)}
  BY <1>4 DEF Resting
<1>6. /\ slot' = [slot EXCEPT ![c] = NoRequest]
      /\ queue' = queue /\ udp' = udp /\ server' = server
      /\ happened \subseteq happened'
      /\ info' = [info EXCEPT ![n] = i]
  BY DEF FinishRequest, Swallowed, links
<1>. HIDE DEF s
<1>7. new \in Infos /\ new.data = info[n].data
  BY <1>3, <1>5 DEF Infos
<1>. HIDE DEF new
<1>8. \A op \in {"bind", "start", "stop", "unbind"} :
        Handler(new, op) \in Infos /\ Handler(new, op).data = new.data
  BY <1>7 DEF Handler, bind_handler, start_handler, stop_handler, unbind_handler, After, Infos
<1>9. i \in Infos /\ i.data = info[n].data
  BY <1>3, <1>7, <1>8
<1>. HIDE DEF i, n
<1>10. info' \in [Names -> Infos] /\ \A m \in Names : info'[m].data = info[m].data
  BY <1>2, <1>3, <1>6, <1>9
<1>11. slot' \in [Clients -> Slots] /\ NoNewUpload
  BY <1>2, <1>6 DEF Slots, NoRequest, NoNewUpload
<1>12. TypeInv'
  BY <1>1, <1>6, <1>10, <1>11 DEF Inv, TypeInv, InfoOK, SlotOK, QueueOK, ServerOK, UdpOK, udp
<1>13. QED  BY <1>6, <1>10, <1>11, <1>12, QuietStep DEF SameCommands

\* A command that is sent and deleted, or neither; and the next one prepared.
LEMMA FinishUploadStep ==
  ASSUME Inv, NEW c \in Clients, FinishUpload(c), setup' = setup
  PROVE  Inv'
<1> DEFINE old  == info["cltu"]
           s    == old.service
           done == S!send(s, slot[c].pdu)
           i    == [old EXCEPT !.service = S!Handled(done)]
           left == DeleteFirst(i)
           failed == done.raised # S!NoError \/ i.data = <<>>
<1>1. Names' = Names /\ Slots' = Slots
  BY DEF Names, Slots
<1>2. info \in [Names -> Infos] /\ slot \in [Clients -> Slots] /\ sent \in Seq(Nat) /\ arrived \in Nat
  BY DEF Inv, TypeInv, InfoOK, SlotOK, UdpOK
<1>3. "cltu" \in Names /\ old \in Infos /\ slot[c].pdu \in Requests /\ slot[c].item \in Nat
      /\ slot[c].op = "upload"
  <2>1. slot[c].op = "upload"
    BY DEF FinishUpload
  <2>2. slot[c] \in Slots
    BY <1>2
  <2>3. slot[c] \in [op : {"upload"}, name : Names \cap {"cltu"}, pdu : Requests, item : Nat]
    BY <2>1, <2>2 DEF Slots, NoRequest
  <2>4. "cltu" \in Names /\ slot[c].pdu \in Requests /\ slot[c].item \in Nat
    BY <2>3
  <2>5. old \in Infos
    BY <1>2, <2>4
  <2>6. QED  BY <2>1, <2>4, <2>5
<1>4. Resting(s) /\ old.data \in Seq(Nat)
  BY <1>3 DEF Infos
<1>5. /\ s.socket = "open" => done.raised = "none"
      /\ s.socket # "open" /\ s.socket # "reset" => done.raised # "none"
      /\ Resting(S!Handled(done))
  BY <1>3, <1>4, SendType, HandledRests, ZenonT(60) DEF Resting, Services, Sockets
<1>6. S!Handled(done) \in {x \in Services : Resting(x)}
  BY <1>5 DEF Resting
<1>7. /\ sent' = IF s.socket = "open" THEN Append(sent, slot[c].item) ELSE sent
      /\ queue' = queue /\ server' = server /\ arrived' = arrived
      /\ happened' = IF s.socket = "reset" THEN happened \cup {"swallowed"} ELSE happened
  BY DEF FinishUpload, Swallowed, links
<1>8. \/ /\ failed
         /\ info' = [info EXCEPT !["cltu"] = i] /\ slot' = [slot EXCEPT ![c] = NoRequest]
      \/ /\ ~failed /\ left.data = <<>>
         /\ info' = [info EXCEPT !["cltu"] = left] /\ slot' = [slot EXCEPT ![c] = NoRequest]
      \/ /\ ~failed /\ left.data # <<>>
         /\ info' = [info EXCEPT !["cltu"] = Uploading(left).info]
         /\ slot' = [slot EXCEPT ![c] = Uploading(left).slot]
  BY DEF FinishUpload, AfterFailure
<1>9. i \in Infos /\ i.data = old.data
  <2> DEFINE h == S!Handled(done)
  <2>1. h \in {x \in Services : Resting(x)}
    BY <1>6
  <2>. HIDE DEF h
  <2>2. [old EXCEPT !.service = h] \in Infos /\ [old EXCEPT !.service = h].data = old.data
    BY <1>3, <2>1 DEF Infos
  <2>3. QED  BY <2>2 DEF h
<1>10. failed <=> done.raised # "none" \/ old.data = <<>>
  BY <1>9 DEF S!NoError
<1>. HIDE DEF i, failed, done
<1>11. old.data # <<>> => left \in Infos /\ left.data = Tail(old.data)
  <2> SUFFICES ASSUME old.data # <<>> PROVE left \in Infos /\ left.data = Tail(old.data)
    OBVIOUS
  <2>1. Tail(old.data) \in Seq(Nat)
    BY <1>4, HeadTailProperties
  <2>2. left = [i EXCEPT !.data = Tail(old.data)]
    BY <1>9 DEF DeleteFirst
  <2>3. QED  BY <1>9, <2>1, <2>2 DEF Infos
<1>. HIDE DEF left
\* What may be left.
<1>12. /\ info' \in [Names -> Infos] /\ slot' \in [Clients -> Slots]
       /\ \A d \in Clients \ {c} : slot'[d] = slot[d]
       /\ slot'[c].op = "upload" =>
            /\ info'["cltu"].data # <<>>
            /\ slot'[c].item = Head(info'["cltu"].data)
       /\ info'["cltu"].data = IF failed THEN old.data ELSE Tail(old.data)
  <2>0. NoRequest \in Slots /\ NoRequest.op # "upload"
    BY DEF Slots, NoRequest
  <2>1. CASE failed
    <3>1. info' = [info EXCEPT !["cltu"] = i] /\ slot' = [slot EXCEPT ![c] = NoRequest]
      BY <1>8, <2>1
    <3>2. QED  BY <1>2, <1>3, <1>9, <2>0, <2>1, <3>1
  <2>2. CASE ~failed /\ left.data = <<>>
    <3>1. info' = [info EXCEPT !["cltu"] = left] /\ slot' = [slot EXCEPT ![c] = NoRequest]
      BY <1>8, <2>2
    <3>2. left \in Infos /\ left.data = Tail(old.data)
      BY <1>10, <1>11, <2>2
    <3>3. QED  BY <1>2, <1>3, <2>0, <2>2, <3>1, <3>2
  <2>3. CASE ~failed /\ left.data # <<>>
    <3>1. /\ Uploading(left).info \in Infos
          /\ Uploading(left).info.data = Tail(old.data)
          /\ Uploading(left).slot \in Slots
          /\ Uploading(left).slot.item = Head(Tail(old.data))
      BY <1>3, <1>10, <1>11, <2>3, UploadingType
    <3>2. /\ info' = [info EXCEPT !["cltu"] = Uploading(left).info]
          /\ slot' = [slot EXCEPT ![c] = Uploading(left).slot]
      BY <1>8, <2>3
    <3>3. Tail(old.data) # <<>>
      BY <1>10, <1>11, <2>3
    <3>4. QED  BY <1>2, <1>3, <2>3, <3>1, <3>2, <3>3
  <2>4. QED  BY <2>1, <2>2, <2>3
<1>13. TypeInv'
  <2>1. sent' \in Seq(Nat)
    BY <1>2, <1>3, <1>7
  <2>2. QED
    BY <1>1, <1>7, <1>12, <2>1 DEF Inv, TypeInv, InfoOK, SlotOK, QueueOK, ServerOK, UdpOK
<1>14. UploadInv'
  <2> SUFFICES ASSUME "overlap" \notin happened' PROVE UploadInv'
    BY DEF UploadInv
  <2>1. "overlap" \notin happened
    BY <1>7
  <2>2. \A d \in Clients \ {c} : slot[d].op # "upload"
    BY <1>3, <2>1 DEF Inv, UploadInv
  <2>3. QED  BY <1>12, <2>2 DEF UploadInv
<1>15. UploadsInOrder'
  <2> SUFFICES ASSUME happened' \cap {"overlap", "swallowed"} = {}
               PROVE  sent' \o info'["cltu"].data = [k \in 1 .. arrived' |-> k]
    BY DEF UploadsInOrder
  <2>1. s.socket # "reset" /\ happened \cap {"overlap", "swallowed"} = {}
    BY <1>7
  <2>2. sent \o old.data = [k \in 1 .. arrived |-> k]
    BY <1>3, <2>1 DEF Inv, UploadsInOrder
  <2>3. old.data # <<>> /\ slot[c].item = Head(old.data)
    BY <1>3, <2>1 DEF Inv, UploadInv
  <2>4. CASE s.socket = "open"
    <3>1. sent' = Append(sent, Head(old.data)) /\ arrived' = arrived
      BY <1>7, <2>3, <2>4
    <3>2. info'["cltu"].data = Tail(old.data)
      BY <1>5, <1>10, <1>12, <2>3, <2>4
    <3>3. Append(sent, Head(old.data)) \o Tail(old.data) = sent \o old.data
      BY <1>2, <1>4, <2>3, Moved
    <3>4. QED  BY <2>2, <3>1, <3>2, <3>3
  <2>5. CASE s.socket # "open"
    BY <1>5, <1>7, <1>10, <1>12, <2>1, <2>2, <2>5
  <2>6. QED  BY <2>4, <2>5
<1>16. QED  BY <1>13, <1>14, <1>15 DEF Inv
\* A sequence with an element appended is not empty, and keeps its head.
LEMMA AppendHead ==
  ASSUME NEW d \in Seq(Nat), NEW k \in Nat
  PROVE  /\ Append(d, k) # <<>>
         /\ d # <<>> => Head(Append(d, k)) = Head(d)
<1>1. Len(Append(d, k)) = Len(d) + 1 /\ Len(d) \in Nat
  OBVIOUS
<1>2. Len(Append(d, k)) # Len(<<>>)
  BY <1>1, EmptySeq
<1>3. QED  BY <1>2

\* A command that arrives.
LEMMA AppendStep ==
  ASSUME Inv, Append_cltu_data, setup' = setup
  PROVE  Inv'
<1> DEFINE i == [info["cltu"] EXCEPT !.data = Append(@, arrived + 1)]
<1>1. Names' = Names /\ Slots' = Slots
  BY DEF Names, Slots
<1>2. info \in [Names -> Infos] /\ slot \in [Clients -> Slots] /\ sent \in Seq(Nat) /\ arrived \in Nat
  BY DEF Inv, TypeInv, InfoOK, SlotOK, UdpOK
<1>3. /\ "cltu" \in Names /\ arrived' = arrived + 1
      /\ info' = [info EXCEPT !["cltu"] = i]
      /\ sent' = sent /\ slot' = slot /\ server' = server /\ queue' = queue /\ happened' = happened
  BY DEF Append_cltu_data, links
<1>4. info["cltu"] \in Infos /\ info["cltu"].data \in Seq(Nat)
  BY <1>2, <1>3 DEF Infos
<1>5. Append(info["cltu"].data, arrived + 1) \in Seq(Nat)
  BY <1>2, <1>4
<1>6. i \in Infos /\ i.data = Append(info["cltu"].data, arrived + 1)
  BY <1>4, <1>5 DEF Infos
<1>. HIDE DEF i
<1>7. info' \in [Names -> Infos] /\ info'["cltu"].data = Append(info["cltu"].data, arrived + 1)
  BY <1>2, <1>3, <1>6
<1>8. TypeInv'
  BY <1>1, <1>2, <1>3, <1>7 DEF Inv, TypeInv, InfoOK, SlotOK, QueueOK, ServerOK, UdpOK
<1>9. UploadInv'
  <2>1. /\ Append(info["cltu"].data, arrived + 1) # <<>>
        /\ info["cltu"].data # <<>> => Head(Append(info["cltu"].data, arrived + 1)) = Head(info["cltu"].data)
    BY <1>2, <1>4, arrived + 1 \in Nat, AppendHead
  <2>2. info'["cltu"].data # <<>>
    BY <1>7, <2>1
  <2>3. QED  BY <1>3, <1>7, <2>1, <2>2 DEF Inv, UploadInv
<1>10. UploadsInOrder'
  <2> SUFFICES ASSUME happened \cap {"overlap", "swallowed"} = {}
               PROVE  sent \o info'["cltu"].data = [k \in 1 .. arrived + 1 |-> k]
    BY <1>3 DEF UploadsInOrder
  <2>1. sent \o info["cltu"].data = [k \in 1 .. arrived |-> k]
    BY <1>3 DEF Inv, UploadsInOrder
  <2>2. sent \o Append(info["cltu"].data, arrived + 1) = [k \in 1 .. arrived + 1 |-> k]
    BY <1>2, <1>4, <2>1, Counted
  <2>3. QED  BY <1>7, <2>2
<1>11. QED  BY <1>8, <1>9, <1>10 DEF Inv

\* A step of the server that sends no request.
LEMMA ServerOnly ==
  ASSUME Inv, setup' = setup, UNCHANGED <<info, slot, links, udp, happened>>, ServerOK'
  PROVE  Inv'
<1>1. Names' = Names /\ Slots' = Slots
  BY DEF Names, Slots
<1>2. TypeInv'
  BY <1>1 DEF Inv, TypeInv, InfoOK, SlotOK, QueueOK, UdpOK, udp, links
<1>3. SameCommands /\ NoNewUpload
  BY DEF SameCommands, NoNewUpload
<1>4. QED  BY <1>2, <1>3, QuietStep

\* The requests of the server and its waiting for their answers.
LEMMA ServerStep ==
  ASSUME Inv, Server, setup' = setup
  PROVE  Inv'
<1>1. Names' = Names
  BY DEF Names
<1>2. /\ {"todo", "doing", "asked"} \subseteq DOMAIN server /\ server.todo \in Seq(Names)
      /\ server.doing = "bring_up" /\ server.asked => server.todo # <<>>
  BY DEF Inv, TypeInv, ServerOK
<1>3. server.todo # <<>> => Service \in Names /\ Tail(server.todo) \in Seq(Names)
  BY <1>2, HeadTailProperties DEF Service
<1>4. ASSUME ServerRequest PROVE Inv'
  <2>1. ServerOK' /\ "server" \in Clients /\ Service \in Names
    BY <1>1, <1>2, <1>3, <1>4 DEF ServerRequest, ServerOK, Clients
  <2>2. CASE Begin("server", server.next, Service)
    BY <2>1, <2>2, BeginStep
  <2>3. CASE UNCHANGED <<info, slot, links, udp, faults, happened>>
    BY <2>1, <2>3, ServerOnly
  <2>4. QED  BY <1>4, <2>2, <2>3 DEF ServerRequest
<1>5. ASSUME bring_up_services PROVE Inv'
  <2> DEFINE Fine(s) == /\ {"todo", "doing", "asked"} \subseteq DOMAIN s
                        /\ s.todo \in Seq(Names) /\ s.asked = FALSE
  <2>1. server.todo # <<>> /\ server' \in {step_done(server), give_up(server)}
    BY <1>2, <1>5 DEF bring_up_services
  <2>2. ASSUME NEW s, {"todo", "doing", "asked"} \subseteq DOMAIN s, s.todo = server.todo
        PROVE  Fine(OnToNext(s))
    BY <1>3, <2>1, <2>2 DEF OnToNext
  <2>3. \A n : /\ DOMAIN [server EXCEPT !.started = n] = DOMAIN server
               /\ [server EXCEPT !.started = n].todo = server.todo
    BY <1>2
  <2>4. Fine(give_up(server))
    BY <1>2, <2>2 DEF give_up
  <2>5. Fine(step_done(server))
    <3>1. CASE server.next = "start"
      <4>1. step_done(server) = OnToNext([server EXCEPT !.started = @ + 1])
        BY <3>1 DEF step_done
      <4>. HIDE DEF Fine
      <4>2. QED  BY <1>2, <2>2, <2>3, <4>1
    <3>2. CASE server.next # "start"
      BY <1>2, <3>2 DEF step_done
    <3>3. QED  BY <3>1, <3>2
  <2>6. ServerOK'
    BY <1>1, <2>1, <2>4, <2>5 DEF ServerOK
  <2>7. QED  BY <1>5, <2>6, ServerOnly DEF bring_up_services
<1>6. ASSUME BroughtUp PROVE Inv'
  <2>1. ServerOK'
    BY <1>1, <1>2, <1>6, ListedType DEF BroughtUp, ServerOK, TearDown
  <2>2. QED  BY <1>6, <2>1, ServerOnly DEF BroughtUp
<1>7. ASSUME TearDownStep PROVE Inv'
  <2>1. ServerOK'
    BY <1>1, <1>2, <1>3, <1>7 DEF TearDownStep, ServerOK
  <2>2. QED  BY <1>7, <2>1, ServerOnly DEF TearDownStep
<1>8. ASSUME kill_servers PROVE Inv'
  <2>1. ServerOK'
    BY <1>1, <1>2, <1>8 DEF kill_servers, ServerOK
  <2>2. QED  BY <1>8, <2>1, ServerOnly DEF kill_servers
<1>9. QED  BY <1>4, <1>5, <1>6, <1>7, <1>8 DEF Server

\* The server's upload and its turning to the tear-down; the operator.
LEMMA ClientStep ==
  ASSUME Inv, upload_data \/ tear_down_services \/ OperatorRequest, setup' = setup
  PROVE  Inv'
<1>1. Names' = Names
  BY DEF Names
<1>2. ServerOK
  BY DEF Inv, TypeInv
<1>3. ASSUME upload_data PROVE Inv'
  <2>1. ServerOK' /\ "server" \in Clients
    BY <1>1, <1>2, <1>3 DEF upload_data, ServerOK, Clients
  <2>2. QED  BY <1>3, <2>1, BeginStep DEF upload_data
<1>4. ASSUME tear_down_services PROVE Inv'
  <2>1. ServerOK'
    BY <1>1, <1>2, <1>4, ListedType DEF tear_down_services, TearDown, ServerOK
  <2>2. QED  BY <1>4, <2>1, ServerOnly DEF tear_down_services
<1>5. ASSUME OperatorRequest PROVE Inv'
  <2>1. ServerOK' /\ "operator" \in Clients
    BY <1>1, <1>2, <1>5 DEF OperatorRequest, ServerOK, Clients
  <2>2. QED  BY <1>5, <2>1, BeginStep DEF OperatorRequest
<1>6. QED  BY <1>3, <1>4, <1>5

\* The greenlets and the providers change services, and nothing else that
\* belongs to the commands.
LEMMA ServiceOnly ==
  ASSUME Inv, setup' = setup, UNCHANGED <<slot, server, udp>>, happened \subseteq happened',
         QueueOK', info' \in [Names -> Infos], \A m \in Names : info'[m].data = info[m].data
  PROVE  Inv'
<1>1. Names' = Names /\ Slots' = Slots
  BY DEF Names, Slots
<1>2. TypeInv'
  BY <1>1 DEF Inv, TypeInv, InfoOK, SlotOK, ServerOK, UdpOK, udp
<1>3. SameCommands /\ NoNewUpload
  BY DEF SameCommands, NoNewUpload
<1>4. QED  BY <1>2, <1>3, QuietStep

\* A greenlet handles a PDU, whichever service read it.
LEMMA ProcessStep ==
  ASSUME Inv, NEW n \in Names, Process(n), setup' = setup
  PROVE  Inv'
<1> DEFINE from == Head(queue).from
           pdu  == Head(queue).pdu
           s    == info[n].service
           t    == handle_pdu(s, pdu)
           done == IF Decodes(n, from, pdu.type) THEN S!AfterHandler(t) ELSE s
<1>1. Names' = Names /\ InfoOK /\ QueueOK
  BY DEF Names, Inv, TypeInv
<1>2. Resting(s)
  BY <1>1 DEF InfoOK, Infos
<1>3. PduOK(pdu) /\ Tail(queue) \in Seq([from : Names, pdu : Pdus])
  <2>1. Head(queue) \in [from : Names, pdu : Pdus]
    BY <1>1, HeadTailProperties DEF QueueOK, Process
  <2>2. QED  BY <1>1, <2>1, HeadTailProperties DEF QueueOK, Process, Pdus
<1>4. Resting(done)
  BY <1>2, <1>3, HandledType
<1>5. /\ info' = [info EXCEPT ![n].service = done]
      /\ queue' = Tail(queue) /\ UNCHANGED <<slot, server, udp>>
      /\ happened \subseteq happened'
  BY DEF Process
<1>. HIDE DEF done
<1>6. info' \in [Names -> Infos] /\ \A m \in Names : info'[m].data = info[m].data
  BY <1>1, <1>4, <1>5, NewInfo
<1>7. QueueOK'
  BY <1>1, <1>3, <1>5 DEF QueueOK
<1>8. QED  BY <1>5, <1>6, <1>7, ServiceOnly

\* PDUs that are read wait behind those read before.
LEMMA ReadStep ==
  ASSUME QueueOK, Names' = Names, NEW n \in Names, NEW pdus \in Seq(Pdus),
         queue' = queue \o ReadBy(n, pdus)
  PROVE  QueueOK'
<1>1. ReadBy(n, pdus) \in Seq([from : Names, pdu : Pdus])
  BY DEF ReadBy
<1>2. QED  BY <1>1, ConcatProperties DEF QueueOK

\* A provider answers, aborts, or is lost.
LEMMA ProviderStep ==
  ASSUME Inv, NEW n \in Names, Reply(n) \/ Abort(n) \/ Lose(n), setup' = setup
  PROVE  Inv'
<1> DEFINE s == info[n].service
<1>1. Names' = Names /\ InfoOK /\ QueueOK /\ info \in [Names -> Infos]
  BY DEF Names, Inv, TypeInv, InfoOK
<1>2. Resting(s)
  BY <1>1 DEF Infos
<1>3. ASSUME Reply(n) PROVE Inv'
  <2>1. PICK answer \in Answers(provider[n], Head(s.wire), {"known"}) :
          queue' = queue \o ReadBy(n, answer.pdus)
    BY <1>3 DEF Reply
  <2> DEFINE t == [s EXCEPT !.wire = Tail(s.wire)]
  <2>2. /\ s.wire # <<>> /\ UNCHANGED <<slot, server, udp>>
        /\ info' = [info EXCEPT ![n].service = t]
        /\ happened \subseteq happened'
    BY <1>3 DEF Reply
  <2>3. Head(s.wire) \in Requests /\ Tail(s.wire) \in Seq(Requests)
    BY <1>2, <2>2, HeadTailProperties DEF Resting, Services
  <2>4. answer.pdus \in Seq(Pdus)
    BY <2>1, <2>3, AnswerType
  <2>5. QueueOK'
    BY <1>1, <2>1, <2>4, ReadStep
  <2>6. Resting(t)
    BY <1>2, <2>3 DEF Resting, Services
  <2>. HIDE DEF t
  <2>7. info' \in [Names -> Infos] /\ \A m \in Names : info'[m].data = info[m].data
    BY <1>1, <2>2, <2>6, NewInfo
  <2>8. QED  BY <2>2, <2>5, <2>7, ServiceOnly
<1>4. ASSUME Abort(n) PROVE Inv'
  <2>1. Pdu("PeerAbort", "listed") \in Pdus
    BY DEF Pdu, Pdus, PduOK, Types, Results
  <2>2. <<Pdu("PeerAbort", "listed")>> \in Seq(Pdus)
    BY <2>1
  <2>3. /\ queue' = queue \o ReadBy(n, <<Pdu("PeerAbort", "listed")>>)
        /\ UNCHANGED <<info, slot, server, udp>> /\ happened \subseteq happened'
    BY <1>4 DEF Abort
  <2>4. QueueOK'
    BY <1>1, <2>2, <2>3, ReadStep
  <2>5. QED  BY <1>1, <2>3, <2>4, ServiceOnly
<1>5. ASSUME Lose(n) PROVE Inv'
  <2>1. PICK how \in {"reset", "broken"} : info' = [info EXCEPT ![n].service.socket = how]
    BY <1>5 DEF Lose
  <2> DEFINE t == [s EXCEPT !.socket = how]
  <2>2. Resting(t)
    BY <1>2, <2>1 DEF Resting, Services, Sockets
  <2>3. info' = [info EXCEPT ![n].service = t]
    BY <2>1
  <2>. HIDE DEF t
  <2>4. info' \in [Names -> Infos] /\ \A m \in Names : info'[m].data = info[m].data
    BY <1>1, <2>2, <2>3, NewInfo
  <2>5. QueueOK' /\ UNCHANGED <<slot, server, udp>> /\ happened \subseteq happened'
    BY <1>1, <1>5 DEF Lose, QueueOK
  <2>6. QED  BY <2>4, <2>5, ServiceOnly
<1>6. QED  BY <1>3, <1>4, <1>5

\* Every step keeps the invariant.
LEMMA NextInv == Inv /\ [Next]_vars => Inv'
<1> SUFFICES ASSUME Inv, [Next]_vars PROVE Inv'
  OBVIOUS
<1>1. CASE UNCHANGED vars
  <2>1. Names' = Names /\ Slots' = Slots
    BY <1>1 DEF vars, Names, Slots
  <2>2. TypeInv'
    BY <1>1, <2>1 DEF vars, links, udp, Inv, TypeInv, InfoOK, SlotOK, ServerOK, QueueOK, UdpOK
  <2>3. SameCommands /\ NoNewUpload
    BY <1>1 DEF vars, links, udp, SameCommands, NoNewUpload
  <2>4. QED  BY <1>1, <2>2, <2>3, QuietStep DEF vars
<1>2. CASE Server
  BY <1>2, ServerStep DEF Server
<1>3. CASE Environment
  <2>1. setup' = setup
    BY <1>3 DEF Environment
  <2>2. QED  BY <1>3, <2>1, ClientStep, AppendStep, ProcessStep, ProviderStep DEF Environment
<1>4. ASSUME NEW c \in Clients, Finish(c) PROVE Inv'
  BY <1>4, FinishConnectStep, FinishRequestStep, FinishUploadStep DEF Finish
<1>5. QED  BY <1>1, <1>2, <1>3, <1>4 DEF Next

\* What was sent and what waits is what arrived, in its order, unless two
\* uploads overlapped or a reset connection swallowed a command: whatever is
\* refused, aborted or lost, and whatever arrives during an upload.
THEOREM UploadsInOrderHolds == Spec => []UploadsInOrder
<1>1. Init => Inv
  BY InitInv
<1>2. Inv /\ [Next]_vars => Inv'
  BY NextInv
<1>3. Inv => UploadsInOrder
  BY DEF Inv
<1>4. QED  BY <1>1, <1>2, <1>3, PTL DEF Spec

----------------------------------------------------------------------------
(* Paths of states along a sequence: each element of the sequence allows   *)
(* some moves from a state to a state.                                     *)

\* f leads from the state a to the state b by moves the elements of q allow.
Leads(f, moves, q, a, b) ==
  /\ f[1] = a /\ f[Len(q) + 1] = b
  /\ \A i \in 1 .. Len(q) : <<q[i], f[i], f[i + 1]>> \in moves

Path(moves, q, a, b) == \E f \in [1 .. Len(q) + 1 -> States] : Leads(f, moves, q, a, b)

----------------------------------------------------------------------------
(* The inductive invariant. *)

Read == [from : Names, pdu : Pdus]

\* The state a positive return tells.
Telling == {"BindReturn", "UnbindReturn", "StartReturn", "StopReturn"}
Told ==
  [BindReturn |-> "ready", UnbindReturn |-> "unbound", StartReturn |-> "active",
   StopReturn |-> "ready"]

\* How what was read changes the state of service n: a return of its own provider is
\* positive, and a service that is bound already is not bound again.
ReturnFits(pdu, a, b) ==
  /\ pdu.type # "PeerAbort"
  /\ pdu.type \in Telling => pdu.result = "positive" /\ b = Told[pdu.type]
  /\ pdu.type \notin Telling => b = a
  /\ pdu.type = "BindReturn" => a = "unbound"

Returns(n) ==
  {t \in Read \X States \X States :
     /\ t[1].from = n => ReturnFits(t[1].pdu, t[2], t[3])
     /\ t[1].from # n => t[3] = t[2]}

\* How a request changes the state of a provider that grants it.
Controls == {"bind", "unbind", "start", "stop"}
Granted == [bind |-> "ready", unbind |-> "unbound", start |-> "active", stop |-> "ready"]

Asks ==
  {t \in Requests \X States \X States :
     /\ t[1].op # "abort"
     /\ t[1].op \in Controls => t[3] = Granted[t[1].op]
     /\ t[1].op = "transfer" => t[3] = t[2]}

Providers ==
  [state : States, up : BOOLEAN, nextCltu : Nat, nextEvent : Nat, refused : BOOLEAN,
   outOfSequence : BOOLEAN]

ProviderOK == provider \in [Names -> Providers]

\* What a client's handler is about to send or to do.
SlotInv ==
  /\ \A c \in Clients : slot[c].op \in Controls => slot[c].pdu.op = slot[c].op
  /\ \A c \in Clients : slot[c].op = "upload" => slot[c].pdu.op = "transfer"
  /\ \A c, d \in Clients : slot[c].op = "connect" /\ slot[d].op = "connect" => c = d

\* What makes the manager lose track of a service.
Failures == {"refused", "aborted", "lost", "misrouted", "unanswered"}

\* The returns read lead from the service's state to the provider's, the requests sent
\* from the provider's to the manager's; a connection is open while the manager has one.
Tracked(n) ==
  LET s == info[n].service IN
  /\ s.socket \in {"none", "closed", "open"}
  /\ s.socket = "open" <=> info[n].state # "DISCONNECTED"
  /\ s.socket # "open" => s.wire = <<>>
  /\ Path(Returns(n), queue, s.state, provider[n].state)
  /\ Path(Asks, s.wire, provider[n].state, StateOf[info[n].state])

Connecting ==
  \A c \in Clients : slot[c].op = "connect" => info[slot[c].name].state = "DISCONNECTED"

TrackInv ==
  happened \cap Failures = {} => Connecting /\ \A n \in Names : Tracked(n)

AgreeInv == ProviderOK /\ SlotInv /\ TrackInv

\* The server counts at most the services it has been through.
Servers ==
  [doing : {"bring_up", "ready", "tear_down", "exited"}, todo : Seq(Names),
   next : DOMAIN Legal, asked : BOOLEAN, started : Nat, uploads : Nat]

ServerCount ==
  /\ server \in Servers
  /\ server.doing = "bring_up" =>
       /\ server.next \in {"connect", "bind", "start"}
       /\ server.started + Len(server.todo) <= Cardinality(Names)
  /\ server.doing = "tear_down" => server.next \in {"stop", "unbind", "disconnect"}
  /\ server.started <= Cardinality(Names)

\* The commands that wait, are being sent or were sent are among those that arrived.
Commands == 1 .. setup.data

DataCount ==
  /\ arrived <= setup.data
  /\ sent \in Seq(Commands)
  /\ \A n \in Names : info[n].data \in Seq(Commands)
  /\ \A c \in Clients : slot[c].op = "upload" => slot[c].item \in Commands

CountInv == ServerCount /\ DataCount

----------------------------------------------------------------------------
(* What is known of paths. *)

\* A path along an empty sequence goes nowhere.
LEMMA EmptyPath ==
  ASSUME NEW moves, NEW a, NEW b
  PROVE  /\ Path(moves, <<>>, a, b) => a = b
         /\ a \in States => Path(moves, <<>>, a, a)
<1>1. Len(<<>>) = 0 /\ Len(<<>>) + 1 = 1
  OBVIOUS
<1>2. Path(moves, <<>>, a, b) => a = b
  BY <1>1 DEF Path, Leads
<1>3. ASSUME a \in States PROVE Path(moves, <<>>, a, a)
  <2> DEFINE f == [i \in 1 .. 1 |-> a]
  <2>1. f \in [1 .. 1 -> States] /\ f[1] = a
    BY <1>3
  <2>. HIDE DEF f
  <2>2. Leads(f, moves, <<>>, a, a)
    BY <1>1, <2>1 DEF Leads
  <2>3. QED  BY <1>1, <2>1, <2>2 DEF Path
<1>4. QED  BY <1>2, <1>3

\* A move of one more element takes a path further.
LEMMA LongerPath ==
  ASSUME NEW T, NEW moves, NEW q \in Seq(T), NEW x \in T, NEW a, NEW b, NEW c \in States,
         Path(moves, q, a, b), <<x, b, c>> \in moves
  PROVE  Path(moves, Append(q, x), a, c)
<1> DEFINE k == Len(q)
           longer == Append(q, x)
<1>1. k \in Nat /\ Len(longer) = k + 1 /\ longer[k + 1] = x
      /\ \A i \in 1 .. k : longer[i] = q[i]
  OBVIOUS
<1>2. PICK f \in [1 .. k + 1 -> States] : Leads(f, moves, q, a, b)
  BY DEF Path
<1>. HIDE DEF longer
<1> DEFINE g == [i \in 1 .. k + 1 + 1 |-> IF i = k + 1 + 1 THEN c ELSE f[i]]
<1>3. k = Len(q)
  OBVIOUS
<1>4. f[1] = a /\ f[k + 1] = b /\ \A i \in 1 .. k : <<q[i], f[i], f[i + 1]>> \in moves
  BY <1>2, <1>3 DEF Leads
<1>. HIDE DEF k
<1>5. g \in [1 .. k + 1 + 1 -> States]
  BY <1>1, <1>2
<1>6. g[1] = a /\ g[k + 1 + 1] = c /\ g[k + 1] = b
      /\ \A i \in 1 .. k : g[i] = f[i] /\ g[i + 1] = f[i + 1]
  BY <1>1, <1>4
<1>. HIDE DEF g
<1>7. \A i \in 1 .. k + 1 : <<longer[i], g[i], g[i + 1]>> \in moves
  <2>1. TAKE i \in 1 .. k + 1
  <2>2. CASE i \in 1 .. k
    BY <1>1, <1>4, <1>6, <2>2
  <2>3. CASE i = k + 1
    BY <1>1, <1>6, <2>3
  <2>4. QED  BY <1>1, <2>2, <2>3
<1>8. Leads(g, moves, longer, a, c)
  BY <1>1, <1>6, <1>7 DEF Leads
<1>9. Path(moves, longer, a, c)
  BY <1>1, <1>5, <1>8 DEF Path
<1>10. QED  BY <1>9 DEF longer

\* A path begins with a move of the first element.
LEMMA ShorterPath ==
  ASSUME NEW T, NEW moves, NEW q \in Seq(T), q # <<>>, NEW a, NEW b, Path(moves, q, a, b)
  PROVE  \E c \in States : <<Head(q), a, c>> \in moves /\ Path(moves, Tail(q), c, b)
<1> DEFINE k == Len(q)
           rest == Tail(q)
<1>1. k \in Nat /\ k > 0 /\ Len(rest) = k - 1 /\ Head(q) = q[1]
      /\ \A i \in 1 .. k - 1 : rest[i] = q[i + 1]
  BY EmptySeq
<1>2. PICK f \in [1 .. k + 1 -> States] : Leads(f, moves, q, a, b)
  BY DEF Path
<1>3. f[1] = a /\ f[k + 1] = b /\ \A i \in 1 .. k : <<q[i], f[i], f[i + 1]>> \in moves
  BY <1>2 DEF Leads
<1>. HIDE DEF k, rest
<1> DEFINE g == [i \in 1 .. k - 1 + 1 |-> f[i + 1]]
           c == f[2]
<1>4. c \in States /\ <<Head(q), a, c>> \in moves
  BY <1>1, <1>2, <1>3
<1>5. g \in [1 .. k - 1 + 1 -> States]
  BY <1>1, <1>2
<1>6. g[1] = c /\ g[k - 1 + 1] = b
      /\ \A i \in 1 .. k - 1 : g[i] = f[i + 1] /\ g[i + 1] = f[i + 1 + 1]
  BY <1>1, <1>3
<1>. HIDE DEF g, c
<1>7. \A i \in 1 .. k - 1 : <<rest[i], g[i], g[i + 1]>> \in moves
  <2>1. TAKE i \in 1 .. k - 1
  <2>2. i + 1 \in 1 .. k
    BY <1>1
  <2>3. QED  BY <1>1, <1>3, <1>6, <2>2
<1>8. Leads(g, moves, rest, c, b)
  BY <1>1, <1>6, <1>7 DEF Leads
<1>9. Path(moves, rest, c, b)
  BY <1>1, <1>5, <1>8 DEF Path
<1>10. QED  BY <1>4, <1>9 DEF rest

----------------------------------------------------------------------------
(* What the provider answers, and what the service makes of it. *)

\* A request that is granted is answered by its return; the return of a bind only when
\* the provider was unbound.
AnswerFits(p, r, a) ==
  /\ a.provider \in Providers
  /\ Grants(a) =>
       \/ /\ r.op = "transfer" /\ a.provider.state = p.state
          /\ a.pdus = <<Pdu("TransferReturn", "positive"), Pdu("AsyncNotify", "radiated")>>
       \/ /\ r.op \in Controls /\ a.provider.state = Granted[r.op]
          /\ \E t \in Telling :
               /\ a.pdus = <<Pdu(t, "positive")>> /\ Told[t] = Granted[r.op]
               /\ t = "BindReturn" => p.state = "unbound"

\* The provider keeps its type when it changes.
LEMMA ProviderTypes ==
  ASSUME NEW p \in Providers
  PROVE  /\ \A v \in States : /\ [p EXCEPT !.state = v] \in Providers
                              /\ [p EXCEPT !.state = v].state = v
         /\ \A k \in Nat : /\ [p EXCEPT !.nextCltu = k] \in Providers
                           /\ [p EXCEPT !.nextCltu = k].state = p.state
         /\ [p EXCEPT !.refused = TRUE] \in Providers
         /\ [p EXCEPT !.outOfSequence = TRUE] \in Providers
         /\ \A k \in Nat :
              /\ [p EXCEPT !.nextCltu = k, !.refused = FALSE, !.outOfSequence = FALSE] \in Providers
              /\ [p EXCEPT !.nextCltu = k, !.refused = FALSE, !.outOfSequence = FALSE].state = p.state
         /\ Aborted(p) \in Providers /\ Aborted(p).state = "unbound"
<1>1. \A v \in States : [p EXCEPT !.state = v] \in Providers /\ [p EXCEPT !.state = v].state = v
  BY DEF Providers
<1>2. \A k \in Nat : /\ [p EXCEPT !.nextCltu = k] \in Providers
                     /\ [p EXCEPT !.nextCltu = k].state = p.state
  BY DEF Providers
<1>3. [p EXCEPT !.refused = TRUE] \in Providers
  BY DEF Providers
<1>4. [p EXCEPT !.outOfSequence = TRUE] \in Providers
  BY DEF Providers
<1>5. \A k \in Nat :
        /\ [p EXCEPT !.nextCltu = k, !.refused = FALSE, !.outOfSequence = FALSE] \in Providers
        /\ [p EXCEPT !.nextCltu = k, !.refused = FALSE, !.outOfSequence = FALSE].state = p.state
  BY DEF Providers
<1>6. Aborted(p) \in Providers /\ Aborted(p).state = "unbound"
  BY DEF Providers, Aborted, States
<1>7. QED  BY <1>1, <1>2, <1>3, <1>4, <1>5, <1>6

\* Every answer fits the request and the provider's state.
LEMMA AnswersFit ==
  ASSUME NEW p \in Providers, NEW r \in Requests, NEW a \in Answers(p, r, {"known"})
  PROVE  AnswerFits(p, r, a)
<1> DEFINE OK(A) == \A x \in A : AnswerFits(p, r, x)
<1>1. \A A, B : OK(A) /\ OK(B) => OK(A \cup B)
  OBVIOUS
<1>2. \A q \in Providers : \A pdus : ~Grants(Answer(q, pdus)) => OK({Answer(q, pdus)})
  BY DEF Answer, AnswerFits
<1>3. \A q, x : /\ Grants(Answer(q, <<x>>)) <=> x.result = "positive"
                /\ Answer(q, <<x>>).pdus = <<x>> /\ Answer(q, <<x>>).provider = q
  <2>1. TAKE q, x
  <2>2. <<x>> # <<>> /\ <<x>>[1] = x
    OBVIOUS
  <2>3. QED  BY <2>2 DEF Grants, Answer
<1>4. \A t, result : Pdu(t, result).result = result
  BY DEF Pdu
<1>. HIDE DEF OK
<1>5. \A q \in Providers : \A t, result : result # "positive" => OK({Answer(q, <<Pdu(t, result)>>)})
  BY <1>2, <1>3, <1>4
<1>6. \A q \in Providers : OK(ProtocolError(q))
  BY <1>5, ProviderTypes DEF ProtocolError
<1>7. ASSUME NEW q \in Providers, q.state = p.state, NEW from \in States, NEW t \in Telling,
             r.op \in Controls, Told[t] = Granted[r.op],
             t = "BindReturn" => from = "unbound"
      PROVE  OK(Step(q, from, Granted[r.op], t))
  <2> DEFINE to == Granted[r.op]
             next == [q EXCEPT !.state = to]
             A == {Answer(next, <<Pdu(t, "positive")>>)}
             B == {Answer(q, <<Pdu(t, "negative")>>)}
  <2>1. to \in States
    BY <1>7 DEF Controls, Granted, States
  <2>2. next \in Providers /\ next.state = to
    BY <2>1, ProviderTypes
  <2>3. Step(q, from, to, t) = IF q.state # from THEN ProtocolError(q) ELSE A \cup B
    BY DEF Step
  <2>. HIDE DEF next
  <2>4. ASSUME q.state = from PROVE OK(A)
    BY <1>3, <1>7, <2>2, <2>4 DEF OK, AnswerFits
  <2>5. OK(B)
    BY <1>5
  <2>. HIDE DEF A, B
  <2>6. QED  BY <1>1, <1>6, <2>3, <2>4, <2>5
<1>8. ASSUME r.op = "bind" PROVE OK(OnBind(p))
  <2> DEFINE A == Step(p, "unbound", "ready", "BindReturn")
             q == [p EXCEPT !.state = "ready"]
             B == {Answer(q, <<Pdu("BindReturn", "stranger")>>)}
  <2>1. OK(A)
    BY <1>7, <1>8 DEF Telling, Told, Controls, Granted, States
  <2>2. q \in Providers
    BY ProviderTypes DEF States
  <2>3. OnBind(p) = A \cup (IF p.state = "unbound" THEN B ELSE {})
    BY DEF OnBind
  <2>. HIDE DEF q
  <2>4. OK(B)
    BY <1>5, <2>2
  <2>5. OK({})
    BY DEF OK
  <2>. HIDE DEF A, B
  <2>6. QED  BY <1>1, <2>1, <2>3, <2>4, <2>5
<1>9. ASSUME r.op = "start" PROVE OK(OnStart(p, r))
  <2> DEFINE q == [p EXCEPT !.nextCltu = r.n, !.refused = FALSE, !.outOfSequence = FALSE]
  <2>1. q \in Providers /\ q.state = p.state
    BY ProviderTypes DEF Requests
  <2>2. OnStart(p, r) = Step(q, "ready", "active", "StartReturn")
    BY DEF OnStart
  <2>. HIDE DEF q
  <2>3. QED  BY <1>7, <1>9, <2>1, <2>2 DEF Telling, Told, Controls, Granted, States
<1>10. ASSUME r.op = "stop" PROVE OK(Step(p, "active", "ready", "StopReturn"))
  BY <1>7, <1>10 DEF Telling, Told, Controls, Granted, States
<1>11. ASSUME r.op = "unbind" PROVE OK(OnUnbind(p))
  <2> DEFINE q == [p EXCEPT !.state = "unbound"]
             A == {Answer(q, <<Pdu("UnbindReturn", "positive")>>)}
             B == {Answer(q, <<Pdu("UnbindReturn", "negative")>>)}
  <2>1. q \in Providers /\ q.state = "unbound"
    BY ProviderTypes DEF States
  <2>2. OnUnbind(p) = IF p.state # "ready" THEN ProtocolError(p) ELSE A \cup B
    BY DEF OnUnbind
  <2>. HIDE DEF q
  <2>3. OK(A)
    BY <1>3, <1>11, <2>1 DEF OK, AnswerFits, Telling, Told, Controls, Granted
  <2>4. OK(B)
    BY <1>5, <2>1
  <2>. HIDE DEF A, B
  <2>5. QED  BY <1>1, <1>6, <2>2, <2>3, <2>4
<1>12. ASSUME r.op = "transfer" PROVE OK(OnTransfer(p, r))
  <2> DEFINE q1 == [p EXCEPT !.outOfSequence = TRUE]
             n  == p.nextCltu + 1
             q2 == [p EXCEPT !.nextCltu = n]
             q3 == [p EXCEPT !.refused = TRUE]
             both == <<Pdu("TransferReturn", "positive"), Pdu("AsyncNotify", "radiated")>>
             A == {Answer(q1, <<Pdu("TransferReturn", "specific")>>)}
             B == {Answer(q2, both)}
             C == {Answer(q3, <<Pdu("TransferReturn", "common")>>)}
             D == {Answer(q3, <<Pdu("TransferReturn", "specific")>>)}
  <2>1. n \in Nat
    BY DEF Providers
  <2>2. q1 \in Providers /\ q2 \in Providers /\ q2.state = p.state /\ q3 \in Providers
    BY <2>1, ProviderTypes
  <2>3. OnTransfer(p, r) = IF p.state # "active" THEN ProtocolError(p)
                           ELSE IF r.n # p.nextCltu THEN A ELSE B \cup C \cup D
    BY DEF OnTransfer
  <2>. HIDE DEF q1, q2, q3, n
  <2>4. OK(A) /\ OK(C) /\ OK(D)
    BY <1>5, <2>2
  <2>5. OK(B)
    BY <1>12, <2>2 DEF OK, AnswerFits, Answer
  <2>. HIDE DEF A, B, C, D
  <2>6. QED  BY <1>1, <1>6, <2>3, <2>4, <2>5
<1>13. OK({Answer(Aborted(p), <<>>)})
  <2>1. ~Grants(Answer(Aborted(p), <<>>))
    BY DEF Grants, Answer
  <2>2. QED  BY <1>2, <2>1, ProviderTypes
<1>14. OK(Answers(p, r, {"known"}))
  BY <1>8, <1>9, <1>10, <1>11, <1>12, <1>13 DEF Answers, Requests, Ops
<1>15. QED  BY <1>14 DEF OK

\* What a service does with a return that fits its state: it learns the state the
\* return tells, and keeps its connection and what it sent.
Learns(s, t, pdu) ==
  /\ t.socket = s.socket /\ t.wire = s.wire
  /\ t.state = IF pdu.type \in Telling THEN Told[pdu.type] ELSE s.state

\* A service whose state alone is set, to what the return tells, has learnt it.
LEMMA Learnt ==
  ASSUME NEW s \in Services, NEW pdu, pdu.type \in Telling
  PROVE  Learns(s, [s EXCEPT !.state = Told[pdu.type]], pdu)
<1> DEFINE v == Told[pdu.type]
<1>1. /\ [s EXCEPT !.state = v].state = v
      /\ [s EXCEPT !.state = v].socket = s.socket
      /\ [s EXCEPT !.state = v].wire = s.wire
  BY DEF Services
<1>2. QED  BY <1>1 DEF Learns

\* What each return tells.
LEMMA ToldValues ==
  /\ Told["BindReturn"] = "ready" /\ Told["UnbindReturn"] = "unbound"
  /\ Told["StartReturn"] = "active" /\ Told["StopReturn"] = "ready"
BY DEF Told

\* A service of RAF learns the state a return tells.
LEMMA RafLearns ==
  ASSUME NEW s \in Services, s.raised = "none", NEW pdu, pdu.type \in Telling,
         ReturnFits(pdu, s.state, Told[pdu.type])
  PROVE  Learns(s, RAF!handle_pdu(s, pdu), pdu)
<1>1. pdu.result = "positive" /\ s.auth_level = "none"
  BY DEF ReturnFits, Services
<1>2. CASE pdu.type = "BindReturn"
  <2>1. RAF!handle_pdu(s, pdu) = RAF!bind_return_handler(s, pdu)
    BY <1>2 DEF RAF!handle_pdu
  <2>2. s.state = "unbound"
    BY <1>2 DEF ReturnFits
  <2>3. RAF!bind_return_handler(s, pdu) = [s EXCEPT !.state = "ready"]
    BY <1>1, <2>2 DEF RAF!bind_return_handler, RAF!NoError
  <2>4. QED  BY <1>2, <2>1, <2>3, Learnt, ToldValues
<1>3. CASE pdu.type = "UnbindReturn"
  <2>1. RAF!handle_pdu(s, pdu) = RAF!unbind_return_handler(s, pdu)
    BY <1>3 DEF RAF!handle_pdu
  <2>2. QED  BY <1>3, <2>1, Learnt, ToldValues DEF RAF!unbind_return_handler
<1>4. CASE pdu.type = "StartReturn"
  <2>1. RAF!handle_pdu(s, pdu) = RAF!start_return_handler(s, pdu)
    BY <1>4 DEF RAF!handle_pdu
  <2>2. QED  BY <1>1, <1>4, <2>1, Learnt, ToldValues DEF RAF!start_return_handler
<1>5. CASE pdu.type = "StopReturn"
  <2>1. RAF!handle_pdu(s, pdu) = RAF!stop_return_handler(s, pdu)
    BY <1>5 DEF RAF!handle_pdu
  <2>2. QED  BY <1>1, <1>5, <2>1, Learnt, ToldValues DEF RAF!stop_return_handler
<1>6. QED  BY <1>2, <1>3, <1>4, <1>5 DEF Telling

\* So does one of RCF.
LEMMA RcfLearns ==
  ASSUME NEW s \in Services, s.raised = "none", NEW pdu, pdu.type \in Telling,
         ReturnFits(pdu, s.state, Told[pdu.type])
  PROVE  Learns(s, RCF!handle_pdu(s, pdu), pdu)
<1>1. pdu.result = "positive" /\ s.auth_level = "none"
  BY DEF ReturnFits, Services
<1>2. CASE pdu.type = "BindReturn"
  <2>1. RCF!handle_pdu(s, pdu) = RCF!bind_return_handler(s, pdu)
    BY <1>2 DEF RCF!handle_pdu
  <2>2. s.state = "unbound"
    BY <1>2 DEF ReturnFits
  <2>3. RCF!bind_return_handler(s, pdu) = [s EXCEPT !.state = "ready"]
    BY <1>1, <2>2 DEF RCF!bind_return_handler, RCF!NoError
  <2>4. QED  BY <1>2, <2>1, <2>3, Learnt, ToldValues
<1>3. CASE pdu.type = "UnbindReturn"
  <2>1. RCF!handle_pdu(s, pdu) = RCF!unbind_return_handler(s, pdu)
    BY <1>3 DEF RCF!handle_pdu
  <2>2. QED  BY <1>3, <2>1, Learnt, ToldValues DEF RCF!unbind_return_handler
<1>4. CASE pdu.type = "StartReturn"
  <2>1. RCF!handle_pdu(s, pdu) = RCF!start_return_handler(s, pdu)
    BY <1>4 DEF RCF!handle_pdu
  <2>2. QED  BY <1>1, <1>4, <2>1, Learnt, ToldValues DEF RCF!start_return_handler
<1>5. CASE pdu.type = "StopReturn"
  <2>1. RCF!handle_pdu(s, pdu) = RCF!stop_return_handler(s, pdu)
    BY <1>5 DEF RCF!handle_pdu
  <2>2. QED  BY <1>1, <1>5, <2>1, Learnt, ToldValues DEF RCF!stop_return_handler
<1>6. QED  BY <1>2, <1>3, <1>4, <1>5 DEF Telling

\* So does one of CLTU.
LEMMA CltuLearns ==
  ASSUME NEW s \in Services, s.raised = "none", NEW pdu, pdu.type \in Telling,
         ReturnFits(pdu, s.state, Told[pdu.type])
  PROVE  Learns(s, CLTU!handle_pdu(s, pdu), pdu)
<1>1. pdu.result = "positive" /\ s.auth_level = "none"
  BY DEF ReturnFits, Services
<1>2. CASE pdu.type = "BindReturn"
  <2>1. CLTU!handle_pdu(s, pdu) = CLTU!bind_return_handler(s, pdu)
    BY <1>2 DEF CLTU!handle_pdu
  <2>2. s.state = "unbound"
    BY <1>2 DEF ReturnFits
  <2>3. CLTU!bind_return_handler(s, pdu) = [s EXCEPT !.state = "ready"]
    BY <1>1, <2>2 DEF CLTU!bind_return_handler, CLTU!NoError
  <2>4. QED  BY <1>2, <2>1, <2>3, Learnt, ToldValues
<1>3. CASE pdu.type = "UnbindReturn"
  <2>1. CLTU!handle_pdu(s, pdu) = CLTU!unbind_return_handler(s, pdu)
    BY <1>3 DEF CLTU!handle_pdu
  <2>2. QED  BY <1>3, <2>1, Learnt, ToldValues DEF CLTU!unbind_return_handler
<1>4. CASE pdu.type = "StartReturn"
  <2>1. CLTU!handle_pdu(s, pdu) = CLTU!start_return_handler(s, pdu)
    BY <1>4 DEF CLTU!handle_pdu
  <2>2. QED  BY <1>1, <1>4, <2>1, Learnt, ToldValues DEF CLTU!start_return_handler
<1>5. CASE pdu.type = "StopReturn"
  <2>1. CLTU!handle_pdu(s, pdu) = CLTU!stop_return_handler(s, pdu)
    BY <1>5 DEF CLTU!handle_pdu
  <2>2. QED  BY <1>1, <1>5, <2>1, Learnt, ToldValues DEF CLTU!stop_return_handler
<1>6. QED  BY <1>2, <1>3, <1>4, <1>5 DEF Telling

\* A PDU that tells no state, and is no abort, leaves the state and the connection alone.
LEMMA OthersTellNothing ==
  ASSUME NEW s \in Services, NEW pdu \in Pdus, pdu.type \notin Telling, pdu.type # "PeerAbort"
  PROVE  Learns(s, handle_pdu(s, pdu), pdu)
<1>1. pdu.type \in {"TransferReturn", "AsyncNotify"}
  BY DEF Pdus, Types, Telling
<1>2. \A e \in Errors : /\ [s EXCEPT !.raised = e].socket = s.socket
                        /\ [s EXCEPT !.raised = e].wire = s.wire
                        /\ [s EXCEPT !.raised = e].state = s.state
  BY DEF Services
<1>3. CASE s.kind = "raf"
  BY <1>1, <1>3 DEF handle_pdu, RAF!handle_pdu, Learns, Telling
<1>4. CASE s.kind = "rcf"
  BY <1>1, <1>4 DEF handle_pdu, RCF!handle_pdu, Learns, Telling
<1>5. CASE s.kind = "cltu"
  <2>1. /\ CLTU!handle_pdu(s, pdu) \in {s, [s EXCEPT !.raised = "PyAsn1Error"]}
    BY <1>1 DEF CLTU!handle_pdu, CLTU!trans_data_return_handler, CLTU!async_notify_invoc_handler,
                CLTU!Raise
  <2>2. handle_pdu(s, pdu) = CLTU!handle_pdu(s, pdu)
    BY <1>5 DEF handle_pdu
  <2> DEFINE t == handle_pdu(s, pdu)
             x == [s EXCEPT !.raised = "PyAsn1Error"]
  <2>3. x.socket = s.socket /\ x.wire = s.wire /\ x.state = s.state
    BY <1>2 DEF Errors
  <2>4. t \in {s, x}
    BY <2>1, <2>2
  <2>. HIDE DEF t, x
  <2>5. t.socket = s.socket /\ t.wire = s.wire /\ t.state = s.state
    BY <2>3, <2>4
  <2>6. Learns(s, t, pdu)
    BY <2>5 DEF Learns
  <2>7. QED  BY <2>6 DEF t
<1>6. QED  BY <1>3, <1>4, <1>5 DEF Services

\* A greenlet that handles a return that fits learns its state, whatever is raised.
LEMMA GreenletLearns ==
  ASSUME NEW s, Resting(s), NEW pdu \in Pdus, NEW c \in States, ReturnFits(pdu, s.state, c)
  PROVE  LET t == S!AfterHandler(handle_pdu(s, pdu))
         IN  t.socket = s.socket /\ t.wire = s.wire /\ t.state = c
<1> DEFINE u == handle_pdu(s, pdu)
<1>1. s \in Services /\ s.raised = "none" /\ PduOK(pdu)
  BY DEF Resting, Pdus
<1>2. u \in Services
  BY <1>1, RafHandlers, RcfHandlers, CltuHandlers DEF handle_pdu, Services
<1>3. Learns(s, u, pdu)
  <2>1. ASSUME pdu.type \in Telling PROVE Learns(s, u, pdu)
    <3>1. ReturnFits(pdu, s.state, Told[pdu.type])
      BY <2>1 DEF ReturnFits
    <3>2. s.kind \in {"raf", "rcf", "cltu"}
      BY <1>1 DEF Services
    <3>3. QED  BY <1>1, <2>1, <3>1, <3>2, RafLearns, RcfLearns, CltuLearns DEF handle_pdu
  <2>2. ASSUME pdu.type \notin Telling PROVE Learns(s, u, pdu)
    BY <1>1, <2>2, OthersTellNothing DEF ReturnFits
  <2>3. QED  BY <2>1, <2>2
<1>4. u.socket = s.socket /\ u.wire = s.wire /\ u.state = c
  BY <1>3 DEF Learns, ReturnFits
<1>. HIDE DEF u
<1>5. /\ S!AfterHandler(u).socket = u.socket /\ S!AfterHandler(u).wire = u.wire
      /\ S!AfterHandler(u).state = u.state
  BY <1>2 DEF S!AfterHandler, S!Handled, Services
<1>6. QED  BY <1>4, <1>5 DEF u

----------------------------------------------------------------------------
(* What keeps a service tracked. *)

\* A request leaves on an open connection; on one that was never opened, or was closed,
\* an exception is raised and nothing changes.
LEMMA SendEffect ==
  ASSUME NEW s, Resting(s), NEW r \in Requests, s.socket \in {"none", "closed", "open"}
  PROVE  LET t == S!Handled(S!send(s, r))
         IN  /\ t.socket = s.socket /\ t.state = s.state
             /\ s.socket = "open" => S!send(s, r).raised = "none" /\ t.wire = Append(s.wire, r)
             /\ s.socket # "open" => S!send(s, r).raised # "none" /\ t.wire = s.wire
<1> DEFINE u == S!send(s, r)
           t == S!Handled(u)
<1>1. s \in Services /\ s.raised = "none"
  BY DEF Resting
<1>2. CASE s.socket = "open"
  <2> DEFINE w == Append(s.wire, r)
  <2>1. u = [s EXCEPT !.wire = w]
    BY <1>1, <1>2 DEF S!send, Services
  <2>. HIDE DEF w, u
  <2>2. /\ u.socket = s.socket /\ u.state = s.state /\ u.wire = w /\ u.raised = "none"
        /\ t.socket = u.socket /\ t.state = u.state /\ t.wire = u.wire
    BY <1>1, <2>1 DEF S!Handled, Services
  <2>3. QED  BY <1>2, <2>2 DEF w, u
<1>3. CASE s.socket \in {"none", "closed"}
  <2>1. PICK e \in {"ValueError", "AttributeError"} : u = [s EXCEPT !.raised = e]
    BY <1>3 DEF S!send, S!Raise
  <2>. HIDE DEF u
  <2>2. /\ u.socket = s.socket /\ u.state = s.state /\ u.wire = s.wire /\ u.raised # "none"
        /\ t.socket = u.socket /\ t.state = u.state /\ t.wire = u.wire
    BY <1>1, <2>1 DEF S!Handled, Services
  <2>3. QED  BY <1>3, <2>2 DEF u
<1>4. QED  BY <1>2, <1>3

\* A command that is prepared changes nothing of the connection.
LEMMA PreparedEffect ==
  ASSUME NEW i \in Infos
  PROVE  LET up == Uploading(i)
         IN  /\ up.info.service.socket = i.service.socket
             /\ up.info.service.wire = i.service.wire
             /\ up.info.service.state = i.service.state
             /\ up.info.state = i.state
             /\ up.slot.op = "upload" /\ up.slot.pdu.op = "transfer"
<1> DEFINE s == i.service
           k == s.cltu_id + 1
<1>1. s \in Services
  BY DEF Infos, Resting
<1>2. CLTU!prepare_cltu_pdu(s).service = [s EXCEPT !.cltu_id = k]
      /\ CLTU!prepare_cltu_pdu(s).pdu.op = "transfer"
  BY DEF CLTU!prepare_cltu_pdu
<1>. HIDE DEF k
<1> DEFINE t == [s EXCEPT !.cltu_id = k]
<1>3. t.socket = s.socket /\ t.wire = s.wire /\ t.state = s.state
  BY <1>1 DEF Services
<1>4. /\ Uploading(i).info = [i EXCEPT !.service = t]
      /\ Uploading(i).slot.op = "upload" /\ Uploading(i).slot.pdu.op = "transfer"
  BY <1>2 DEF Uploading
<1>. HIDE DEF t
<1>5. [i EXCEPT !.service = t].service = t /\ [i EXCEPT !.service = t].state = i.state
  BY DEF Infos
<1>6. QED  BY <1>3, <1>4, <1>5

\* A service whose connection, state and requests stay as they are; a connection that is
\* not open may be marked as closed or as none.
SameLink(n) ==
  LET s == info[n].service
      t == info'[n].service
  IN  /\ info'[n].state = info[n].state
      /\ t.state = s.state /\ t.wire = s.wire
      /\ t.socket = s.socket \/ (s.socket # "open" /\ t.socket \in {"none", "closed"})

\* The services, and what they may read, stay the same.
LEMMA SameNames ==
  ASSUME setup' = setup
  PROVE  Names' = Names /\ \A n : Returns(n)' = Returns(n)
BY DEF Names, Returns, Read

\* Such a service stays tracked.
LEMMA SameTracked ==
  ASSUME setup' = setup, NEW n \in Names, Tracked(n), SameLink(n), queue' = queue,
         provider'[n] = provider[n]
  PROVE  Tracked(n)'
<1>1. Returns(n)' = Returns(n)
  BY SameNames
<1>2. QED  BY <1>1 DEF Tracked, SameLink, Asks, Granted, StateOf

\* A step that changes no connection leaves the manager's states and the services' as
\* they were to each other.
LEMMA SameLinks ==
  ASSUME AgreeInv, setup' = setup, provider' = provider, queue' = queue,
         happened \subseteq happened', \A n \in Names : SameLink(n), SlotInv', SlotOK',
         \A c \in Clients : slot'[c].op = "connect" =>
           slot'[c] = slot[c] \/ info[slot'[c].name].state = "DISCONNECTED"
  PROVE  AgreeInv'
<1>1. Names' = Names
  BY SameNames
<1>2. ProviderOK'
  BY <1>1 DEF AgreeInv, ProviderOK
<1>3. TrackInv'
  <2> SUFFICES ASSUME happened' \cap Failures = {}
               PROVE  Connecting' /\ \A n \in Names : Tracked(n)'
    BY <1>1 DEF TrackInv
  <2>1. Connecting /\ \A n \in Names : Tracked(n)
    BY DEF AgreeInv, TrackInv
  <2>2. Connecting'
    <3>1. \A c \in Clients : slot'[c].op = "connect" => slot'[c].name \in Names
      BY <1>1 DEF SlotOK, Slots, NoRequest
    <3>2. QED  BY <2>1, <3>1 DEF Connecting, SameLink
  <2>3. QED  BY <2>1, <2>2, SameTracked
<1>4. QED  BY <1>2, <1>3 DEF AgreeInv

----------------------------------------------------------------------------
(* The steps. *)

\* What every step may use: the types of what it looks at.
LEMMA Typed ==
  ASSUME Inv
  PROVE  /\ info \in [Names -> Infos] /\ slot \in [Clients -> Slots] /\ queue \in Seq(Read)
         /\ \A n \in Names : info[n] \in Infos /\ Resting(info[n].service)
                             /\ info[n].service \in Services
BY DEF Inv, TypeInv, InfoOK, SlotOK, QueueOK, Read, Infos, Resting

\* The state of a service that is tracked, when nothing of it is on the wire.
LEMMA IdleProvider ==
  ASSUME NEW n \in Names, Tracked(n), info[n].service.wire = <<>>
  PROVE  provider[n].state = StateOf[info[n].state]
BY EmptyPath DEF Tracked

\* A disconnect closes a connection on which every request was answered, or the manager
\* may lose track.
LEMMA DisconnectAgrees ==
  ASSUME Inv, AgreeInv, NEW n \in Names, disconnect_handler(n), info[n].state = "CONNECTED",
         setup' = setup
  PROVE  AgreeInv'
<1> DEFINE s == info[n].service
           t == S!Handled(S!disconnect(s))
           i == [info[n] EXCEPT !.service = t, !.state = "DISCONNECTED"]
<1>1. Names' = Names
  BY SameNames
<1>2. info \in [Names -> Infos] /\ info[n] \in Infos /\ s \in Services
  BY Typed
<1>3. /\ info' = [info EXCEPT ![n] = i]
      /\ provider' = [provider EXCEPT ![n] = Aborted(provider[n])]
      /\ slot' = slot /\ queue' = queue
      /\ happened' = IF Answered(n) THEN happened ELSE happened \cup {"unanswered"}
  BY DEF disconnect_handler, After
<1>4. provider \in [Names -> Providers] /\ Aborted(provider[n]) \in Providers
      /\ Aborted(provider[n]).state = "unbound"
  BY ProviderTypes DEF AgreeInv, ProviderOK
<1>5. ProviderOK'
  BY <1>1, <1>3, <1>4 DEF ProviderOK
<1>6. SlotInv'
  BY <1>3 DEF AgreeInv, SlotInv
<1>7. i.state = "DISCONNECTED" /\ i.service = t
  <2>. HIDE DEF t
  <2>1. QED  BY <1>2 DEF Infos
<1>8. TrackInv'
  <2> SUFFICES ASSUME happened' \cap Failures = {}
               PROVE  Connecting' /\ \A m \in Names : Tracked(m)'
    BY <1>1 DEF TrackInv
  <2>1. Answered(n) /\ Connecting /\ \A m \in Names : Tracked(m)
    BY <1>3 DEF AgreeInv, TrackInv, Failures
  <2>2. s.socket = "open" /\ s.wire = <<>>
    BY <2>1 DEF Tracked, Answered
  <2>3. t.socket = "closed" /\ t.wire = s.wire /\ t.state = s.state
    <3> DEFINE a == S!Less(s.monitor)
               b == S!Less(s.processor)
               u == [s EXCEPT !.socket = "closed", !.telem = "closed", !.monitor = a, !.processor = b]
    <3>1. S!disconnect(s) = u
      BY <2>2 DEF S!disconnect
    <3>. HIDE DEF a, b
    <3>2. t = [u EXCEPT !.raised = "none"]
      BY <3>1 DEF S!Handled, S!NoError
    <3>3. QED  BY <1>2, <3>2 DEF Services
  <2>4. provider[n].state = "unbound"
    BY <2>1, <2>2, IdleProvider DEF StateOf
  <2>. HIDE DEF i, t
  <2>5. info'[n] = i /\ provider'[n] = Aborted(provider[n])
        /\ \A m \in Names \ {n} : info'[m] = info[m] /\ provider'[m] = provider[m]
    BY <1>2, <1>3, <1>4
  <2>6. Tracked(n)'
    <3>1. Returns(n)' = Returns(n)
      BY SameNames
    <3>2. Path(Asks, <<>>, "unbound", "unbound") /\ StateOf["DISCONNECTED"] = "unbound"
      BY EmptyPath DEF States, StateOf
    <3>3. Path(Returns(n), queue, s.state, "unbound")
      BY <2>1, <2>4 DEF Tracked
    <3>4. /\ info'[n].service.socket = "closed" /\ info'[n].service.wire = <<>>
          /\ info'[n].service.state = s.state /\ info'[n].state = "DISCONNECTED"
          /\ provider'[n].state = "unbound"
      BY <1>4, <1>7, <2>2, <2>3, <2>5
    <3>5. QED  BY <1>3, <3>1, <3>2, <3>3, <3>4 DEF Tracked, Asks, Granted, StateOf
  <2>7. \A m \in Names \ {n} : Tracked(m)'
    BY <1>3, <2>1, <2>5, SameTracked DEF SameLink
  <2>8. Connecting'
    BY <1>3, <1>7, <2>1, <2>5, Typed DEF Connecting, Slots, NoRequest
  <2>9. QED  BY <2>6, <2>7, <2>8
<1>9. QED  BY <1>5, <1>6, <1>8 DEF AgreeInv

\* The request that a service prepares is the one it was asked for.
LEMMA RequestOp ==
  ASSUME NEW s \in Services, NEW op \in Controls
  PROVE  PduOf(s, op).op = op
<1> DEFINE open == [[s EXCEPT !.socket = "open"] EXCEPT !.wire = <<>>]
<1>1. open \in Services /\ open.socket = "open" /\ open.wire = <<>>
  <2>1. [s EXCEPT !.socket = "open"] \in Services /\ [s EXCEPT !.socket = "open"].socket = "open"
    BY DEF Services, Sockets
  <2>2. <<>> \in Seq(Requests)
    BY EmptySeq
  <2>3. QED  BY <2>1, <2>2 DEF Services
<1>2. open = [s EXCEPT !.socket = "open", !.wire = <<>>] /\ open.cltu_id \in Nat
  BY DEF Services
<1>. HIDE DEF open
<1>3. \A r \in Requests : S!send(open, r).wire[1] = r
  BY <1>1, SendType
<1>4. \A o \in Ops, n \in Nat : [op |-> o, n |-> n] \in Requests /\ [op |-> o, n |-> n].op = o
  BY DEF Requests
<1>5. CASE op = "bind"
  BY <1>2, <1>3, <1>4, <1>5 DEF PduOf, S!common_bind, S!Request, Ops
<1>6. CASE op = "unbind"
  BY <1>2, <1>3, <1>4, <1>6 DEF PduOf, S!common_unbind, S!Request, Ops
<1>7. CASE op = "stop"
  BY <1>2, <1>3, <1>4, <1>7 DEF PduOf, S!common_stop, S!Request, Ops
<1>8. CASE op = "start"
  BY <1>2, <1>3, <1>4, <1>8, SameSend DEF PduOf, CLTU!start, RAF!start, RAF!Request, Ops
<1>9. QED  BY <1>5, <1>6, <1>7, <1>8 DEF Controls

\* A request that a handler begins.
LEMMA BeginAgrees ==
  ASSUME Inv, Inv', AgreeInv, NEW c \in Clients, NEW op, NEW n \in Names, Begin(c, op, n),
         setup' = setup
  PROVE  AgreeInv'
<1>1. info \in [Names -> Infos] /\ slot \in [Clients -> Slots] /\ info[n] \in Infos
      /\ info[n].service \in Services /\ SlotOK'
  BY Typed DEF Inv, TypeInv
<1>2. SlotInv
  BY DEF AgreeInv
<1>3. CASE BeginUpload(c, n)
  <2> DEFINE u == Uploading(info[n])
  <2>1. /\ slot' = [slot EXCEPT ![c] = u.slot]
        /\ info' = [info EXCEPT ![n] = u.info]
        /\ queue' = queue /\ provider' = provider
        /\ happened \subseteq happened'
    BY <1>3 DEF BeginUpload, links
  <2>2. /\ u.info.service.socket = info[n].service.socket
        /\ u.info.service.wire = info[n].service.wire
        /\ u.info.service.state = info[n].service.state
        /\ u.info.state = info[n].state
        /\ u.slot.op = "upload" /\ u.slot.pdu.op = "transfer"
    BY <1>1, PreparedEffect
  <2>. HIDE DEF u
  <2>3. \A m \in Names : SameLink(m)
    BY <1>1, <2>1, <2>2 DEF SameLink
  <2>4. slot'[c] = u.slot /\ \A d \in Clients \ {c} : slot'[d] = slot[d]
    BY <1>1, <2>1
  <2>5. SlotInv'
    BY <1>2, <2>2, <2>4 DEF SlotInv, Controls
  <2>6. QED  BY <1>1, <2>1, <2>2, <2>3, <2>4, <2>5, SameLinks
<1>4. CASE op = "disconnect" /\ info[n].state = Legal[op] /\ disconnect_handler(n)
  <2>1. info[n].state = "CONNECTED"
    BY <1>4 DEF Legal
  <2>2. QED  BY <1>4, <2>1, DisconnectAgrees
<1>5. ASSUME op = "connect", info[n].state = Legal[op], ~Overlaps(c, op),
             slot' = [slot EXCEPT ![c] = [op |-> op, name |-> n]],
             UNCHANGED <<info, happened, links>>
      PROVE  AgreeInv'
  <2>1. slot'[c].op = "connect" /\ slot'[c].name = n
        /\ \A d \in Clients \ {c} : slot'[d] = slot[d] /\ slot[d].op # "connect"
    BY <1>1, <1>5 DEF Overlaps
  <2>2. SlotInv'
    BY <1>2, <2>1 DEF SlotInv, Controls
  <2>3. info[n].state = "DISCONNECTED"
    BY <1>5 DEF Legal
  <2>4. queue' = queue /\ provider' = provider /\ happened \subseteq happened'
        /\ \A m \in Names : SameLink(m)
    BY <1>5 DEF links, SameLink
  <2>5. QED  BY <1>1, <2>1, <2>2, <2>3, <2>4, SameLinks
<1>6. ASSUME op \in Controls,
             slot' = [slot EXCEPT ![c] = [op |-> op, name |-> n, pdu |-> PduOf(info[n].service, op)]],
             UNCHANGED <<info, happened, links>>
      PROVE  AgreeInv'
  <2> DEFINE r == PduOf(info[n].service, op)
  <2>1. r.op = op
    BY <1>1, <1>6, RequestOp
  <2>. HIDE DEF r
  <2>2. slot'[c].op = op /\ slot'[c].pdu = r /\ \A d \in Clients \ {c} : slot'[d] = slot[d]
    BY <1>1, <1>6 DEF r
  <2>3. SlotInv'
    BY <1>2, <1>6, <2>1, <2>2 DEF SlotInv, Controls
  <2>4. queue' = queue /\ provider' = provider /\ happened \subseteq happened'
        /\ \A m \in Names : SameLink(m)
    BY <1>6 DEF links, SameLink
  <2>5. QED  BY <1>1, <1>6, <2>2, <2>3, <2>4, SameLinks DEF Controls
<1>7. QED  BY <1>3, <1>4, <1>5, <1>6 DEF Begin, Controls

\* The states of the manager are states of a provider.
LEMMA StateOfType ==
  \A x \in {"DISCONNECTED", "CONNECTED", "BOUND", "STARTED"} : StateOf[x] \in States
BY DEF StateOf, States

\* What sending r does to service n: the request is on the wire and the manager's state
\* the one it asks for, or the connection is not open and nothing changes.
Sends(n, r) ==
  LET s == info[n].service
      t == info'[n].service
  IN  /\ s.socket = "open" =>
           /\ t.socket = "open" /\ t.state = s.state /\ t.wire = Append(s.wire, r)
           /\ info'[n].state # "DISCONNECTED"
           /\ <<r, StateOf[info[n].state], StateOf[info'[n].state]>> \in Asks
      /\ s.socket # "open" => SameLink(n)

\* A request that is sent, or raises an exception, keeps the agreement.
LEMMA SentAgrees ==
  ASSUME Inv, Inv', AgreeInv, setup' = setup, provider' = provider, queue' = queue,
         happened \subseteq happened', SlotInv',
         \A c \in Clients : slot'[c].op = "connect" => slot'[c] = slot[c],
         NEW n \in Names, NEW r \in Requests, Tracked(n) => Sends(n, r),
         \A m \in Names \ {n} : SameLink(m)
  PROVE  AgreeInv'
<1>1. Names' = Names /\ Returns(n)' = Returns(n)
  BY SameNames
<1>2. ProviderOK'
  BY <1>1 DEF AgreeInv, ProviderOK
<1>3. /\ info[n].service.wire \in Seq(Requests)
      /\ info[n].state \in {"DISCONNECTED", "CONNECTED", "BOUND", "STARTED"}
      /\ info'[n].state \in {"DISCONNECTED", "CONNECTED", "BOUND", "STARTED"}
  BY <1>1, Typed DEF Inv, TypeInv, InfoOK, Infos, Services
<1>4. TrackInv'
  <2> SUFFICES ASSUME happened' \cap Failures = {}
               PROVE  Connecting' /\ \A m \in Names : Tracked(m)'
    BY <1>1 DEF TrackInv
  <2>1. Connecting /\ \A m \in Names : Tracked(m)
    BY DEF AgreeInv, TrackInv
  <2>2. ASSUME info[n].service.socket = "open" PROVE Tracked(n)'
    <3>1. Tracked(n) /\ Sends(n, r)
      BY <2>1
    <3> DEFINE w  == info[n].service.wire
               q  == provider[n].state
               x  == StateOf[info[n].state]
               x1 == StateOf[info'[n].state]
               longer == Append(w, r)
    <3>2. Path(Asks, w, q, x) /\ <<r, x, x1>> \in Asks /\ x1 \in States
      BY <1>3, <2>2, <3>1, StateOfType DEF Tracked, Sends
    <3>3. Path(Asks, longer, q, x1)
      <4>1. w \in Seq(Requests)
        BY <1>3
      <4>. HIDE DEF w, q, x, x1
      <4>2. QED  BY <3>2, <4>1, LongerPath
    <3>4. /\ info'[n].service.socket = "open" /\ info'[n].state # "DISCONNECTED"
          /\ info'[n].service.wire = longer /\ info'[n].service.state = info[n].service.state
      BY <2>2, <3>1 DEF Sends
    <3>5. Path(Returns(n), queue, info[n].service.state, q)
      BY <3>1 DEF Tracked
    <3>. HIDE DEF longer
    <3>6. QED  BY <1>1, <3>3, <3>4, <3>5 DEF Tracked, Asks, Granted, StateOf
  <2>3. ASSUME info[n].service.socket # "open" PROVE Tracked(n)'
    BY <2>1, <2>3, SameTracked DEF Sends
  <2>4. \A m \in Names \ {n} : Tracked(m)'
    BY <2>1, SameTracked
  <2>5. Connecting'
    <3>1. ASSUME NEW c \in Clients, slot'[c].op = "connect"
          PROVE  info'[slot'[c].name].state = "DISCONNECTED"
      <4> DEFINE m == slot[c].name
      <4>1. slot'[c] = slot[c] /\ m \in Names
        BY <3>1, Typed DEF Slots, NoRequest
      <4>2. info[m].state = "DISCONNECTED"
        BY <2>1, <3>1, <4>1 DEF Connecting
      <4>3. SameLink(m)
        BY <2>1, <4>1, <4>2 DEF Tracked, Sends
      <4>4. QED  BY <4>1, <4>2, <4>3 DEF SameLink
    <3>2. QED  BY <3>1 DEF Connecting
  <2>6. QED  BY <2>2, <2>3, <2>4, <2>5
<1>5. QED  BY <1>2, <1>4 DEF AgreeInv

\* A request that is sent, or raises.
LEMMA FinishRequestAgrees ==
  ASSUME Inv, Inv', AgreeInv, NEW c \in Clients, FinishRequest(c), setup' = setup
  PROVE  AgreeInv'
<1> DEFINE n    == slot[c].name
           r    == slot[c].pdu
           op   == slot[c].op
           s    == info[n].service
           done == S!send(s, r)
           t    == S!Handled(done)
           new  == [info[n] EXCEPT !.service = t]
           i    == IF done.raised = S!NoError THEN Handler(new, op) ELSE new
<1>1. info \in [Names -> Infos] /\ slot \in [Clients -> Slots]
  BY Typed
<1>2. n \in Names /\ r \in Requests /\ op \in Controls
  BY <1>1 DEF FinishRequest, Slots, NoRequest, Controls
<1>3. info[n] \in Infos /\ Resting(s) /\ s \in Services
  BY <1>2, Typed
<1>4. r.op = op
  BY <1>2 DEF AgreeInv, SlotInv
<1>5. /\ slot' = [slot EXCEPT ![c] = NoRequest]
      /\ info' = [info EXCEPT ![n] = i]
      /\ provider' = provider /\ queue' = queue /\ happened \subseteq happened'
  BY DEF FinishRequest, Swallowed, links
<1>6. Resting(t)
  BY <1>2, <1>3, SendType, HandledRests
<1>7. t \in {x \in Services : Resting(x)}
  BY <1>6 DEF Resting
<1>8. ASSUME Tracked(n) PROVE Sends(n, r)
  <2>1. s.socket \in {"none", "closed", "open"}
    BY <1>8 DEF Tracked
  <2>2. /\ t.socket = s.socket /\ t.state = s.state
        /\ s.socket = "open" => done.raised = "none" /\ t.wire = Append(s.wire, r)
        /\ s.socket # "open" => done.raised # "none" /\ t.wire = s.wire
    BY <1>2, <1>3, <2>1, SendEffect
  <2>. HIDE DEF done, t
  <2>3. new.service = t /\ new.state = info[n].state /\ new \in Infos
    BY <1>3, <1>7 DEF Infos
  <2>. HIDE DEF new
  <2>4. Handler(new, op).service = new.service /\ Handler(new, op).state = After[op]
    BY <1>2, <2>3 DEF Handler, bind_handler, start_handler, stop_handler, unbind_handler,
                      After, Infos, Controls
  <2>5. After[op] # "DISCONNECTED" /\ StateOf[After[op]] = Granted[op]
    BY <1>2 DEF After, StateOf, Granted, Controls
  <2>6. StateOf[info[n].state] \in States /\ Granted[op] \in States
    BY <1>2, <1>3, StateOfType DEF Infos, Granted, Controls, States
  <2>7. <<r, StateOf[info[n].state], Granted[op]>> \in Asks
    BY <1>2, <1>4, <2>6 DEF Asks, Controls
  <2>8. info'[n] = i
    BY <1>1, <1>2, <1>5
  <2>9. ASSUME s.socket = "open" PROVE Sends(n, r)
    <3>1. i.service = t /\ i.state = After[op]
      BY <2>2, <2>3, <2>4, <2>9 DEF S!NoError
    <3>. HIDE DEF i
    <3>2. QED  BY <2>2, <2>5, <2>7, <2>8, <2>9, <3>1 DEF Sends
  <2>10. ASSUME s.socket # "open" PROVE Sends(n, r)
    <3>1. i.service = t /\ i.state = info[n].state
      BY <2>2, <2>3, <2>10 DEF S!NoError
    <3>. HIDE DEF i
    <3>2. QED  BY <2>2, <2>8, <2>10, <3>1 DEF Sends, SameLink
  <2>11. QED  BY <2>9, <2>10
<1>. HIDE DEF i
<1>9. \A m \in Names \ {n} : SameLink(m)
  BY <1>1, <1>5 DEF SameLink
<1>10. SlotInv' /\ \A d \in Clients : slot'[d].op = "connect" => slot'[d] = slot[d]
  BY <1>1, <1>5 DEF AgreeInv, SlotInv, NoRequest, Controls
<1>. HIDE DEF n, r
<1>11. QED  BY <1>2, <1>5, <1>8, <1>9, <1>10, SentAgrees

\* A command that is sent, or raises; and the next one prepared.
LEMMA FinishUploadAgrees ==
  ASSUME Inv, Inv', AgreeInv, NEW c \in Clients, FinishUpload(c), setup' = setup
  PROVE  AgreeInv'
<1> DEFINE old  == info["cltu"]
           s    == old.service
           r    == slot[c].pdu
           done == S!send(s, r)
           t    == S!Handled(done)
           i    == [old EXCEPT !.service = t]
           left == DeleteFirst(i)
<1>1. info \in [Names -> Infos] /\ slot \in [Clients -> Slots]
  BY Typed
<1>2. "cltu" \in Names /\ r \in Requests /\ slot[c].op = "upload"
  BY <1>1 DEF FinishUpload, Slots, NoRequest
<1>3. old \in Infos /\ Resting(s) /\ s \in Services
  BY <1>2, Typed
<1>4. r.op = "transfer"
  BY <1>2 DEF AgreeInv, SlotInv
<1>5. Resting(t)
  BY <1>2, <1>3, SendType, HandledRests
<1>6. t \in {x \in Services : Resting(x)}
  BY <1>5 DEF Resting
<1>7. i.service = t /\ i.state = old.state /\ i.data = old.data /\ i \in Infos
  <2>. HIDE DEF t
  <2>1. QED  BY <1>3, <1>6 DEF Infos
<1>8. /\ provider' = provider /\ queue' = queue /\ happened \subseteq happened'
      /\ \/ /\ info' = [info EXCEPT !["cltu"] = i] /\ slot' = [slot EXCEPT ![c] = NoRequest]
         \/ /\ i.data # <<>>
            /\ info' = [info EXCEPT !["cltu"] = left] /\ slot' = [slot EXCEPT ![c] = NoRequest]
         \/ /\ i.data # <<>>
            /\ info' = [info EXCEPT !["cltu"] = Uploading(left).info]
            /\ slot' = [slot EXCEPT ![c] = Uploading(left).slot]
  BY DEF FinishUpload, AfterFailure, Swallowed, links
<1>. HIDE DEF i, done, t
\* Whatever becomes of the data, the connection is as the sending left it.
<1>9. ASSUME i.data # <<>>
      PROVE  left \in Infos /\ left.service = t /\ left.state = old.state
  <2>1. Tail(i.data) \in Seq(Nat)
    BY <1>7, <1>9, HeadTailProperties DEF Infos
  <2>2. QED  BY <1>7, <2>1 DEF DeleteFirst, Infos
<1>. HIDE DEF left
<1> DEFINE j == info'["cltu"]
<1>10. /\ j.state = old.state /\ j.service.socket = t.socket /\ j.service.wire = t.wire
       /\ j.service.state = t.state
       /\ slot'[c] = NoRequest \/ (slot'[c].op = "upload" /\ slot'[c].pdu.op = "transfer")
       /\ \A d \in Clients \ {c} : slot'[d] = slot[d]
       /\ \A m \in Names \ {"cltu"} : info'[m] = info[m]
  <2>1. CASE info' = [info EXCEPT !["cltu"] = i] /\ slot' = [slot EXCEPT ![c] = NoRequest]
    BY <1>1, <1>2, <1>7, <2>1
  <2>2. CASE /\ i.data # <<>>
             /\ info' = [info EXCEPT !["cltu"] = left] /\ slot' = [slot EXCEPT ![c] = NoRequest]
    BY <1>1, <1>2, <1>9, <2>2
  <2>3. CASE /\ i.data # <<>>
             /\ info' = [info EXCEPT !["cltu"] = Uploading(left).info]
             /\ slot' = [slot EXCEPT ![c] = Uploading(left).slot]
    BY <1>1, <1>2, <1>9, <2>3, PreparedEffect
  <2>4. QED  BY <1>8, <2>1, <2>2, <2>3
<1>. HIDE DEF j
<1>11. ASSUME Tracked("cltu") PROVE Sends("cltu", r)
  <2>1. s.socket \in {"none", "closed", "open"}
    BY <1>11 DEF Tracked
  <2>2. /\ t.socket = s.socket /\ t.state = s.state
        /\ s.socket = "open" => t.wire = Append(s.wire, r)
        /\ s.socket # "open" => t.wire = s.wire
    BY <1>2, <1>3, <2>1, SendEffect DEF t, done
  <2>3. StateOf[old.state] \in States
    BY <1>3, StateOfType DEF Infos
  <2>4. <<r, StateOf[old.state], StateOf[old.state]>> \in Asks
    BY <1>2, <1>4, <2>3 DEF Asks, Controls
  <2>5. ASSUME s.socket = "open" PROVE Sends("cltu", r)
    <3>1. old.state # "DISCONNECTED"
      BY <1>11, <2>5 DEF Tracked
    <3>2. QED  BY <1>10, <2>2, <2>4, <2>5, <3>1 DEF Sends, j
  <2>6. ASSUME s.socket # "open" PROVE Sends("cltu", r)
    BY <1>10, <2>2, <2>6 DEF Sends, SameLink, j
  <2>7. QED  BY <2>5, <2>6
<1>12. \A m \in Names \ {"cltu"} : SameLink(m)
  BY <1>10 DEF SameLink
<1>13. SlotInv' /\ \A d \in Clients : slot'[d].op = "connect" => slot'[d] = slot[d]
  BY <1>10 DEF AgreeInv, SlotInv, NoRequest, Controls
<1>. HIDE DEF r
<1>14. QED  BY <1>2, <1>8, <1>11, <1>12, <1>13, SentAgrees

\* A connect that is answered, or not.
LEMMA FinishConnectAgrees ==
  ASSUME Inv, Inv', AgreeInv, NEW c \in Clients, FinishConnect(c), setup' = setup
  PROVE  AgreeInv'
<1>1. info \in [Names -> Infos] /\ slot \in [Clients -> Slots]
  BY Typed
<1>0. PICK n \in Names : slot[c].name = n
  BY <1>1 DEF FinishConnect, Slots, NoRequest
<1> DEFINE s == info[n].service
           p == [NewProvider EXCEPT !.up = TRUE]
<1>2. n \in Names /\ slot[c].op = "connect" /\ slot[c].name = n
  BY <1>0 DEF FinishConnect
<1>3. info[n] \in Infos /\ Resting(s) /\ s \in Services
  BY <1>2, Typed
<1>4. /\ slot' = [slot EXCEPT ![c] = NoRequest] /\ queue' = queue /\ happened \subseteq happened'
  BY DEF FinishConnect
<1>5. SlotInv' /\ \A d \in Clients : slot'[d].op # "connect"
  BY <1>1, <1>2, <1>4 DEF AgreeInv, SlotInv, NoRequest, Controls
<1>6. Names' = Names /\ Returns(n)' = Returns(n)
  BY SameNames
<1>7. ASSUME provider' = [provider EXCEPT ![n] = p],
             info' = [info EXCEPT ![n] = connect_handler([info[n] EXCEPT !.service = S!connect(@, TRUE)])]
      PROVE  AgreeInv'
  <2> DEFINE a == s.monitor + 1
             b == s.processor + 1
             t == [s EXCEPT !.socket = "open", !.wire = <<>>, !.monitor = a, !.processor = b]
             i == [info[n] EXCEPT !.service = t, !.state = "CONNECTED"]
  <2>1. p \in Providers /\ p.state = "unbound"
    BY DEF NewProvider, Providers, States
  <2>. HIDE DEF p
  <2>2. connect_handler([info[n] EXCEPT !.service = S!connect(@, TRUE)]) = i
    BY DEF connect_handler, After, S!connect
  <2>. HIDE DEF a, b
  <2>3. t.socket = "open" /\ t.wire = <<>> /\ t.state = s.state
    BY <1>3 DEF Services
  <2>. HIDE DEF t
  <2>4. i.service = t /\ i.state = "CONNECTED"
    BY <1>3 DEF Infos
  <2>. HIDE DEF i
  <2>5. info'[n] = i /\ \A m \in Names \ {n} : info'[m] = info[m]
    BY <1>1, <1>2, <1>7, <2>2
  <2>6. /\ provider' \in [Names -> Providers] /\ provider'[n] = p
        /\ \A m \in Names \ {n} : provider'[m] = provider[m]
    BY <1>2, <1>7, <2>1 DEF AgreeInv, ProviderOK
  <2>7. ProviderOK'
    BY <1>6, <2>6 DEF ProviderOK
  <2>8. TrackInv'
    <3> SUFFICES ASSUME happened' \cap Failures = {}
                 PROVE  Connecting' /\ \A m \in Names : Tracked(m)'
      BY <1>6 DEF TrackInv
    <3>1. Connecting /\ \A m \in Names : Tracked(m)
      BY <1>4 DEF AgreeInv, TrackInv
    <3>2. info[n].state = "DISCONNECTED"
      BY <1>2, <3>1 DEF Connecting
    <3>3. s.wire = <<>>
      BY <1>2, <3>1, <3>2 DEF Tracked
    <3>4. provider[n].state = "unbound"
      BY <1>2, <3>1, <3>2, <3>3, IdleProvider DEF StateOf
    <3>5. Path(Returns(n), queue, s.state, "unbound")
      BY <1>2, <3>1, <3>4 DEF Tracked
    <3>6. Path(Asks, <<>>, "unbound", "unbound") /\ StateOf["CONNECTED"] = "unbound"
      BY EmptyPath DEF States, StateOf
    <3>7. /\ info'[n].service.socket = "open" /\ info'[n].service.wire = <<>>
          /\ info'[n].service.state = s.state /\ info'[n].state = "CONNECTED"
          /\ provider'[n].state = "unbound"
      BY <2>1, <2>3, <2>4, <2>5, <2>6
    <3>8. Tracked(n)'
      BY <1>4, <1>6, <3>5, <3>6, <3>7 DEF Tracked, Asks, Granted, StateOf
    <3>9. \A m \in Names \ {n} : Tracked(m)'
      BY <1>4, <2>5, <2>6, <3>1, SameTracked DEF SameLink
    <3>10. QED  BY <1>5, <3>8, <3>9 DEF Connecting
  <2>9. QED  BY <1>5, <2>7, <2>8 DEF AgreeInv
<1>8. ASSUME provider' = provider, info' = [info EXCEPT ![n].service = S!Handled(S!connect(@, FALSE))]
      PROVE  AgreeInv'
  <2> DEFINE t == S!Handled(S!connect(s, FALSE))
             i == [info[n] EXCEPT !.service = t]
  <2>1. t.socket = "none" /\ t.wire = s.wire /\ t.state = s.state
    <3> DEFINE u == [s EXCEPT !.socket = "none"]
    <3>1. t = [[u EXCEPT !.raised = "Exception"] EXCEPT !.raised = "none"]
      BY DEF S!Handled, S!connect, S!Raise, S!NoError
    <3>2. QED  BY <1>3, <3>1 DEF Services
  <2>. HIDE DEF t
  <2>2. i.service = t /\ i.state = info[n].state
    BY <1>3 DEF Infos
  <2>3. info'[n] = i /\ \A m \in Names \ {n} : info'[m] = info[m]
    <3>1. info' = [info EXCEPT ![n] = i]
      BY <1>8 DEF t
    <3>2. QED  BY <1>1, <1>2, <3>1
  <2>. HIDE DEF i
  <2>4. ProviderOK'
    BY <1>6, <1>8 DEF AgreeInv, ProviderOK
  <2>5. TrackInv'
    <3> SUFFICES ASSUME happened' \cap Failures = {}
                 PROVE  Connecting' /\ \A m \in Names : Tracked(m)'
      BY <1>6 DEF TrackInv
    <3>1. Connecting /\ \A m \in Names : Tracked(m)
      BY <1>4 DEF AgreeInv, TrackInv
    <3>2. info[n].state = "DISCONNECTED"
      BY <1>2, <3>1 DEF Connecting
    <3>3. SameLink(n)
      BY <1>2, <2>1, <2>2, <2>3, <3>1, <3>2 DEF SameLink, Tracked
    <3>4. \A m \in Names : SameLink(m)
      BY <2>3, <3>3 DEF SameLink
    <3>5. QED  BY <1>4, <1>5, <1>8, <3>1, <3>4, SameTracked DEF Connecting
  <2>6. QED  BY <1>5, <2>4, <2>5 DEF AgreeInv
<1>9. QED  BY <1>2, <1>7, <1>8 DEF FinishConnect

\* A command that arrives, and a step of the server that sends no request.
LEMMA NoRequestAgrees ==
  ASSUME Inv, Inv', AgreeInv, setup' = setup,
         \/ Append_cltu_data
         \/ UNCHANGED <<info, slot, links, happened>>
  PROVE  AgreeInv'
<1>1. /\ slot' = slot /\ provider' = provider /\ queue' = queue /\ happened \subseteq happened'
  BY DEF Append_cltu_data, links
<1>2. SlotInv' /\ SlotOK'
  BY <1>1 DEF AgreeInv, SlotInv, Inv, TypeInv
<1>3. \A n \in Names : SameLink(n)
  <2>1. CASE Append_cltu_data
    <3> DEFINE d == Append(info["cltu"].data, arrived')
               i == [info["cltu"] EXCEPT !.data = d]
    <3>1. "cltu" \in Names /\ info' = [info EXCEPT !["cltu"] = i]
      BY <2>1 DEF Append_cltu_data
    <3>. HIDE DEF d
    <3>2. i.service = info["cltu"].service /\ i.state = info["cltu"].state
      BY <3>1, Typed DEF Infos
    <3>. HIDE DEF i
    <3>3. QED  BY <3>1, <3>2, Typed DEF SameLink
  <2>2. CASE UNCHANGED <<info, slot, links, happened>>
    BY <2>2 DEF SameLink
  <2>3. QED  BY <2>1, <2>2
<1>4. QED  BY <1>1, <1>2, <1>3, SameLinks

\* A step that fails, or after which nothing is promised.
LEMMA FailureAgrees ==
  ASSUME AgreeInv, setup' = setup, slot' = slot, ProviderOK', happened' \cap Failures # {}
  PROVE  AgreeInv'
BY DEF AgreeInv, SlotInv, TrackInv

\* A greenlet that handles a PDU of its own service learns what the return tells; the
\* other services do not see it.
LEMMA ProcessAgrees ==
  ASSUME Inv, Inv', AgreeInv, NEW n \in Names, Process(n), setup' = setup
  PROVE  AgreeInv'
<1> DEFINE from == Head(queue).from
           pdu  == Head(queue).pdu
           s    == info[n].service
           t    == S!AfterHandler(handle_pdu(s, pdu))
           done == IF Decodes(n, from, pdu.type) THEN t ELSE s
           ends == done.socket = "closed" /\ s.socket # "closed"
           i    == [info[n] EXCEPT !.service = done]
<1>1. info \in [Names -> Infos] /\ info[n] \in Infos /\ Resting(s) /\ s \in Services
      /\ queue \in Seq(Read)
  BY Typed
<1>2. /\ queue # <<>> /\ queue' = Tail(queue) /\ slot' = slot
      /\ info' = [info EXCEPT ![n] = i]
      /\ provider' = IF ends THEN [provider EXCEPT ![n] = Aborted(provider[n])] ELSE provider
      /\ happened' = IF from # n THEN happened \cup {"misrouted"} ELSE happened
  BY DEF Process
<1>3. Head(queue) \in Read /\ Tail(queue) \in Seq(Read)
  BY <1>1, <1>2, HeadTailProperties
<1>4. Names' = Names
  BY SameNames
<1>5. ProviderOK'
  <2>1. Aborted(provider[n]) \in Providers
    BY ProviderTypes DEF AgreeInv, ProviderOK
  <2>. HIDE DEF ends
  <2>2. QED  BY <1>2, <1>4, <2>1 DEF AgreeInv, ProviderOK
<1>6. ASSUME happened' \cap Failures # {} PROVE AgreeInv'
  BY <1>2, <1>5, <1>6, FailureAgrees
<1>7. ASSUME happened' \cap Failures = {} PROVE AgreeInv'
  <2>1. from = n /\ happened' = happened
    BY <1>2, <1>7 DEF Failures
  <2>2. Connecting /\ \A m \in Names : Tracked(m)
    BY <1>7, <2>1 DEF AgreeInv, TrackInv
  <2>3. PICK c \in States : /\ <<Head(queue), s.state, c>> \in Returns(n)
                            /\ Path(Returns(n), Tail(queue), c, provider[n].state)
    <3>1. Path(Returns(n), queue, s.state, provider[n].state)
      BY <2>2 DEF Tracked
    <3>2. QED  BY <1>1, <1>2, <3>1, ShorterPath
  <2>4. pdu \in Pdus /\ ReturnFits(pdu, s.state, c)
    BY <1>3, <2>1, <2>3 DEF Returns, Read
  <2>5. t.socket = s.socket /\ t.wire = s.wire /\ t.state = c
    BY <1>1, <2>4, GreenletLearns
  <2>6. done = t
    BY <2>1 DEF Decodes
  <2>. HIDE DEF t, done
  <2>7. ~ends
    BY <2>5, <2>6
  <2>8. i.service = t /\ i.state = info[n].state
    BY <1>1, <2>6 DEF Infos
  <2>. HIDE DEF i, ends
  <2>9. info'[n] = i /\ provider' = provider /\ \A m \in Names \ {n} : info'[m] = info[m]
    BY <1>1, <1>2, <2>7
  <2>10. Tracked(n)'
    <3>1. Returns(n)' = Returns(n)
      BY SameNames
    <3>2. /\ info'[n].service.socket = s.socket /\ info'[n].service.wire = s.wire
          /\ info'[n].service.state = c /\ info'[n].state = info[n].state
      BY <2>5, <2>8, <2>9
    <3>3. QED  BY <1>2, <2>2, <2>3, <2>9, <3>1, <3>2 DEF Tracked, Asks, Granted, StateOf
  <2>11. ASSUME NEW m \in Names \ {n} PROVE Tracked(m)'
    <3>1. Returns(m)' = Returns(m)
      BY SameNames
    <3>2. PICK d \in States :
            /\ <<Head(queue), info[m].service.state, d>> \in Returns(m)
            /\ Path(Returns(m), Tail(queue), d, provider[m].state)
      <4>1. Path(Returns(m), queue, info[m].service.state, provider[m].state)
        BY <2>2, <2>11 DEF Tracked
      <4>2. QED  BY <1>1, <1>2, <4>1, ShorterPath
    <3>3. d = info[m].service.state
      BY <2>1, <2>11, <3>2 DEF Returns
    <3>4. Tracked(m)
      BY <2>2, <2>11
    <3>5. QED  BY <1>2, <2>9, <2>11, <3>1, <3>2, <3>3, <3>4 DEF Tracked, Asks, Granted, StateOf
  <2>12. Connecting'
    BY <1>2, <2>2, <2>8, <2>9, Typed DEF Connecting, Slots, NoRequest
  <2>13. QED  BY <1>2, <1>4, <1>5, <2>10, <2>11, <2>12 DEF AgreeInv, SlotInv, TrackInv
<1>8. QED  BY <1>6, <1>7

\* An abort, and a connection that is lost, are failures.
LEMMA BreakAgrees ==
  ASSUME Inv, Inv', AgreeInv, NEW n \in Names, Abort(n) \/ Lose(n), setup' = setup
  PROVE  AgreeInv'
<1>1. /\ slot' = slot /\ provider' = [provider EXCEPT ![n] = Aborted(provider[n])]
      /\ happened' \cap Failures # {}
  BY DEF Abort, Lose, Failures
<1>2. Aborted(provider[n]) \in Providers
  BY ProviderTypes DEF AgreeInv, ProviderOK
<1>3. ProviderOK'
  BY <1>1, <1>2, SameNames DEF AgreeInv, ProviderOK
<1>4. QED  BY <1>1, <1>3, FailureAgrees

\* One PDU read takes its own service's path to the state it tells, and the others' nowhere.
LEMMA ReadPath ==
  ASSUME NEW n \in Names, NEW m \in Names, NEW q \in Seq(Read), NEW pdu \in Pdus,
         NEW a, NEW b \in States, NEW c \in States, Path(Returns(m), q, a, b),
         m = n => ReturnFits(pdu, b, c), m # n => c = b
  PROVE  Path(Returns(m), Append(q, [from |-> n, pdu |-> pdu]), a, c)
<1> DEFINE x == [from |-> n, pdu |-> pdu]
<1>1. x \in Read /\ x.from = n /\ x.pdu = pdu
  BY DEF Read
<1>. HIDE DEF x
<1>2. <<x, b, c>> \in Returns(m)
  BY <1>1 DEF Returns
<1>3. Path(Returns(m), Append(q, x), a, c)
  BY <1>1, <1>2, LongerPath
<1>4. QED  BY <1>3 DEF x

\* What is read of an answer of one PDU, and of one of two.
LEMMA ReadAppends ==
  ASSUME NEW n \in Names, NEW q \in Seq(Read), NEW x \in Pdus, NEW y \in Pdus
  PROVE  LET item(pdu) == [from |-> n, pdu |-> pdu]
         IN  /\ q \o ReadBy(n, <<x>>) = Append(q, item(x))
             /\ q \o ReadBy(n, <<x, y>>) = Append(Append(q, item(x)), item(y))
             /\ Append(q, item(x)) \in Seq(Read)
<1> DEFINE X == [from |-> n, pdu |-> x]
           Y == [from |-> n, pdu |-> y]
<1>1. X \in Read /\ Y \in Read
  BY DEF Read
<1>2. ReadBy(n, <<x>>) = <<X>>
  BY DEF ReadBy
<1>3. ReadBy(n, <<x, y>>) = <<X, Y>>
  BY DEF ReadBy
<1>. HIDE DEF X, Y
<1>4. q \o <<X>> = Append(q, X) /\ Append(q, X) \in Seq(Read)
  BY <1>1
<1>5. q \o <<X, Y>> = Append(Append(q, X), Y)
  BY <1>1
<1>6. QED  BY <1>2, <1>3, <1>4, <1>5 DEF X, Y

\* A request that is granted moves from the wire to the queue, as the return that tells
\* the state it asked for.
LEMMA ReplyAgrees ==
  ASSUME Inv, Inv', AgreeInv, NEW n \in Names, Reply(n), setup' = setup
  PROVE  AgreeInv'
<1> DEFINE s == info[n].service
           p == provider[n]
           r == Head(s.wire)
           w == Tail(s.wire)
           t == [s EXCEPT !.wire = w]
           i == [info[n] EXCEPT !.service = t]
<1>1. info \in [Names -> Infos] /\ info[n] \in Infos /\ s \in Services /\ queue \in Seq(Read)
  BY Typed
<1>2. PICK answer \in Answers(p, r, {"known"}) :
        /\ \/ Grants(answer) /\ happened' = happened
           \/ ~Grants(answer) /\ happened' \cap {"aborted", "refused"} # {}
        /\ provider' = [provider EXCEPT ![n] = answer.provider]
        /\ queue' = queue \o ReadBy(n, answer.pdus)
  BY DEF Reply
<1>3. s.wire # <<>> /\ slot' = slot /\ info' = [info EXCEPT ![n] = i]
  BY DEF Reply
<1>4. s.wire \in Seq(Requests) /\ r \in Requests /\ w \in Seq(Requests)
  BY <1>1, <1>3, HeadTailProperties DEF Services
<1>5. p \in Providers /\ provider \in [Names -> Providers]
  BY DEF AgreeInv, ProviderOK
<1>6. AnswerFits(p, r, answer) /\ answer.provider \in Providers
  <2>1. AnswerFits(p, r, answer)
    BY <1>2, <1>4, <1>5, AnswersFit
  <2>2. QED  BY <2>1 DEF AnswerFits
<1>7. Names' = Names
  BY SameNames
<1>8. ProviderOK'
  BY <1>2, <1>5, <1>6, <1>7 DEF ProviderOK
<1>9. ASSUME happened' \cap Failures # {} PROVE AgreeInv'
  BY <1>3, <1>8, <1>9, FailureAgrees
<1>10. ASSUME happened' \cap Failures = {} PROVE AgreeInv'
  <2>1. Grants(answer) /\ happened' = happened
    BY <1>2, <1>10 DEF Failures
  <2>2. Connecting /\ \A m \in Names : Tracked(m)
    BY <1>10, <2>1 DEF AgreeInv, TrackInv
  <2>3. PICK c \in States : <<r, p.state, c>> \in Asks /\ Path(Asks, w, c, StateOf[info[n].state])
    <3>1. Path(Asks, s.wire, p.state, StateOf[info[n].state])
      BY <2>2 DEF Tracked
    <3>2. QED  BY <1>3, <1>4, <3>1, ShorterPath
  <2>4. \/ /\ r.op = "transfer" /\ answer.provider.state = p.state
           /\ answer.pdus = <<Pdu("TransferReturn", "positive"), Pdu("AsyncNotify", "radiated")>>
        \/ /\ r.op \in Controls /\ answer.provider.state = Granted[r.op]
           /\ \E type \in Telling :
                /\ answer.pdus = <<Pdu(type, "positive")>> /\ Told[type] = Granted[r.op]
                /\ type = "BindReturn" => p.state = "unbound"
    BY <1>6, <2>1 DEF AnswerFits
  <2>5. answer.provider.state = c
    BY <2>3, <2>4 DEF Asks
  <2>6. p.state \in States /\ \A m \in Names : provider[m].state \in States
    BY <1>5 DEF Providers
  <2>7. ASSUME NEW m \in Names
        PROVE  Path(Returns(m), queue', info[m].service.state,
                    IF m = n THEN c ELSE provider[m].state)
    <3> DEFINE a == info[m].service.state
               b == provider[m].state
               d == IF m = n THEN c ELSE b
    <3>1. Path(Returns(m), queue, a, b) /\ b \in States /\ d \in States
      BY <2>2, <2>6, <2>7 DEF Tracked
    <3>2. ASSUME r.op = "transfer",
                 answer.pdus = <<Pdu("TransferReturn", "positive"), Pdu("AsyncNotify", "radiated")>>
          PROVE  Path(Returns(m), queue', a, d)
      <4> DEFINE x == Pdu("TransferReturn", "positive")
                 y == Pdu("AsyncNotify", "radiated")
      <4>1. /\ x \in Pdus /\ y \in Pdus
            /\ x.type = "TransferReturn" /\ y.type = "AsyncNotify"
        BY DEF Pdu, Pdus, PduOK, Types, Results
      <4>2. d = b
        BY <2>3, <3>2 DEF Asks
      <4>3. queue' = queue \o ReadBy(n, <<x, y>>)
        BY <1>2, <3>2
      <4>. HIDE DEF x, y, a, b, d
      <4>4. ReturnFits(x, b, b) /\ ReturnFits(y, b, b)
        BY <4>1 DEF ReturnFits, Telling
      <4> DEFINE one == Append(queue, [from |-> n, pdu |-> x])
      <4>5. queue' = Append(one, [from |-> n, pdu |-> y]) /\ one \in Seq(Read)
        BY <1>1, <4>1, <4>3, ReadAppends
      <4>6. Path(Returns(m), one, a, b)
        BY <1>1, <3>1, <4>1, <4>4, ReadPath
      <4>. HIDE DEF one
      <4>7. Path(Returns(m), Append(one, [from |-> n, pdu |-> y]), a, b)
        BY <3>1, <4>1, <4>4, <4>5, <4>6, ReadPath
      <4>8. QED  BY <4>2, <4>5, <4>7
    <3>3. ASSUME NEW type \in Telling, answer.pdus = <<Pdu(type, "positive")>>,
                 Told[type] = c, type = "BindReturn" => p.state = "unbound"
          PROVE  Path(Returns(m), queue', a, d)
      <4> DEFINE x == Pdu(type, "positive")
      <4>1. x \in Pdus /\ x.type = type /\ x.result = "positive"
        BY DEF Pdu, Pdus, PduOK, Types, Results, Telling
      <4>. HIDE DEF x
      <4>2. ReturnFits(x, p.state, c)
        BY <3>3, <4>1 DEF ReturnFits, Telling
      <4>3. queue' = Append(queue, [from |-> n, pdu |-> x])
        BY <1>1, <1>2, <3>3, <4>1, ReadAppends DEF x
      <4>4. m = n => ReturnFits(x, b, d)
        BY <4>2
      <4>. HIDE DEF a, p
      <4>5. QED  BY <1>1, <3>1, <4>1, <4>3, <4>4, ReadPath
    <3>4. QED  BY <2>4, <2>5, <3>2, <3>3
  <2>8. t.wire = w /\ t.socket = s.socket /\ t.state = s.state
    <3>. HIDE DEF w
    <3>1. QED  BY <1>1, <1>4 DEF Services
  <2>. HIDE DEF t
  <2>9. i.service = t /\ i.state = info[n].state
    BY <1>1 DEF Infos
  <2>. HIDE DEF i
  <2>10. info'[n] = i /\ \A m \in Names \ {n} : info'[m] = info[m] /\ provider'[m] = provider[m]
    BY <1>1, <1>2, <1>3, <1>5
  <2>11. provider'[n].state = c
    BY <1>2, <1>5, <2>5
  <2>12. Tracked(n)'
    <3>1. Returns(n)' = Returns(n)
      BY SameNames
    <3>2. /\ info'[n].service.socket = s.socket /\ info'[n].service.wire = w
          /\ info'[n].service.state = s.state /\ info'[n].state = info[n].state
      BY <2>8, <2>9, <2>10
    <3>3. s.socket = "open"
      BY <1>3, <2>2 DEF Tracked
    <3>4. Path(Returns(n), queue', s.state, c)
      BY <2>7
    <3>5. QED  BY <2>2, <2>3, <2>11, <3>1, <3>2, <3>3, <3>4 DEF Tracked, Asks, Granted, StateOf
  <2>13. ASSUME NEW m \in Names \ {n} PROVE Tracked(m)'
    <3>1. Returns(m)' = Returns(m)
      BY SameNames
    <3>2. Path(Returns(m), queue', info[m].service.state, provider[m].state)
      BY <2>7, <2>13
    <3>3. Tracked(m)
      BY <2>2, <2>13
    <3>4. QED  BY <2>10, <2>13, <3>1, <3>2, <3>3 DEF Tracked, Asks, Granted, StateOf
  <2>14. Connecting'
    BY <1>3, <2>2, <2>9, <2>10, Typed DEF Connecting, Slots, NoRequest
  <2>15. QED  BY <1>3, <1>7, <1>8, <2>12, <2>13, <2>14 DEF AgreeInv, SlotInv, TrackInv
<1>11. QED  BY <1>9, <1>10

\* The manager's initial state: no service has a connection.
LEMMA InitAgrees == Init => AgreeInv
<1> SUFFICES ASSUME Init PROVE AgreeInv
  OBVIOUS
<1>1. Names \subseteq {"raf", "rcf", "cltu"}
  BY SetupsAssumption DEF Init, Names
<1>2. ProviderOK
  <2>1. NewProvider \in Providers
    BY DEF NewProvider, Providers, States
  <2>2. provider = [n \in Names |-> NewProvider]
    BY DEF Init, Names
  <2>3. QED  BY <2>1, <2>2 DEF ProviderOK
<1>3. \A c \in Clients : slot[c] = NoRequest
  BY DEF Init
<1>4. SlotInv /\ Connecting
  BY <1>3 DEF SlotInv, Connecting, NoRequest, Controls
<1>5. ASSUME NEW n \in Names PROVE Tracked(n)
  <2>1. /\ info[n].service.socket = "none" /\ info[n].service.wire = <<>>
        /\ info[n].service.state = "unbound" /\ info[n].state = "DISCONNECTED"
    BY <1>5 DEF Init, Names, S!NewService
  <2>2. provider[n].state = "unbound" /\ queue = <<>>
    BY <1>5 DEF Init, Names, NewProvider
  <2>3. \A moves : Path(moves, <<>>, "unbound", "unbound")
    BY EmptyPath DEF States
  <2>4. QED  BY <2>1, <2>2, <2>3 DEF Tracked, StateOf
<1>6. QED  BY <1>2, <1>4, <1>5 DEF AgreeInv, TrackInv

\* Every step keeps the agreement.
LEMMA NextAgrees ==
  ASSUME Inv, Inv', AgreeInv, [Next]_vars
  PROVE  AgreeInv'
<1>1. CASE UNCHANGED vars
  BY <1>1, NoRequestAgrees DEF vars, links
<1>2. CASE Server
  <2>1. setup' = setup
    BY <1>2 DEF Server
  <2>2. ASSUME ServerRequest PROVE AgreeInv'
    <3>1. "server" \in Clients /\ Service \in Names
      BY <2>2, HeadTailProperties DEF ServerRequest, Clients, Service, Inv, TypeInv, ServerOK
    <3>2. QED  BY <2>1, <2>2, <3>1, BeginAgrees, NoRequestAgrees DEF ServerRequest
  <2>3. QED
    BY <1>2, <2>1, <2>2, NoRequestAgrees
    DEF Server, bring_up_services, BroughtUp, TearDownStep, kill_servers
<1>3. CASE Environment
  <2>1. setup' = setup
    BY <1>3 DEF Environment
  <2>2. ASSUME upload_data \/ tear_down_services \/ OperatorRequest PROVE AgreeInv'
    <3>1. "server" \in Clients /\ "operator" \in Clients
      BY DEF Clients
    <3>2. QED
      BY <2>1, <2>2, <3>1, BeginAgrees, NoRequestAgrees
      DEF upload_data, tear_down_services, OperatorRequest
  <2>3. QED
    BY <1>3, <2>1, <2>2, NoRequestAgrees, ProcessAgrees, ReplyAgrees, BreakAgrees DEF Environment
<1>4. ASSUME NEW c \in Clients, Finish(c) PROVE AgreeInv'
  BY <1>4, FinishConnectAgrees, FinishRequestAgrees, FinishUploadAgrees DEF Finish
<1>5. QED  BY <1>1, <1>2, <1>3, <1>4 DEF Next

\* When nothing is on its way, the manager's states are those of the services, whatever
\* requests two clients send at once and whatever they upload: unless a provider refused
\* or aborted, a connection was lost, a return was handled by another service, or a
\* connection was closed before its returns had come.
THEOREM AgreesUnlessFailedHolds == Spec => []AgreesUnlessFailed
<1>1. Init => Inv /\ AgreeInv
  BY InitInv, InitAgrees
<1>2. Inv /\ AgreeInv /\ [Next]_vars => (Inv /\ AgreeInv)'
  BY NextInv, NextAgrees
<1>3. Inv /\ AgreeInv => AgreesUnlessFailed
  <2> SUFFICES ASSUME AgreeInv, Quiet, happened \cap Failures = {}, NEW n \in Names
               PROVE  StateOf[info[n].state] = info[n].service.state
    BY DEF AgreesUnlessFailed, Agree, Failures
  <2>1. Tracked(n)
    BY DEF AgreeInv, TrackInv
  <2>2. info[n].service.wire = <<>> /\ queue = <<>>
    BY DEF Quiet
  <2>3. QED  BY <2>1, <2>2, IdleProvider, EmptyPath DEF Tracked
<1>4. QED  BY <1>1, <1>2, <1>3, PTL DEF Spec

----------------------------------------------------------------------------
(* The types of what is counted and sent. *)

\* The server goes through every service once.
LEMMA ListedLength ==
  ASSUME NEW names \in SUBSET {"raf", "rcf", "cltu"}
  PROVE  /\ Cardinality(names) \in Nat
         /\ Len(Listed(names)) = Cardinality(names)
<1> DEFINE One(n) == IF n \in names THEN <<n>> ELSE <<>>
           A == names \cap {"raf"}
           B == names \cap {"raf", "rcf"}
<1>1. \A n : One(n) \in Seq(names) /\ Len(One(n)) = IF n \in names THEN 1 ELSE 0
  BY EmptySeq
<1>2. Listed(names) = One("raf") \o One("rcf") \o One("cltu")
  BY DEF Listed
<1>. HIDE DEF One
<1>3. Len(Listed(names)) = Len(One("raf")) + Len(One("rcf")) + Len(One("cltu"))
  <2>1. /\ One("raf") \o One("rcf") \in Seq(names)
        /\ Len(One("raf") \o One("rcf")) = Len(One("raf")) + Len(One("rcf"))
    BY <1>1, ConcatProperties
  <2>2. QED  BY <1>1, <1>2, <2>1, ConcatProperties
<1>4. \A X, n : IsFiniteSet(X) /\ n \notin X =>
        /\ IsFiniteSet(X \cup {n}) /\ Cardinality(X) \in Nat
        /\ Cardinality(X \cup {n}) = Cardinality(X) + 1
  BY FS_AddElement, FS_CardinalityType
<1>5. IsFiniteSet({}) /\ Cardinality({}) = 0
  BY FS_EmptySet
<1>6. /\ A = IF "raf" \in names THEN {} \cup {"raf"} ELSE {}
      /\ B = IF "rcf" \in names THEN A \cup {"rcf"} ELSE A
      /\ names = IF "cltu" \in names THEN B \cup {"cltu"} ELSE B
      /\ "rcf" \notin A /\ "cltu" \notin B
  OBVIOUS
<1>. HIDE DEF A, B
<1>7. IsFiniteSet(A) /\ Cardinality(A) = IF "raf" \in names THEN 1 ELSE 0
  BY <1>4, <1>5, <1>6
<1>8. IsFiniteSet(B) /\ Cardinality(B) = Cardinality(A) + IF "rcf" \in names THEN 1 ELSE 0
  BY <1>4, <1>6, <1>7
<1>9. Cardinality(names) = Cardinality(B) + IF "cltu" \in names THEN 1 ELSE 0
  <2>1. CASE "cltu" \in names
    <3>1. names = B \cup {"cltu"}
      BY <1>6, <2>1
    <3>2. Cardinality(B \cup {"cltu"}) = Cardinality(B) + 1
      BY <1>4, <1>6, <1>8
    <3>3. QED  BY <2>1, <3>1, <3>2
  <2>2. CASE "cltu" \notin names
    <3>1. names = B
      BY <1>6, <2>2
    <3>2. Cardinality(B) \in Nat
      BY <1>8, FS_CardinalityType
    <3>3. QED  BY <2>2, <3>1, <3>2
  <2>3. QED  BY <2>1, <2>2
<1>10. /\ Len(One("raf")) = IF "raf" \in names THEN 1 ELSE 0
       /\ Len(One("rcf")) = IF "rcf" \in names THEN 1 ELSE 0
       /\ Len(One("cltu")) = IF "cltu" \in names THEN 1 ELSE 0
  BY <1>1
<1> DEFINE a == IF "raf" \in names THEN 1 ELSE 0
           b == IF "rcf" \in names THEN 1 ELSE 0
           c == IF "cltu" \in names THEN 1 ELSE 0
<1>11. /\ a \in Nat /\ b \in Nat /\ c \in Nat
       /\ Cardinality(A) = a /\ Cardinality(B) = Cardinality(A) + b
       /\ Cardinality(names) = Cardinality(B) + c
       /\ Len(One("raf")) = a /\ Len(One("rcf")) = b /\ Len(One("cltu")) = c
  BY <1>7, <1>8, <1>9, <1>10
<1>. HIDE DEF a, b, c
<1>12. Cardinality(names) = a + b + c /\ Len(Listed(names)) = a + b + c
  BY <1>3, <1>11
<1>13. QED  BY <1>11, <1>12

\* What may be set in the server's record.
LEMMA ServerCounts ==
  ASSUME Inv, ServerCount, setup' = setup
  PROVE  /\ Names' = Names /\ Servers' = Servers /\ Cardinality(Names) \in Nat
         /\ Listed(Names) \in Seq(Names) /\ Len(Listed(Names)) = Cardinality(Names)
         /\ server.todo # <<>> =>
              /\ Tail(server.todo) \in Seq(Names)
              /\ Len(Tail(server.todo)) = Len(server.todo) - 1 /\ Len(server.todo) \in Nat
<1>1. Names' = Names /\ Servers' = Servers
  BY DEF Names, Servers
<1>2. Names \in SUBSET {"raf", "rcf", "cltu"}
  BY SetupsAssumption DEF Inv, TypeInv, Names
<1>3. Cardinality(Names) \in Nat /\ Len(Listed(Names)) = Cardinality(Names)
  BY <1>2, ListedLength
<1>4. Listed(Names) \in Seq(Names)
  BY ListedType
<1>5. server.todo \in Seq(Names)
  BY DEF ServerCount, Servers
<1>6. QED  BY <1>1, <1>3, <1>4, <1>5, HeadTailProperties, LenProperties

\* A server that leaves its loops and counts nothing keeps its count.
LEMMA AskedCounts ==
  ASSUME Inv, ServerCount, setup' = setup, NEW b \in BOOLEAN, NEW k \in Nat,
         server' = [server EXCEPT !.asked = b, !.uploads = k]
  PROVE  ServerCount'
<1>1. server' \in Servers
  BY DEF ServerCount, Servers
<1>2. /\ server'.doing = server.doing /\ server'.next = server.next
      /\ server'.todo = server.todo /\ server'.started = server.started
  BY DEF ServerCount, Servers
<1>3. QED  BY <1>1, <1>2, ServerCounts DEF ServerCount

\* The server's tear-down.
LEMMA TearDownCounts ==
  ASSUME Inv, ServerCount, setup' = setup, server' = TearDown(server)
  PROVE  ServerCount'
<1> DEFINE all == Listed(Names)
<1>1. all \in Seq(Names)
  BY ServerCounts
<1>2. server' = [server EXCEPT !.doing = "tear_down", !.todo = all, !.next = "stop"]
  BY DEF TearDown
<1>. HIDE DEF all
<1>3. server' \in Servers
  BY <1>1, <1>2 DEF ServerCount, Servers, Legal
<1>4. server'.doing = "tear_down" /\ server'.next = "stop" /\ server'.started = server.started
  BY <1>2 DEF ServerCount, Servers
<1>5. QED  BY <1>3, <1>4, ServerCounts DEF ServerCount

\* The step to the next service counts one service at most.
LEMMA BringUpCounts ==
  ASSUME Inv, ServerCount, setup' = setup, bring_up_services
  PROVE  ServerCount'
<1> DEFINE rest == Tail(server.todo)
<1>1. /\ server \in Servers /\ server.doing = "bring_up" /\ server.todo # <<>>
      /\ server.next \in {"connect", "bind", "start"}
      /\ server.started + Len(server.todo) <= Cardinality(Names) /\ server.started \in Nat
  BY DEF bring_up_services, ServerCount, Servers, Inv, TypeInv, ServerOK
<1>2. /\ Names' = Names /\ Servers' = Servers /\ Cardinality(Names) \in Nat
      /\ rest \in Seq(Names) /\ Len(rest) = Len(server.todo) - 1 /\ Len(server.todo) \in Nat
  BY <1>1, ServerCounts
<1>3. \/ server' = OnToNext(server)
      \/ server' = OnToNext([server EXCEPT !.started = @ + 1])
      \/ server.next # "start" /\ server' = [server EXCEPT !.asked = FALSE, !.next = NextOf[@]]
  BY DEF bring_up_services, step_done, give_up
<1>. HIDE DEF rest
<1>4. ASSUME NEW k \in {server.started, server.started + 1},
             server' = [server EXCEPT !.asked = FALSE, !.next = "connect", !.todo = rest, !.started = k]
      PROVE  ServerCount'
  <2>1. k \in Nat /\ k + Len(rest) <= Cardinality(Names) /\ Len(rest) \in Nat /\ k <= Cardinality(Names)
    BY <1>1, <1>2
  <2>2. server' \in Servers
    BY <1>1, <1>2, <1>4, <2>1 DEF Servers, Legal
  <2>3. /\ server'.doing = "bring_up" /\ server'.next = "connect" /\ server'.todo = rest
        /\ server'.started = k
    BY <1>1, <1>4 DEF Servers
  <2>4. QED  BY <1>2, <2>1, <2>2, <2>3 DEF ServerCount
<1>5. ASSUME server' = OnToNext(server) PROVE ServerCount'
  <2>1. server' = [server EXCEPT !.asked = FALSE, !.next = "connect", !.todo = rest,
                                 !.started = server.started]
    BY <1>1, <1>5 DEF OnToNext, rest, Servers
  <2>2. QED  BY <1>4, <2>1
<1>6. ASSUME server' = OnToNext([server EXCEPT !.started = @ + 1]) PROVE ServerCount'
  <2>1. server' = [server EXCEPT !.asked = FALSE, !.next = "connect", !.todo = rest,
                                 !.started = server.started + 1]
    BY <1>1, <1>6 DEF OnToNext, rest, Servers
  <2>2. QED  BY <1>4, <2>1
<1>7. ASSUME server.next # "start", server' = [server EXCEPT !.asked = FALSE, !.next = NextOf[@]]
      PROVE  ServerCount'
  <2> DEFINE x == NextOf[server.next]
  <2>1. x \in {"bind", "start"} /\ x \in DOMAIN Legal
    BY <1>1, <1>7 DEF NextOf, Legal
  <2>2. server' = [server EXCEPT !.asked = FALSE, !.next = x]
    BY <1>7
  <2>. HIDE DEF x
  <2>3. server' \in Servers
    BY <1>1, <1>2, <2>1, <2>2 DEF Servers
  <2>4. /\ server'.doing = "bring_up" /\ server'.next = x /\ server'.todo = server.todo
        /\ server'.started = server.started
    BY <1>1, <2>2 DEF Servers
  <2>5. QED  BY <1>1, <1>2, <2>1, <2>3, <2>4 DEF ServerCount
<1>8. QED  BY <1>3, <1>5, <1>6, <1>7

\* A step of the tear-down.
LEMMA TearDownStepCounts ==
  ASSUME Inv, ServerCount, setup' = setup, TearDownStep
  PROVE  ServerCount'
<1> DEFINE rest == Tail(server.todo)
           x    == NextOf[server.next]
<1>1. /\ server \in Servers /\ server.doing = "tear_down" /\ server.todo # <<>>
      /\ server.next \in {"stop", "unbind", "disconnect"}
  BY DEF TearDownStep, ServerCount
<1>2. rest \in Seq(Names)
  BY <1>1, ServerCounts
<1>3. server.next # "disconnect" => x \in {"unbind", "disconnect"}
  BY <1>1 DEF NextOf
<1>4. \/ server' = [server EXCEPT !.asked = FALSE, !.next = "stop", !.todo = rest]
      \/ server.next # "disconnect" /\ server' = [server EXCEPT !.asked = FALSE, !.next = x]
  BY DEF TearDownStep
<1>. HIDE DEF rest, x
<1>5. server' \in Servers
  BY <1>1, <1>2, <1>3, <1>4 DEF Servers, Legal
<1>6. /\ server'.doing = "tear_down" /\ server'.next \in {"stop", "unbind", "disconnect"}
      /\ server'.started = server.started
  BY <1>1, <1>3, <1>4 DEF Servers
<1>7. QED  BY <1>5, <1>6, ServerCounts DEF ServerCount

\* Requests that touch no counter of the server keep its count.
LEMMA ServerSteps ==
  ASSUME Inv, ServerCount, [Next]_vars
  PROVE  ServerCount' /\ setup' = setup
<1>1. server \in Servers
  BY DEF ServerCount
<1>2. ASSUME server' = server, setup' = setup PROVE ServerCount'
  BY <1>2 DEF ServerCount, Servers, Names
<1>3. CASE UNCHANGED vars
  BY <1>2, <1>3 DEF vars
<1>4. CASE Server
  <2>1. setup' = setup
    BY <1>4 DEF Server
  <2>2. ASSUME ServerRequest PROVE ServerCount'
    <3>1. server' = [server EXCEPT !.asked = TRUE, !.uploads = server.uploads]
      BY <1>1, <2>2 DEF ServerRequest, Servers
    <3>2. server.uploads \in Nat
      BY <1>1 DEF Servers
    <3>3. QED  BY <2>1, <3>1, <3>2, AskedCounts
  <2>3. ASSUME BroughtUp PROVE ServerCount'
    <3>1. CASE server' = TearDown(server)
      BY <2>1, <3>1, TearDownCounts
    <3>2. CASE server' = [server EXCEPT !.doing = "ready"]
      <4>1. server' \in Servers /\ server'.doing = "ready" /\ server'.started = server.started
        BY <1>1, <3>2 DEF Servers
      <4>2. QED  BY <2>1, <4>1, ServerCounts DEF ServerCount
    <3>3. QED  BY <2>3, <3>1, <3>2 DEF BroughtUp
  <2>4. ASSUME kill_servers PROVE ServerCount'
    <3>1. server' = [server EXCEPT !.doing = "exited"]
      BY <2>4 DEF kill_servers
    <3>2. server' \in Servers /\ server'.doing = "exited" /\ server'.started = server.started
      BY <1>1, <3>1 DEF Servers
    <3>3. QED  BY <2>1, <3>2, ServerCounts DEF ServerCount
  <2>5. QED  BY <1>4, <2>1, <2>2, <2>3, <2>4, BringUpCounts, TearDownStepCounts DEF Server
<1>5. CASE Environment
  <2>1. setup' = setup
    BY <1>5 DEF Environment
  <2>2. ASSUME upload_data PROVE ServerCount'
    <3> DEFINE k == server.uploads + 1
    <3>1. k \in Nat
      BY <1>1 DEF Servers
    <3>2. server' = [server EXCEPT !.asked = server.asked, !.uploads = k] /\ server.asked \in BOOLEAN
      BY <1>1, <2>2 DEF upload_data, Servers
    <3>. HIDE DEF k
    <3>3. QED  BY <2>1, <3>1, <3>2, AskedCounts
  <2>3. ASSUME tear_down_services PROVE ServerCount'
    BY <2>1, <2>3, TearDownCounts DEF tear_down_services
  <2>4. QED
    BY <1>2, <1>5, <2>1, <2>2, <2>3
    DEF Environment, OperatorRequest, Append_cltu_data, Process, Reply, Abort, Lose
<1>6. ASSUME NEW c \in Clients, Finish(c) PROVE ServerCount' /\ setup' = setup
  BY <1>2, <1>6 DEF Finish, FinishConnect, FinishRequest, FinishUpload
<1>7. setup' = setup
  BY <1>3, <1>4, <1>5, <1>6 DEF Next, Server, Environment, vars
<1>8. QED  BY <1>3, <1>4, <1>5, <1>6, <1>7 DEF Next

\* A step that moves no command keeps where they are; a command that is to be sent next is
\* one that waits.
LEMMA SameData ==
  ASSUME Inv, DataCount, setup' = setup, arrived' = arrived, sent' = sent,
         \A n \in Names : info'[n].data = info[n].data,
         \A c \in Clients : slot'[c].op = "upload" => \/ slot'[c] = slot[c]
                                                      \/ slot'[c].item \in Commands
  PROVE  DataCount'
<1>1. Names' = Names /\ Commands' = Commands
  BY DEF Names, Commands
<1>2. QED  BY <1>1 DEF DataCount

\* The first of the commands that wait is one of them.
LEMMA HeadOfData ==
  ASSUME NEW d \in Seq(Commands), d # <<>>
  PROVE  Head(d) \in Commands /\ Tail(d) \in Seq(Commands)
BY HeadTailProperties

\* A request that begins.
LEMMA BeginCounts ==
  ASSUME Inv, DataCount, NEW c \in Clients, NEW op, NEW n \in Names, Begin(c, op, n), setup' = setup
  PROVE  DataCount'
<1>1. info \in [Names -> Infos] /\ slot \in [Clients -> Slots] /\ info[n] \in Infos
  BY Typed
<1>2. arrived' = arrived /\ sent' = sent
  BY DEF Begin, udp
<1>3. CASE BeginUpload(c, n)
  <2> DEFINE u == Uploading(info[n])
  <2>1. /\ n = "cltu" /\ info[n].data # <<>>
        /\ slot' = [slot EXCEPT ![c] = u.slot] /\ info' = [info EXCEPT ![n] = u.info]
    BY <1>3 DEF BeginUpload
  <2>2. u.info.data = info[n].data /\ u.slot.item = Head(info[n].data)
    BY <1>1, <2>1, UploadingType
  <2>3. Head(info[n].data) \in Commands
    BY <2>1, HeadOfData DEF DataCount
  <2>. HIDE DEF u
  <2>4. QED  BY <1>1, <1>2, <2>1, <2>2, <2>3, SameData
<1>4. CASE disconnect_handler(n)
  <2> DEFINE t == S!Handled(S!disconnect(info[n].service))
             i == [info[n] EXCEPT !.service = t, !.state = After["disconnect"]]
  <2>1. info' = [info EXCEPT ![n] = i] /\ slot' = slot
    BY <1>4 DEF disconnect_handler
  <2>. HIDE DEF t
  <2>2. i.data = info[n].data
    BY <1>1 DEF Infos
  <2>. HIDE DEF i
  <2>3. QED  BY <1>1, <1>2, <2>1, <2>2, SameData
<1>5. CASE /\ info' = info /\ op # "upload"
           /\ \E r : r.op = op /\ slot' = [slot EXCEPT ![c] = r]
  BY <1>1, <1>2, <1>5, SameData
<1>6. ASSUME op = "connect", slot' = [slot EXCEPT ![c] = [op |-> op, name |-> n]]
      PROVE  \E r : r.op = op /\ slot' = [slot EXCEPT ![c] = r]
  BY <1>6
<1>7. ASSUME slot' = [slot EXCEPT ![c] = [op |-> op, name |-> n, pdu |-> PduOf(info[n].service, op)]]
      PROVE  \E r : r.op = op /\ slot' = [slot EXCEPT ![c] = r]
  BY <1>7
<1>8. QED  BY <1>3, <1>4, <1>5, <1>6, <1>7 DEF Begin

\* A command that is sent is one that arrived, and so is the next one.
LEMMA FinishUploadCounts ==
  ASSUME Inv, DataCount, NEW c \in Clients, FinishUpload(c), setup' = setup
  PROVE  DataCount'
<1> DEFINE old  == info["cltu"]
           t    == S!Handled(S!send(old.service, slot[c].pdu))
           i    == [old EXCEPT !.service = t]
           left == DeleteFirst(i)
<1>1. info \in [Names -> Infos] /\ slot \in [Clients -> Slots]
  BY Typed
<1>2. "cltu" \in Names /\ slot[c].pdu \in Requests /\ slot[c].op = "upload"
  BY <1>1 DEF FinishUpload, Slots, NoRequest
<1>3. old \in Infos /\ Resting(old.service) /\ old.service \in Services
  BY <1>2, Typed
<1>4. t \in {x \in Services : Resting(x)}
  BY <1>2, <1>3, SendType, HandledRests DEF Resting
<1>5. i.data = old.data /\ i \in Infos
  <2>. HIDE DEF t
  <2>1. QED  BY <1>3, <1>4 DEF Infos
<1>6. /\ arrived' = arrived
      /\ sent' \in {Append(sent, slot[c].item), sent}
      /\ \/ /\ info' = [info EXCEPT !["cltu"] = i] /\ slot' = [slot EXCEPT ![c] = NoRequest]
         \/ /\ i.data # <<>>
            /\ info' = [info EXCEPT !["cltu"] = left] /\ slot' = [slot EXCEPT ![c] = NoRequest]
         \/ /\ i.data # <<>> /\ left.data # <<>>
            /\ info' = [info EXCEPT !["cltu"] = Uploading(left).info]
            /\ slot' = [slot EXCEPT ![c] = Uploading(left).slot]
  BY DEF FinishUpload, AfterFailure
<1>. HIDE DEF i
<1>7. ASSUME i.data # <<>>
      PROVE  left \in Infos /\ left.data = Tail(old.data) /\ left.data \in Seq(Commands)
  <2>1. Tail(i.data) \in Seq(Nat) /\ Tail(i.data) \in Seq(Commands)
    BY <1>2, <1>5, <1>7, HeadTailProperties, HeadOfData DEF Infos, DataCount
  <2>2. QED  BY <1>5, <2>1 DEF DeleteFirst, Infos
<1>. HIDE DEF left
<1>8. /\ info'["cltu"].data \in Seq(Commands)
      /\ slot'[c].op = "upload" => slot'[c].item \in Commands
      /\ \A d \in Clients \ {c} : slot'[d] = slot[d]
      /\ \A m \in Names \ {"cltu"} : info'[m] = info[m]
  <2>1. CASE info' = [info EXCEPT !["cltu"] = i] /\ slot' = [slot EXCEPT ![c] = NoRequest]
    BY <1>1, <1>2, <1>5, <2>1 DEF NoRequest, DataCount
  <2>2. CASE /\ i.data # <<>>
             /\ info' = [info EXCEPT !["cltu"] = left] /\ slot' = [slot EXCEPT ![c] = NoRequest]
    BY <1>1, <1>2, <1>7, <2>2 DEF NoRequest
  <2>3. CASE /\ i.data # <<>> /\ left.data # <<>>
             /\ info' = [info EXCEPT !["cltu"] = Uploading(left).info]
             /\ slot' = [slot EXCEPT ![c] = Uploading(left).slot]
    <3>1. left \in Infos /\ left.data \in Seq(Commands)
      BY <1>7, <2>3
    <3>2. Uploading(left).info.data = left.data /\ Uploading(left).slot.item = Head(left.data)
      BY <1>2, <2>3, <3>1, UploadingType
    <3>3. Head(left.data) \in Commands
      BY <2>3, <3>1, HeadOfData
    <3>4. QED  BY <1>1, <1>2, <2>3, <3>1, <3>2, <3>3
  <2>4. QED  BY <1>6, <2>1, <2>2, <2>3
<1>9. sent' \in Seq(Commands)
  <2>1. slot[c].item \in Commands /\ sent \in Seq(Commands)
    BY <1>2 DEF DataCount
  <2>2. Append(sent, slot[c].item) \in Seq(Commands)
    BY <2>1
  <2>3. QED  BY <1>6, <2>1, <2>2
<1>10. Names' = Names /\ Commands' = Commands
  BY DEF Names, Commands
<1>11. QED  BY <1>6, <1>8, <1>9, <1>10 DEF DataCount

\* A service that is replaced holds the same commands.
LEMMA ServiceData ==
  ASSUME Inv, NEW n \in Names, NEW t
  PROVE  \A m \in Names : [info EXCEPT ![n].service = t][m].data = info[m].data
<1>1. info \in [Names -> Infos] /\ info[n] \in Infos
  BY Typed
<1> DEFINE i == [info[n] EXCEPT !.service = t]
<1>2. i.data = info[n].data
  BY <1>1 DEF Infos
<1>3. [info EXCEPT ![n].service = t] = [info EXCEPT ![n] = i]
  OBVIOUS
<1>. HIDE DEF i
<1>4. QED  BY <1>1, <1>2, <1>3

\* A connect and a request of another kind move no command.
LEMMA FinishCounts ==
  ASSUME Inv, DataCount, NEW c \in Clients, FinishConnect(c) \/ FinishRequest(c), setup' = setup
  PROVE  DataCount'
<1> DEFINE n == slot[c].name
<1>1. info \in [Names -> Infos] /\ slot \in [Clients -> Slots]
  BY Typed
<1>2. n \in Names
  BY <1>1 DEF FinishConnect, FinishRequest, Slots, NoRequest
<1>3. info[n] \in Infos
  BY <1>1, <1>2
<1>4. arrived' = arrived /\ sent' = sent /\ slot' = [slot EXCEPT ![c] = NoRequest]
  BY DEF FinishConnect, FinishRequest, udp
<1>5. \A d \in Clients : slot'[d].op = "upload" => slot'[d] = slot[d]
  BY <1>1, <1>4 DEF NoRequest
<1>6. \A t : [info[n] EXCEPT !.service = t].data = info[n].data
  BY <1>3 DEF Infos
<1>7. \A i, op : i.data = [i EXCEPT !.state = op].data
  OBVIOUS
<1>8. ASSUME NEW i, i.data = info[n].data, info' = [info EXCEPT ![n] = i]
      PROVE  DataCount'
  BY <1>1, <1>2, <1>4, <1>5, <1>8, SameData
<1>9. CASE FinishConnect(c)
  <2> DEFINE t == S!connect(info[n].service, TRUE)
             f == S!Handled(S!connect(info[n].service, FALSE))
             x == [info[n] EXCEPT !.service = t]
             y == [info[n] EXCEPT !.service = f]
  <2>1. \/ info' = [info EXCEPT ![n] = connect_handler(x)]
        \/ info' = [info EXCEPT ![n] = y]
    BY <1>9 DEF FinishConnect
  <2>. HIDE DEF t, f
  <2>2. x.data = info[n].data /\ y.data = info[n].data
    BY <1>6
  <2>. HIDE DEF x, y
  <2>3. connect_handler(x).data = info[n].data
    BY <1>7, <2>2 DEF connect_handler
  <2>. HIDE DEF n
  <2>4. QED  BY <1>8, <2>1, <2>2, <2>3
<1>10. CASE FinishRequest(c)
  <2> DEFINE done == S!send(info[n].service, slot[c].pdu)
             t    == S!Handled(done)
             x    == [info[n] EXCEPT !.service = t]
  <2>1. /\ slot[c].op \in {"bind", "start", "stop", "unbind"}
        /\ \/ info' = [info EXCEPT ![n] = Handler(x, slot[c].op)]
           \/ info' = [info EXCEPT ![n] = x]
    BY <1>10 DEF FinishRequest
  <2>. HIDE DEF t
  <2>2. x.data = info[n].data
    BY <1>6
  <2>. HIDE DEF x
  <2>3. Handler(x, slot[c].op).data = info[n].data
    BY <1>7, <2>1, <2>2 DEF Handler, bind_handler, start_handler, stop_handler, unbind_handler
  <2>. HIDE DEF n
  <2>4. QED  BY <1>8, <2>1, <2>2, <2>3
<1>11. QED  BY <1>9, <1>10

\* A command that arrives is one of the commands.
LEMMA ArrivalCounts ==
  ASSUME Inv, DataCount, Append_cltu_data, setup' = setup
  PROVE  DataCount'
<1> DEFINE k == arrived + 1
           d == info["cltu"].data
           i == [info["cltu"] EXCEPT !.data = Append(d, k)]
<1>1. /\ info \in [Names -> Infos] /\ "cltu" \in Names /\ info["cltu"] \in Infos
      /\ arrived < setup.data /\ arrived' = k /\ sent' = sent /\ slot' = slot
      /\ info' = [info EXCEPT !["cltu"] = i]
  BY Typed DEF Append_cltu_data
<1>2. setup.data \in Nat /\ arrived \in Nat
  BY SetupsAssumption DEF Inv, TypeInv, UdpOK
<1>3. k \in Commands /\ k <= setup.data
  BY <1>1, <1>2 DEF Commands
<1>4. Append(d, k) \in Seq(Commands)
  BY <1>1, <1>3 DEF DataCount
<1>5. i.data = Append(d, k)
  BY <1>1 DEF Infos
<1>6. Names' = Names /\ Commands' = Commands
  BY DEF Names, Commands
<1>. HIDE DEF i, d, k
<1>7. \A m \in Names : info'[m].data \in Seq(Commands)
  BY <1>1, <1>4, <1>5 DEF DataCount
<1>8. QED  BY <1>1, <1>3, <1>6, <1>7 DEF DataCount

\* Every step keeps what is counted.
LEMMA NextCounts ==
  ASSUME Inv, CountInv, [Next]_vars
  PROVE  CountInv'
<1>1. ServerCount /\ DataCount
  BY DEF CountInv
<1>2. ServerCount' /\ setup' = setup
  BY <1>1, ServerSteps
<1>3. ASSUME UNCHANGED <<info, slot, udp>> PROVE DataCount'
  BY <1>1, <1>2, <1>3, SameData DEF udp
<1>4. ASSUME Server PROVE DataCount'
  <2>1. ASSUME ServerRequest PROVE DataCount'
    <3>1. "server" \in Clients /\ Service \in Names
      <4>1. server.todo # <<>> /\ server.todo \in Seq(Names)
        BY <2>1 DEF ServerRequest, Inv, TypeInv, ServerOK
      <4>2. QED  BY <4>1, HeadTailProperties DEF Service, Clients
    <3>2. Begin("server", server.next, Service) \/ UNCHANGED <<info, slot, udp>>
      BY <2>1 DEF ServerRequest
    <3>3. QED  BY <1>1, <1>2, <1>3, <3>1, <3>2, BeginCounts
  <2>2. QED
    BY <1>3, <1>4, <2>1 DEF Server, bring_up_services, BroughtUp, TearDownStep, kill_servers
<1>5. ASSUME Environment PROVE DataCount'
  <2>1. ASSUME upload_data PROVE DataCount'
    BY <1>1, <1>2, <2>1, BeginCounts DEF upload_data, Clients
  <2>2. ASSUME OperatorRequest PROVE DataCount'
    BY <1>1, <1>2, <2>2, BeginCounts DEF OperatorRequest, Clients
  <2>3. ASSUME NEW n \in Names, Process(n) \/ Reply(n) \/ Abort(n) \/ Lose(n)
        PROVE  DataCount'
    <3>1. /\ slot' = slot /\ arrived' = arrived /\ sent' = sent
          /\ info' = info \/ \E t : info' = [info EXCEPT ![n].service = t]
      <4>1. CASE Process(n)
        BY <4>1 DEF Process, udp
      <4>2. CASE Reply(n)
        <5>1. info' = [info EXCEPT ![n].service = [info[n].service EXCEPT !.wire = Tail(@)]]
          BY <4>2 DEF Reply
        <5>2. QED  BY <4>2, <5>1 DEF Reply, udp
      <4>3. CASE Abort(n)
        BY <4>3 DEF Abort, udp
      <4>4. CASE Lose(n)
        <5>1. PICK how : info' = [info EXCEPT ![n].service.socket = how]
          BY <4>4 DEF Lose
        <5>2. info' = [info EXCEPT ![n].service = [info[n].service EXCEPT !.socket = how]]
          BY <5>1
        <5>3. QED  BY <4>4, <5>2 DEF Lose, udp
      <4>5. QED  BY <2>3, <4>1, <4>2, <4>3, <4>4
    <3>2. \A m \in Names : info'[m].data = info[m].data
      <4>1. CASE info' = info
        BY <4>1
      <4>2. CASE \E t : info' = [info EXCEPT ![n].service = t]
        <5>1. PICK t : info' = [info EXCEPT ![n].service = t]
          BY <4>2
        <5>2. \A m \in Names : [info EXCEPT ![n].service = t][m].data = info[m].data
          BY ServiceData
        <5>3. QED  BY <5>1, <5>2
      <4>3. QED  BY <3>1, <4>1, <4>2
    <3>3. QED  BY <1>1, <1>2, <3>1, <3>2, SameData
  <2>4. ASSUME tear_down_services PROVE DataCount'
    BY <1>3, <2>4 DEF tear_down_services
  <2>5. QED  BY <1>1, <1>2, <1>5, <2>1, <2>2, <2>3, <2>4, ArrivalCounts DEF Environment
<1>6. ASSUME NEW c \in Clients, Finish(c) PROVE DataCount'
  BY <1>1, <1>2, <1>6, FinishCounts, FinishUploadCounts DEF Finish
<1>7. ASSUME UNCHANGED vars PROVE DataCount'
  BY <1>3, <1>7 DEF vars, udp
<1>8. QED  BY <1>2, <1>4, <1>5, <1>6, <1>7 DEF Next, CountInv

\* The manager starts with nothing counted.
LEMMA InitCounts == Init => CountInv
<1> SUFFICES ASSUME Init PROVE CountInv
  OBVIOUS
<1>1. Names \in SUBSET {"raf", "rcf", "cltu"} /\ setup.data \in Nat
  BY SetupsAssumption DEF Init, Names
<1>2. /\ server = NewServer(Listed(Names)) /\ slot = [c \in Clients |-> NoRequest]
      /\ arrived = 0 /\ sent = <<>> /\ DOMAIN info = Names
      /\ \A n \in Names : info[n].data = <<>>
  BY DEF Init, Names
<1>3. ServerCount
  <2> DEFINE all == Listed(Names)
             k   == Cardinality(Names)
  <2>1. all \in Seq(Names) /\ Len(all) = k /\ k \in Nat
    BY <1>1, ListedType, ListedLength
  <2>. HIDE DEF all
  <2>2. server = NewServer(all)
    BY <1>2 DEF all
  <2>3. /\ server.doing = "bring_up" /\ server.next = "connect" /\ server.started = 0
        /\ server.todo = all /\ server \in Servers
    BY <2>1, <2>2 DEF NewServer, Servers, Legal
  <2>4. 0 + Len(all) <= k /\ 0 <= k
    BY <2>1
  <2>5. QED  BY <2>3, <2>4 DEF ServerCount
<1>4. DataCount
  <2>1. <<>> \in Seq(Commands) /\ 0 <= setup.data
    BY <1>1, EmptySeq
  <2>2. \A c \in Clients : slot[c].op # "upload"
    BY <1>2 DEF NoRequest
  <2>3. QED  BY <1>2, <2>1, <2>2 DEF DataCount
<1>5. QED  BY <1>3, <1>4 DEF CountInv

\* Every variable of the manager holds what the code can put there, for any services, any
\* number of requests, commands and faults: an exception never stays in a service, the
\* server counts no more services than it was given, and only commands that arrived wait
\* or are sent.
THEOREM TypeOKHolds == Spec => []TypeOK
<1>1. Init => Inv /\ CountInv
  BY InitInv, InitCounts
<1>2. Inv /\ CountInv /\ [Next]_vars => (Inv /\ CountInv)'
  BY NextInv, NextCounts
<1>3. Inv /\ CountInv => TypeOK
  <2> SUFFICES ASSUME Inv, CountInv PROVE TypeOK
    OBVIOUS
  <2>1. ServerCount /\ DataCount
    BY DEF CountInv
  <2>2. \A n \in Names :
          /\ info[n].state \in {"DISCONNECTED", "CONNECTED", "BOUND", "STARTED"}
          /\ info[n].data \in Seq(1 .. setup.data)
          /\ info[n].service.raised = S!NoError
    BY <2>1, Typed DEF DataCount, Commands, Infos, Resting, S!NoError
  <2>3. \A c \in Clients : slot[c] # NoRequest => slot[c].name \in Names
    BY Typed DEF Slots
  <2>4. /\ server.doing \in {"bring_up", "ready", "tear_down", "exited"}
        /\ server.started \in 0 .. Cardinality(Names)
    <3>1. server \in Servers /\ server.started <= Cardinality(Names)
      BY <2>1 DEF ServerCount
    <3>2. Cardinality(Names) \in Nat
      BY SetupsAssumption, ListedLength DEF Inv, TypeInv, Names
    <3>3. QED  BY <3>1, <3>2 DEF Servers
  <2>5. \A i \in 1 .. Len(queue) : queue[i].from \in Names
    <3>1. queue \in Seq(Read)
      BY Typed
    <3>2. \A i \in 1 .. Len(queue) : queue[i] \in Read
      BY <3>1, ElementOfSeq
    <3>3. QED  BY <3>2 DEF Read
  <2>6. arrived \in 0 .. setup.data /\ sent \in Seq(1 .. setup.data)
    <3>1. setup.data \in Nat /\ arrived \in Nat
      BY SetupsAssumption DEF Inv, TypeInv, UdpOK
    <3>2. QED  BY <2>1, <3>1 DEF DataCount, Commands
  <2>7. QED  BY <2>2, <2>3, <2>4, <2>5, <2>6 DEF TypeOK
<1>4. QED  BY <1>1, <1>2, <1>3, PTL DEF Spec
=============================================================================
