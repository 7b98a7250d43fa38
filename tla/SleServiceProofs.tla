-------------------------- MODULE SleServiceProofs --------------------------
(***************************************************************************)
(* That an SLE service relays the frames in order, agrees with its         *)
(* provider when nothing is on its way and numbers its CLTUs in sequence,  *)
(* for every kind of service and every bound on calls, buffers and faults. *)
(***************************************************************************)
EXTENDS SleService, SequenceTheorems, FiniteSetTheorems, TLAPS

----------------------------------------------------------------------------
(* The types of what a service works on. *)

Ops == {"bind", "unbind", "start", "stop", "schedule", "transfer", "throw", "abort"}
Requests == [op : Ops, n : Nat]

States  == {"unbound", "ready", "active"}
Sockets == {"none", "open", "reset", "broken", "closed"}
Ends    == {"open", "closed"}
Errors  ==
  {"none", "socket.error", "ValueError", "AttributeError", "TypeError", "PyAsn1Error",
   "IndexError", "KeyError", "Exception"}

Services ==
  [kind : Kinds, auth_level : AuthLevels, frame_type : FrameTypes, plugin : BOOLEAN,
   state : States, socket : Sockets, telem : Ends, monitor : 0 .. 1, processor : 0 .. 1,
   cltu_id : Nat, event_invoc_id : Nat, wire : Seq(Requests), forwarded : Seq(Nat),
   raised : Errors]

Providers ==
  [state : States, up : BOOLEAN, nextCltu : Nat, nextEvent : Nat, refused : BOOLEAN,
   outOfSequence : BOOLEAN]

\* The items of a buffer that begins after the frame numbered o.
BuffersAfter(o) ==
  LET item(of, k) == [of |-> of, n |-> o + k]
  IN  {<<item("frame", 1), item("idle", 2)>>}
        \cup {<<[of |-> of, n |-> o], item("empty", 1), item("frame", 2)>> :
               of \in S!Notifications}

\* The frame before those of a buffer.
Base(pdu) == IF Len(pdu.items) = 2 THEN pdu.items[1].n - 1 ELSE pdu.items[1].n

IsBuffer(pdu) == pdu.type = "TransferBuffer"

\* The returns that tell a new state of the association, and that state.
Telling == {"BindReturn", "UnbindReturn", "StartReturn", "StopReturn"}
Told(pdu) ==
  CASE pdu.type = "BindReturn"   -> IF pdu.result = "positive" THEN "ready" ELSE "unbound"
    [] pdu.type = "UnbindReturn" -> "unbound"
    [] pdu.type = "StartReturn"  -> IF pdu.result = "positive" THEN "active" ELSE "ready"
    [] pdu.type = "StopReturn"   -> IF pdu.result = "positive" THEN "ready" ELSE "active"

Stranger(pdu) == pdu.type = "BindReturn" /\ pdu.result = "stranger"

Items == {<<>>} \cup UNION {BuffersAfter(o) : o \in Nat}
Results ==
  {"positive", "negative", "stranger", "common", "specific", "listed", "otherReason",
   "radiated", "frames"} \cup Locks

PduOK(pdu) ==
  /\ pdu.type = "BindReturn" => pdu.result \in {"positive", "negative", "stranger"}
  /\ IsBuffer(pdu) => Base(pdu) \in Nat /\ pdu.items \in BuffersAfter(Base(pdu))

Pdus == {pdu \in [type : PduTypes, result : Results, n : Nat, items : Items] : PduOK(pdu)}

----------------------------------------------------------------------------
(* The inductive invariant. *)

\* What was sent to the service and not handled, in its order.
Ahead == queue \o inbound

Aborting == \E i \in 1 .. Len(service.wire) : service.wire[i].op = "abort"

TypeInv ==
  /\ service \in Services /\ service.raised = "none"
  /\ provider \in Providers
  /\ provider.up => service.socket = "open"
  /\ queue \in Seq(Pdus) /\ inbound \in Seq(Pdus)
  /\ calls \in 0 .. MaxCalls /\ odd \in 0 .. MaxOdd /\ connections \in 0 .. MaxConnections
  /\ buffers \in 0 .. MaxBuffers /\ faults \in 0 .. MaxFaults
  /\ offered = 2 * buffers
  /\ stale \in BOOLEAN /\ saved \in BOOLEAN

Counted(pdus, n) == \A i \in 1 .. Len(pdus) : pdus[i].n <= n

\* No identifier exceeds the number of calls.
CountInv ==
  /\ service.cltu_id <= calls /\ service.event_invoc_id <= calls
  /\ \A i \in 1 .. Len(service.wire) :
       service.wire[i].op = "throw" => service.wire[i].n < calls
  /\ Counted(Ahead, calls)

\* The buffers on their way hold frames that follow each other, and the last relayed.
LastOf(frames) == IF frames = <<>> THEN 0 ELSE frames[Len(frames)]

Framed(pdus, last, end) ==
  /\ last <= end
  /\ \A i \in 1 .. Len(pdus) :
       IsBuffer(pdus[i]) => last <= Base(pdus[i]) /\ Base(pdus[i]) + 2 <= end
  /\ \A i, j \in 1 .. Len(pdus) :
       i < j /\ IsBuffer(pdus[i]) /\ IsBuffer(pdus[j]) => Base(pdus[i]) + 2 <= Base(pdus[j])

FrameInv == Framed(Ahead, LastOf(service.forwarded), offered)

\* The last return on its way tells the provider's state; without one the service knows it.
\* Either way unless the service has aborted, or will do so.
Tells(pdus, s, p) ==
  /\ \A i \in 1 .. Len(pdus) :
       /\ pdus[i].type \in Telling
       /\ \A j \in i + 1 .. Len(pdus) : pdus[j].type \notin Telling
       => Told(pdus[i]) = p.state
  /\ (\A i \in 1 .. Len(pdus) : pdus[i].type \notin Telling) => s.state = p.state

AgreeInv ==
  \/ ~provider.up \/ service.processor = 0 \/ stale \/ Aborting
  \/ \E i \in 1 .. Len(Ahead) : Stranger(Ahead[i])
  \/ Tells(Ahead, service, provider)

\* f[i] is the identifier a CLTU would have if it were the i-th request on the wire.
Numbering(f, wire, id) ==
  /\ f[Len(wire) + 1] = id
  /\ \A i \in 1 .. Len(wire) :
       /\ f[i + 1] = IF wire[i].op = "transfer" THEN f[i] + 1 ELSE f[i]
       /\ wire[i].op \in {"start", "transfer"} => wire[i].n = f[i]

\* The requests on the wire are numbered from what the provider expects next.
Numbered(s, p) ==
  \E f \in [1 .. Len(s.wire) + 1 -> Nat] :
    /\ Numbering(f, s.wire, s.cltu_id)
    /\ p.state = "active" /\ ~p.refused => f[1] = p.nextCltu

CltuInv ==
  /\ CltusInSequence
  /\ service.kind # "cltu" => service.cltu_id = 0
  /\ provider.up /\ ~saved => Numbered(service, provider)

Inv == TypeInv /\ CountInv /\ FrameInv /\ AgreeInv /\ CltuInv

----------------------------------------------------------------------------
(* What the methods of a service preserve. *)

\* A field of a service may be given any value of its own.
LEMMA Updates ==
  ASSUME NEW s \in Services
  PROVE  /\ \A v \in States  : [s EXCEPT !.state = v] \in Services
         /\ \A v \in Sockets : [s EXCEPT !.socket = v] \in Services
         /\ \A v \in Errors  : [s EXCEPT !.raised = v] \in Services
         /\ \A v \in Seq(Requests) : [s EXCEPT !.wire = v] \in Services
         /\ \A v \in Seq(Nat) : [s EXCEPT !.forwarded = v] \in Services
         /\ \A v \in Nat : /\ [s EXCEPT !.cltu_id = v] \in Services
                           /\ [s EXCEPT !.event_invoc_id = v] \in Services
         /\ \A v \in 0 .. 1 : [s EXCEPT !.processor = v] \in Services
<1>1. \A v \in States  : [s EXCEPT !.state = v] \in Services
  BY DEF Services
<1>2. \A v \in Sockets : [s EXCEPT !.socket = v] \in Services
  BY DEF Services
<1>3. \A v \in Errors  : [s EXCEPT !.raised = v] \in Services
  BY DEF Services
<1>4. \A v \in Seq(Requests) : [s EXCEPT !.wire = v] \in Services
  BY DEF Services
<1>5. \A v \in Seq(Nat) : [s EXCEPT !.forwarded = v] \in Services
  BY DEF Services
<1>6. \A v \in Nat : [s EXCEPT !.cltu_id = v] \in Services
  BY DEF Services
<1>7. \A v \in Nat : [s EXCEPT !.event_invoc_id = v] \in Services
  BY DEF Services
<1>8. \A v \in 0 .. 1 : [s EXCEPT !.processor = v] \in Services
  BY DEF Services
<1>9. QED  BY <1>1, <1>2, <1>3, <1>4, <1>5, <1>6, <1>7, <1>8

\* send puts a request on the wire, closes a reset socket, or raises.
LEMMA SendOutcome ==
  ASSUME NEW s \in Services, NEW r \in Requests
  PROVE  /\ S!send(s, r) \in Services
         /\ s.socket = "open" => S!send(s, r) = [s EXCEPT !.wire = Append(s.wire, r)]
         /\ s.socket = "reset" => S!send(s, r) = [s EXCEPT !.socket = "closed"]
         /\ s.socket \notin {"open", "reset"} =>
              \E e \in Errors \ {"none"} : S!send(s, r) = [s EXCEPT !.raised = e]
<1>1. CASE s.socket = "open"
  <2>1. S!send(s, r) = [s EXCEPT !.wire = Append(s.wire, r)]
    BY <1>1 DEF S!send
  <2>2. Append(s.wire, r) \in Seq(Requests)
    BY DEF Services
  <2>3. QED  BY <1>1, <2>1, <2>2, Updates
<1>2. CASE s.socket = "reset"
  <2>1. S!send(s, r) = [s EXCEPT !.socket = "closed"]
    BY <1>2 DEF S!send
  <2>2. QED  BY <1>2, <2>1, Updates DEF Sockets
<1>3. CASE s.socket \in {"none", "broken", "closed"}
  <2>1. PICK e \in {"socket.error", "ValueError", "AttributeError"} :
          S!send(s, r) = [s EXCEPT !.raised = e]
    BY <1>3 DEF S!send, S!Raise
  <2>2. e \in Errors \ {"none"}
    BY DEF Errors
  <2>3. [s EXCEPT !.raised = e] \in Services
    BY <2>2, Updates
  <2>4. \E x \in Errors \ {"none"} : S!send(s, r) = [s EXCEPT !.raised = x]
    BY <2>1, <2>2
  <2>5. QED  BY <1>3, <2>1, <2>3, <2>4
<1>4. QED  BY <1>1, <1>2, <1>3 DEF Services, Sockets

\* A PEER-ABORT of the user or of a handler.
Aborts(s) ==
  LET sent == S!send(s, S!Request("abort"))
  IN  IF sent.raised = S!NoError THEN [sent EXCEPT !.state = "unbound"] ELSE sent

\* Every module of a service has the same send and disconnect.
LEMMA SameSend ==
  ASSUME NEW s
  PROVE  /\ \A r : /\ RAF!send(s, r) = S!send(s, r)
                   /\ RCF!send(s, r) = S!send(s, r)
                   /\ CLTU!send(s, r) = S!send(s, r)
         /\ RAF!disconnect(s) = S!disconnect(s)
         /\ RCF!disconnect(s) = S!disconnect(s)
         /\ CLTU!disconnect(s) = S!disconnect(s)
BY DEF S!send, RAF!send, RCF!send, CLTU!send, S!Raise, RAF!Raise, RCF!Raise, CLTU!Raise,
       S!disconnect, RAF!disconnect, RCF!disconnect, CLTU!disconnect,
       S!Less, RAF!Less, RCF!Less, CLTU!Less

\* The three services abort in the same way.
LEMMA SameAborts ==
  ASSUME NEW s
  PROVE  /\ RAF!peer_abort(s) = Aborts(s)
         /\ RCF!peer_abort(s) = Aborts(s)
         /\ CLTU!peer_abort(s) = Aborts(s)
BY SameSend DEF Aborts, RAF!peer_abort, RCF!peer_abort, CLTU!peer_abort, S!Request,
     RAF!Request, RCF!Request, CLTU!Request, S!NoError, RAF!NoError, RCF!NoError, CLTU!NoError

AbortRequest == [op |-> "abort", n |-> 0]

\* A PEER-ABORT is sent like another request, and unbinds when it is sent.
LEMMA AbortsOutcome ==
  ASSUME NEW s \in Services, s.raised = "none"
  PROVE  /\ Aborts(s) \in Services
         /\ s.socket = "open" =>
              Aborts(s) = [s EXCEPT !.wire = Append(s.wire, AbortRequest), !.state = "unbound"]
         /\ s.socket = "reset" => Aborts(s) = [s EXCEPT !.socket = "closed", !.state = "unbound"]
         /\ s.socket \notin {"open", "reset"} =>
              \E e \in Errors \ {"none"} : Aborts(s) = [s EXCEPT !.raised = e]
<1> DEFINE sent == S!send(s, AbortRequest)
<1>1. AbortRequest \in Requests
  BY DEF AbortRequest, Requests, Ops
<1>2. Aborts(s) = IF sent.raised = "none" THEN [sent EXCEPT !.state = "unbound"] ELSE sent
  BY DEF Aborts, S!Request, AbortRequest, S!NoError
<1>3. /\ sent \in Services
      /\ s.socket = "open" => sent = [s EXCEPT !.wire = Append(s.wire, AbortRequest)]
      /\ s.socket = "reset" => sent = [s EXCEPT !.socket = "closed"]
      /\ s.socket \notin {"open", "reset"} => \E e \in Errors \ {"none"} : sent = [s EXCEPT !.raised = e]
  BY <1>1, SendOutcome
<1>. HIDE DEF sent
<1>4. Aborts(s) \in Services
  BY <1>2, <1>3, Updates DEF States
<1>5. CASE s.socket = "open"
  <2>1. sent.raised = "none"
    BY <1>3, <1>5 DEF Services
  <2>2. QED  BY <1>2, <1>3, <1>4, <1>5, <2>1 DEF Services
<1>6. CASE s.socket = "reset"
  <2>1. sent.raised = "none"
    BY <1>3, <1>6 DEF Services
  <2>2. QED  BY <1>2, <1>3, <1>4, <1>6, <2>1 DEF Services
<1>7. CASE s.socket \notin {"open", "reset"}
  <2>1. PICK e \in Errors \ {"none"} : sent = [s EXCEPT !.raised = e]
    BY <1>3, <1>7
  <2>2. sent.raised # "none"
    BY <2>1 DEF Services
  <2>3. QED  BY <1>2, <1>4, <1>7, <2>1, <2>2
<1>8. QED  BY <1>5, <1>6, <1>7

\* disconnect closes both sockets and ends the greenlets.
LEMMA DisconnectOutcome ==
  ASSUME NEW s \in Services, s.socket # "none"
  PROVE  S!disconnect(s) = [s EXCEPT !.socket = "closed", !.telem = "closed",
                                     !.monitor = 0, !.processor = 0]
<1>1. S!Less(s.monitor) = 0 /\ S!Less(s.processor) = 0
  BY DEF S!Less, Services
<1>2. QED  BY <1>1 DEF S!disconnect

----------------------------------------------------------------------------
(* The frames of a buffer. *)

Extras(o) == {<<>>, <<o + 1>>, <<o + 2>>, <<o + 1, o + 2>>}

\* The handler of an item raises one of these errors.
Raising(s) == {[s EXCEPT !.raised = error] : error \in {"socket.error", "KeyError"}}

\* A service of RAF that took some of the frames, or stopped at an error.
Took(s, t, extra) ==
  \/ t = [s EXCEPT !.forwarded = s.forwarded \o extra]
  \/ t \in Raising([s EXCEPT !.forwarded = s.forwarded \o extra])

\* The kinds of items of a buffer.
ItemKinds == {"frame", "idle", "empty"} \cup S!Notifications

\* An item is forwarded, left out or refused.
ItemTaken(s, item, t) ==
  \/ t = s
  \/ item.of \in {"frame", "idle"} /\ t = [s EXCEPT !.forwarded = Append(s.forwarded, item.n)]
  \/ t \in Raising(s)

\* The two return services take an item of a buffer in one of those ways.
LEMMA ItemOutcome ==
  ASSUME NEW s, NEW item, item.of \in ItemKinds
  PROVE  /\ ItemTaken(s, item, RAF!Item(s, item))
         /\ ItemTaken(s, item, IF item.of \in RCF!Notifications
                               THEN RCF!sync_notify_handler(s, item)
                               ELSE RCF!transfer_data_invoc_handler(s, item))
<1>1. ItemTaken(s, item, RAF!Item(s, item))
  BY DEF ItemTaken, Raising, ItemKinds, RAF!Item, RAF!Notifications, S!Notifications, RAF!sync_notify_handler, RAF!transfer_data_invoc_handler,
         RAF!plugin_transfer_data_invoc_handler, RAF!Raise, RAF!Idle
<1>2. ItemTaken(s, item, IF item.of \in RCF!Notifications
                         THEN RCF!sync_notify_handler(s, item)
                         ELSE RCF!transfer_data_invoc_handler(s, item))
  BY DEF ItemTaken, Raising, ItemKinds, RCF!Notifications, S!Notifications, RCF!sync_notify_handler,
         RCF!transfer_data_invoc_handler, RCF!Raise, RCF!Idle
<1>3. QED  BY <1>1, <1>2

\* A frame appended to another one.
LEMMA AppendTwo ==
  ASSUME NEW x \in Nat, NEW y \in Nat PROVE Append(<<x>>, y) = <<x, y>>
<1> DEFINE p == Append(<<x>>, y)
           q == <<x, y>>
<1>1. <<x>> \in Seq(Nat) /\ Len(<<x>>) = 1 /\ <<x>>[1] = x
  OBVIOUS
<1>2. q \in Seq(Nat) /\ Len(q) = 2 /\ q[1] = x /\ q[2] = y
  OBVIOUS
<1>3. p \in Seq(Nat) /\ Len(p) = 2 /\ p[1] = x /\ p[2] = y
  BY <1>1, AppendProperties
<1>. HIDE DEF p, q
<1>4. \A i \in 1 .. Len(p) : p[i] = q[i]
  BY <1>2, <1>3
<1>5. p = q
  BY <1>2, <1>3, <1>4, SeqEqual
<1>6. QED  BY <1>5 DEF p, q

\* Appending to a concatenation appends to its second part.
LEMMA AppendConcat ==
  ASSUME NEW X, NEW a \in Seq(X), NEW b \in Seq(X), NEW x \in X,
         NEW c, c = a \o b, NEW d, d = Append(b, x), NEW e, e = Append(c, x)
  PROVE  e = a \o d
<1>1. <<x>> \in Seq(X) /\ a \o b \in Seq(X)
  BY ConcatProperties
<1>2. Append(a \o b, x) = (a \o b) \o <<x>> /\ Append(b, x) = b \o <<x>>
  BY <1>1, AppendIsConcat
<1>3. (a \o b) \o <<x>> = a \o (b \o <<x>>)
  BY ONLY <1>1, a \in Seq(X), b \in Seq(X), ConcatAssociative
<1>4. QED  BY <1>2, <1>3

\* An item is taken only while nothing was raised.
NextTook(t, item, u) == IF t.raised # "none" THEN u = t ELSE ItemTaken(t, item, u)

\* After an item there are the frames there were before, or one more.
LEMMA TookItem ==
  ASSUME NEW s \in Services, s.raised = "none", NEW extra \in Seq(Nat), NEW t, Took(s, t, extra),
         NEW item, item.n \in Nat, NEW u, NextTook(t, item, u)
  PROVE  \/ Took(s, u, extra)
         \/ item.of \in {"frame", "idle"} /\ Took(s, u, Append(extra, item.n))
<1> DEFINE v == s.forwarded \o extra
           w == s.forwarded \o Append(extra, item.n)
<1>1. v \in Seq(Nat) /\ w \in Seq(Nat) /\ Append(v, item.n) = w
  <2>1. s.forwarded \in Seq(Nat)
    BY DEF Services
  <2>2. v \in Seq(Nat) /\ Append(extra, item.n) \in Seq(Nat)
    BY <2>1, ConcatProperties, AppendProperties
  <2>3. w \in Seq(Nat)
    BY <2>1, <2>2, ConcatProperties
  <2>4. Append(v, item.n) = w
    <3> DEFINE f == s.forwarded
               n == item.n
    <3>1. f \in Seq(Nat) /\ n \in Nat
      BY <2>1
    <3>. HIDE DEF f, n
    <3>2. Append(f \o extra, n) = f \o Append(extra, n)
      BY <3>1, AppendConcat, ZenonT(60)
    <3>3. QED  BY <3>2 DEF f, n
  <2>5. QED  BY <2>2, <2>3, <2>4
<1>2. t = [s EXCEPT !.forwarded = v] \/ t \in Raising([s EXCEPT !.forwarded = v])
  BY DEF Took
<1>3. SUFFICES \/ u = [s EXCEPT !.forwarded = v]
               \/ u \in Raising([s EXCEPT !.forwarded = v])
               \/ /\ item.of \in {"frame", "idle"}
                  /\ \/ u = [s EXCEPT !.forwarded = w]
                     \/ u \in Raising([s EXCEPT !.forwarded = w])
  BY DEF Took
<1>. HIDE DEF v, w
<1>4. CASE t \in Raising([s EXCEPT !.forwarded = v])
  <2>1. t.raised # "none"
    BY <1>4 DEF Services, Raising
  <2>2. QED  BY <1>4, <2>1 DEF NextTook
<1>5. CASE t = [s EXCEPT !.forwarded = v]
  <2>1. t.raised = "none" /\ t.forwarded = v
    BY <1>5 DEF Services
  <2>2. CASE u = t
    BY <1>5, <2>2
  <2>3. CASE item.of \in {"frame", "idle"} /\ u = [t EXCEPT !.forwarded = Append(t.forwarded, item.n)]
    <3>1. u = [t EXCEPT !.forwarded = w]
      BY <1>1, <2>1, <2>3
    <3>2. u = [s EXCEPT !.forwarded = w]
      BY <1>5, <3>1 DEF Services
    <3>3. QED  BY <2>3, <3>2
  <2>4. CASE u \in Raising(t)
    BY <1>5, <2>4
  <2>5. QED  BY <2>1, <2>2, <2>3, <2>4 DEF ItemTaken, NextTook
<1>6. QED  BY <1>2, <1>4, <1>5

\* A buffer of two frames, or one with a notification before them.
LEMMA BufferShape ==
  ASSUME NEW o \in Nat, NEW items \in BuffersAfter(o)
  PROVE  /\ Len(items) \in {2, 3}
         /\ Len(items) = 2 => /\ items[1] = [of |-> "frame", n |-> o + 1]
                              /\ items[2] = [of |-> "idle", n |-> o + 2]
         /\ Len(items) = 3 => /\ items[1].n = o /\ items[1].of \in S!Notifications
                              /\ items[2] = [of |-> "empty", n |-> o + 1]
                              /\ items[3] = [of |-> "frame", n |-> o + 2]
BY DEF BuffersAfter

\* What became of a buffer: some of its frames, in their order, went on.
LEMMA RafBuffer ==
  ASSUME NEW s \in Services, s.raised = "none", NEW pdu, NEW o \in Nat,
         pdu.items \in BuffersAfter(o)
  PROVE  \E extra \in Extras(o) : Took(s, RAF!data_transfer_handler(s, pdu), extra)
<1> DEFINE items == pdu.items
           Item(t, item) == RAF!Item(t, item)
           Result(g, i) ==
             IF i = 0 THEN s
             ELSE IF g[i - 1].raised # "none" THEN g[i - 1] ELSE Item(g[i - 1], items[i])
           F == CHOOSE g : g = [i \in 0 .. Len(items) |-> Result(g, i)]
           a == Item(s, items[1])
           b == IF a.raised # "none" THEN a ELSE Item(a, items[2])
           c == IF b.raised # "none" THEN b ELSE Item(b, items[3])
<1>1. RAF!data_transfer_handler(s, pdu) = F[Len(items)]
  BY DEF RAF!data_transfer_handler, RAF!NoError
<1>2. \A t, item :
        item.of \in ItemKinds => ItemTaken(t, item, Item(t, item))
  BY ItemOutcome
<1>3. Took(s, s, <<>>)
  <2>1. s.forwarded \o <<>> = s.forwarded
    BY ConcatEmptySeq DEF Services
  <2>2. s = [s EXCEPT !.forwarded = s.forwarded]
    BY DEF Services
  <2>3. QED  BY <2>1, <2>2 DEF Took
<1>4. o + 1 \in Nat /\ o + 2 \in Nat /\ <<>> \in Seq(Nat)
  BY EmptySeq
<1>. HIDE DEF Item
<1>5. CASE Len(items) = 2
  <2>1. items[1] = [of |-> "frame", n |-> o + 1] /\ items[2] = [of |-> "idle", n |-> o + 2]
    BY <1>5, BufferShape, Zenon
  <2>2. F[2] = b
    <3> DEFINE h == [i \in 0 .. 2 |-> IF i = 0 THEN s ELSE IF i = 1 THEN a ELSE b]
    <3>1. h = [i \in 0 .. Len(items) |-> Result(h, i)]
      <4> HIDE DEF items
      <4> QED BY <1>5
    <3>. HIDE DEF h, a, b, items
    <3>2. F = [i \in 0 .. Len(items) |-> Result(F, i)]
      BY <3>1
    <3>. HIDE DEF F
    <3>3. F[0] = s /\ F[1] = a /\ F[2] = b
      BY <1>5, <3>2 DEF a, b
    <3>4. QED  BY <3>3
  <2>3. NextTook(s, items[1], a)
    BY <1>2, <2>1 DEF NextTook, ItemKinds
  <2>4. NextTook(a, items[2], b)
    BY <1>2, <2>1 DEF NextTook, ItemKinds
  <2>5. /\ items[1].n \in Nat /\ items[1].n = o + 1
        /\ items[2].n \in Nat /\ items[2].n = o + 2
    BY <2>1
  <2>. HIDE DEF a, b
  <2>6. Took(s, a, <<>>) \/ Took(s, a, Append(<<>>, o + 1))
    BY <1>3, <1>4, <2>3, <2>5, TookItem
  <2>7. CASE Took(s, a, <<>>)
    <3>1. Took(s, b, <<>>) \/ Took(s, b, Append(<<>>, o + 2))
      BY <1>4, <2>4, <2>5, <2>7, TookItem
    <3>2. QED  BY <1>1, <1>5, <2>2, <3>1 DEF Extras
  <2>8. CASE Took(s, a, <<o + 1>>)
    <3>1. <<o + 1>> \in Seq(Nat)
      BY <1>4
    <3>2. Took(s, b, <<o + 1>>) \/ Took(s, b, Append(<<o + 1>>, o + 2))
      BY <1>4, <2>4, <2>5, <2>8, <3>1, TookItem
    <3>3. Append(<<o + 1>>, o + 2) = <<o + 1, o + 2>>
      BY <1>4, AppendTwo
    <3>4. Took(s, b, <<o + 1>>) \/ Took(s, b, <<o + 1, o + 2>>)
      BY <3>2, <3>3
    <3>5. QED  BY <1>1, <1>5, <2>2, <3>4 DEF Extras
  <2>9. QED  BY <2>6, <2>7, <2>8
<1>6. CASE Len(items) = 3
  <2>1. /\ items[1].n = o /\ items[1].of \in S!Notifications
        /\ items[2] = [of |-> "empty", n |-> o + 1]
        /\ items[3] = [of |-> "frame", n |-> o + 2]
    BY <1>6, BufferShape, Zenon
  <2>2. F[3] = c
    <3> DEFINE h == [i \in 0 .. 3 |-> IF i = 0 THEN s ELSE IF i = 1 THEN a ELSE IF i = 2 THEN b ELSE c]
    <3>1. h = [i \in 0 .. Len(items) |-> Result(h, i)]
      <4> HIDE DEF items
      <4> QED BY <1>6
    <3>. HIDE DEF h, a, b, c, items
    <3>2. F = [i \in 0 .. Len(items) |-> Result(F, i)]
      BY <3>1
    <3>. HIDE DEF F
    <3>3. F[0] = s /\ F[1] = a /\ F[2] = b /\ F[3] = c
      BY <1>6, <3>2 DEF a, b, c
    <3>4. QED  BY <3>3
  <2>3. NextTook(s, items[1], a)
    BY <1>2, <2>1 DEF NextTook, ItemKinds
  <2>4. NextTook(a, items[2], b)
    BY <1>2, <2>1 DEF NextTook, ItemKinds
  <2>5. NextTook(b, items[3], c)
    BY <1>2, <2>1 DEF NextTook, ItemKinds
  <2>10. /\ items[1].n \in Nat /\ items[1].of \notin {"frame", "idle"}
         /\ items[2].n \in Nat /\ items[2].of \notin {"frame", "idle"}
         /\ items[3].n \in Nat /\ items[3].n = o + 2
    BY <2>1 DEF S!Notifications
  <2>. HIDE DEF a, b, c
  <2>6. Took(s, a, <<>>)
    BY <1>3, <1>4, <2>3, <2>10, TookItem
  <2>7. Took(s, b, <<>>)
    BY <1>4, <2>4, <2>6, <2>10, TookItem
  <2>8. Took(s, c, <<>>) \/ Took(s, c, Append(<<>>, o + 2))
    BY <1>4, <2>5, <2>7, <2>10, TookItem
  <2>9. QED  BY <1>1, <1>6, <2>2, <2>8 DEF Extras
<1>7. Len(items) \in {2, 3}
  BY BufferShape, Zenon
<1>8. QED  BY <1>5, <1>6, <1>7

\* So it is for RCF.
LEMMA RcfBuffer ==
  ASSUME NEW s \in Services, s.raised = "none", NEW pdu, NEW o \in Nat,
         pdu.items \in BuffersAfter(o)
  PROVE  \E extra \in Extras(o) : Took(s, RCF!data_transfer_handler(s, pdu), extra)
<1> DEFINE items == pdu.items
           Item(t, item) == IF item.of \in RCF!Notifications THEN RCF!sync_notify_handler(t, item)
                            ELSE RCF!transfer_data_invoc_handler(t, item)
           Result(g, i) ==
             IF i = 0 THEN s
             ELSE IF g[i - 1].raised # "none" THEN g[i - 1] ELSE Item(g[i - 1], items[i])
           F == CHOOSE g : g = [i \in 0 .. Len(items) |-> Result(g, i)]
           a == Item(s, items[1])
           b == IF a.raised # "none" THEN a ELSE Item(a, items[2])
           c == IF b.raised # "none" THEN b ELSE Item(b, items[3])
<1>1. RCF!data_transfer_handler(s, pdu) = F[Len(items)]
  BY DEF RCF!data_transfer_handler, RCF!NoError
<1>2. \A t, item :
        item.of \in ItemKinds => ItemTaken(t, item, Item(t, item))
  BY ItemOutcome
<1>3. Took(s, s, <<>>)
  <2>1. s.forwarded \o <<>> = s.forwarded
    BY ConcatEmptySeq DEF Services
  <2>2. s = [s EXCEPT !.forwarded = s.forwarded]
    BY DEF Services
  <2>3. QED  BY <2>1, <2>2 DEF Took
<1>4. o + 1 \in Nat /\ o + 2 \in Nat /\ <<>> \in Seq(Nat)
  BY EmptySeq
<1>. HIDE DEF Item
<1>5. CASE Len(items) = 2
  <2>1. items[1] = [of |-> "frame", n |-> o + 1] /\ items[2] = [of |-> "idle", n |-> o + 2]
    BY <1>5, BufferShape, Zenon
  <2>2. F[2] = b
    <3> DEFINE h == [i \in 0 .. 2 |-> IF i = 0 THEN s ELSE IF i = 1 THEN a ELSE b]
    <3>1. h = [i \in 0 .. Len(items) |-> Result(h, i)]
      <4> HIDE DEF items
      <4> QED BY <1>5
    <3>. HIDE DEF h, a, b, items
    <3>2. F = [i \in 0 .. Len(items) |-> Result(F, i)]
      BY <3>1
    <3>. HIDE DEF F
    <3>3. F[0] = s /\ F[1] = a /\ F[2] = b
      BY <1>5, <3>2 DEF a, b
    <3>4. QED  BY <3>3
  <2>3. NextTook(s, items[1], a)
    BY <1>2, <2>1 DEF NextTook, ItemKinds
  <2>4. NextTook(a, items[2], b)
    BY <1>2, <2>1 DEF NextTook, ItemKinds
  <2>5. /\ items[1].n \in Nat /\ items[1].n = o + 1
        /\ items[2].n \in Nat /\ items[2].n = o + 2
    BY <2>1
  <2>. HIDE DEF a, b
  <2>6. Took(s, a, <<>>) \/ Took(s, a, Append(<<>>, o + 1))
    BY <1>3, <1>4, <2>3, <2>5, TookItem
  <2>7. CASE Took(s, a, <<>>)
    <3>1. Took(s, b, <<>>) \/ Took(s, b, Append(<<>>, o + 2))
      BY <1>4, <2>4, <2>5, <2>7, TookItem
    <3>2. QED  BY <1>1, <1>5, <2>2, <3>1 DEF Extras
  <2>8. CASE Took(s, a, <<o + 1>>)
    <3>1. <<o + 1>> \in Seq(Nat)
      BY <1>4
    <3>2. Took(s, b, <<o + 1>>) \/ Took(s, b, Append(<<o + 1>>, o + 2))
      BY <1>4, <2>4, <2>5, <2>8, <3>1, TookItem
    <3>3. Append(<<o + 1>>, o + 2) = <<o + 1, o + 2>>
      BY <1>4, AppendTwo
    <3>4. Took(s, b, <<o + 1>>) \/ Took(s, b, <<o + 1, o + 2>>)
      BY <3>2, <3>3
    <3>5. QED  BY <1>1, <1>5, <2>2, <3>4 DEF Extras
  <2>9. QED  BY <2>6, <2>7, <2>8
<1>6. CASE Len(items) = 3
  <2>1. /\ items[1].n = o /\ items[1].of \in S!Notifications
        /\ items[2] = [of |-> "empty", n |-> o + 1]
        /\ items[3] = [of |-> "frame", n |-> o + 2]
    BY <1>6, BufferShape, Zenon
  <2>2. F[3] = c
    <3> DEFINE h == [i \in 0 .. 3 |-> IF i = 0 THEN s ELSE IF i = 1 THEN a ELSE IF i = 2 THEN b ELSE c]
    <3>1. h = [i \in 0 .. Len(items) |-> Result(h, i)]
      <4> HIDE DEF items
      <4> QED BY <1>6
    <3>. HIDE DEF h, a, b, c, items
    <3>2. F = [i \in 0 .. Len(items) |-> Result(F, i)]
      BY <3>1
    <3>. HIDE DEF F
    <3>3. F[0] = s /\ F[1] = a /\ F[2] = b /\ F[3] = c
      BY <1>6, <3>2 DEF a, b, c
    <3>4. QED  BY <3>3
  <2>3. NextTook(s, items[1], a)
    BY <1>2, <2>1 DEF NextTook, ItemKinds
  <2>4. NextTook(a, items[2], b)
    BY <1>2, <2>1 DEF NextTook, ItemKinds
  <2>5. NextTook(b, items[3], c)
    BY <1>2, <2>1 DEF NextTook, ItemKinds
  <2>10. /\ items[1].n \in Nat /\ items[1].of \notin {"frame", "idle"}
         /\ items[2].n \in Nat /\ items[2].of \notin {"frame", "idle"}
         /\ items[3].n \in Nat /\ items[3].n = o + 2
    BY <2>1 DEF S!Notifications
  <2>. HIDE DEF a, b, c
  <2>6. Took(s, a, <<>>)
    BY <1>3, <1>4, <2>3, <2>10, TookItem
  <2>7. Took(s, b, <<>>)
    BY <1>4, <2>4, <2>6, <2>10, TookItem
  <2>8. Took(s, c, <<>>) \/ Took(s, c, Append(<<>>, o + 2))
    BY <1>4, <2>5, <2>7, <2>10, TookItem
  <2>9. QED  BY <1>1, <1>6, <2>2, <2>8 DEF Extras
<1>7. Len(items) \in {2, 3}
  BY BufferShape, Zenon
<1>8. QED  BY <1>5, <1>6, <1>7

----------------------------------------------------------------------------
(* The handlers of the three services. *)

\* What a handler makes of a service.
Handler(s, pdu, t) ==
  \/ pdu.type \notin Telling /\ t = s
  \/ \E e \in Errors \ {"none"} : t = [s EXCEPT !.raised = e]
  \/ pdu.type \in Telling /\ ~Stranger(pdu) /\ t = [s EXCEPT !.state = Told(pdu)]
  \/ pdu.type \in Telling /\ t = Aborts(s)
  \/ pdu.type \in Telling /\ Aborts(s).raised = "none" /\ t = [Aborts(s) EXCEPT !.state = "ready"]
  \/ pdu.type = "PeerAbort" /\ t = S!disconnect([s EXCEPT !.state = "unbound"])
  \/ pdu.type = "ThrowReturn" /\ t = [s EXCEPT !.event_invoc_id = pdu.n]
  \/ IsBuffer(pdu) /\ \E extra \in Extras(Base(pdu)) : Took(s, t, extra)

\* A return of a bind is taken in the same way by all three.
LEMMA BindReturnOutcome ==
  ASSUME NEW s \in Services, s.raised = "none", NEW pdu \in Pdus, pdu.type = "BindReturn"
  PROVE  /\ Handler(s, pdu, RAF!bind_return_handler(s, pdu))
         /\ Handler(s, pdu, RCF!bind_return_handler(s, pdu))
         /\ Handler(s, pdu, CLTU!bind_return_handler(s, pdu))
<1>1. pdu.result \in {"positive", "negative", "stranger"} /\ pdu.type \in Telling
  BY DEF Pdus, PduOK, Telling
<1>2. "TypeError" \in Errors \ {"none"}
  BY DEF Errors
<1>3. /\ pdu.result = "positive" => Told(pdu) = "ready" /\ ~Stranger(pdu)
      /\ pdu.result = "negative" => Told(pdu) = "unbound" /\ ~Stranger(pdu)
  BY DEF Told, Stranger
<1>4. Handler(s, pdu, RAF!bind_return_handler(s, pdu))
  BY <1>1, <1>2, <1>3, SameAborts DEF Handler, RAF!bind_return_handler,
     RAF!check_return_credentials, RAF!Raise, RAF!NoError
<1>5. Handler(s, pdu, RCF!bind_return_handler(s, pdu))
  BY <1>1, <1>2, <1>3, SameAborts DEF Handler, RCF!bind_return_handler,
     RCF!check_return_credentials, RCF!Raise, RCF!NoError
<1>6. Handler(s, pdu, CLTU!bind_return_handler(s, pdu))
  BY <1>1, <1>2, <1>3, SameAborts DEF Handler, CLTU!bind_return_handler,
     CLTU!check_return_credentials, CLTU!Raise, CLTU!NoError
<1>7. QED  BY <1>4, <1>5, <1>6

\* The handlers of RAF have no other outcome.
LEMMA RafHandlers ==
  ASSUME NEW s \in Services, s.raised = "none", NEW pdu \in Pdus
  PROVE  Handler(s, pdu, RAF!handle_pdu(s, pdu))
<1>1. "IndexError" \in Errors \ {"none"}
  BY DEF Errors
<1>2. CASE pdu.type = "BindReturn"
  BY <1>2, BindReturnOutcome DEF RAF!handle_pdu
<1>3. CASE pdu.type \in {"UnbindReturn", "StartReturn", "StopReturn"}
  <2>1. pdu.type \in Telling /\ ~Stranger(pdu) /\ RAF!handle_pdu(s, pdu) = [s EXCEPT !.state = Told(pdu)]
    BY <1>3 DEF RAF!handle_pdu, RAF!unbind_return_handler, RAF!start_return_handler,
       RAF!stop_return_handler, Told, Stranger, Telling
  <2>2. QED  BY <2>1 DEF Handler
<1>4. CASE pdu.type = "PeerAbort"
  BY <1>1, <1>4, SameSend DEF Handler, RAF!handle_pdu, RAF!peer_abort_handler, RAF!Raise
<1>5. CASE pdu.type = "TransferBuffer"
  <2>1. Base(pdu) \in Nat /\ pdu.items \in BuffersAfter(Base(pdu))
    BY <1>5 DEF Pdus, PduOK, IsBuffer
  <2>2. \E extra \in Extras(Base(pdu)) : Took(s, RAF!data_transfer_handler(s, pdu), extra)
    BY <2>1, RafBuffer
  <2>3. QED  BY <1>5, <2>2 DEF Handler, IsBuffer, RAF!handle_pdu
<1>6. CASE pdu.type \notin {"BindReturn", "UnbindReturn", "StartReturn", "StopReturn", "PeerAbort",
                            "TransferBuffer"}
  BY <1>1, <1>6 DEF Handler, Telling, RAF!handle_pdu, RAF!schedule_status_report_return_handler,
     RAF!status_report_invoc_handler, RAF!Raise
<1>7. QED  BY <1>2, <1>3, <1>4, <1>5, <1>6

\* Nor have those of RCF.
LEMMA RcfHandlers ==
  ASSUME NEW s \in Services, s.raised = "none", NEW pdu \in Pdus
  PROVE  Handler(s, pdu, RCF!handle_pdu(s, pdu))
<1>1. "IndexError" \in Errors \ {"none"} /\ "KeyError" \in Errors \ {"none"}
  BY DEF Errors
<1>2. CASE pdu.type = "BindReturn"
  BY <1>2, BindReturnOutcome DEF RCF!handle_pdu
<1>3. CASE pdu.type \in {"UnbindReturn", "StartReturn", "StopReturn"}
  <2>1. pdu.type \in Telling /\ ~Stranger(pdu) /\ RCF!handle_pdu(s, pdu) = [s EXCEPT !.state = Told(pdu)]
    BY <1>3 DEF RCF!handle_pdu, RCF!unbind_return_handler, RCF!start_return_handler,
       RCF!stop_return_handler, Told, Stranger, Telling
  <2>2. QED  BY <2>1 DEF Handler
<1>4. CASE pdu.type = "PeerAbort"
  BY <1>1, <1>4, SameSend DEF Handler, RCF!handle_pdu, RCF!peer_abort_handler, RCF!Raise
<1>5. CASE pdu.type = "TransferBuffer"
  <2>1. Base(pdu) \in Nat /\ pdu.items \in BuffersAfter(Base(pdu))
    BY <1>5 DEF Pdus, PduOK, IsBuffer
  <2>2. \E extra \in Extras(Base(pdu)) : Took(s, RCF!data_transfer_handler(s, pdu), extra)
    BY <2>1, RcfBuffer
  <2>3. QED  BY <1>5, <2>2 DEF Handler, IsBuffer, RCF!handle_pdu
<1>6. CASE pdu.type \notin {"BindReturn", "UnbindReturn", "StartReturn", "StopReturn", "PeerAbort",
                            "TransferBuffer"}
  BY <1>1, <1>6 DEF Handler, Telling, RCF!handle_pdu, RCF!schedule_status_report_return_handler,
     RCF!status_report_invoc_handler, RCF!Raise
<1>7. QED  BY <1>2, <1>3, <1>4, <1>5, <1>6

\* Nor have those of the Forward CLTU service.
LEMMA CltuHandlers ==
  ASSUME NEW s \in Services, s.raised = "none", NEW pdu \in Pdus
  PROVE  Handler(s, pdu, CLTU!handle_pdu(s, pdu))
<1>1. /\ "IndexError" \in Errors \ {"none"} /\ "KeyError" \in Errors \ {"none"}
      /\ "TypeError" \in Errors \ {"none"} /\ "PyAsn1Error" \in Errors \ {"none"}
  BY DEF Errors
<1>2. CASE pdu.type = "BindReturn"
  BY <1>2, BindReturnOutcome DEF CLTU!handle_pdu
<1>3. CASE pdu.type \in {"UnbindReturn", "StartReturn", "StopReturn"}
  <2>1. pdu.type \in Telling /\ ~Stranger(pdu) /\ CLTU!handle_pdu(s, pdu) = [s EXCEPT !.state = Told(pdu)]
    BY <1>3 DEF CLTU!handle_pdu, CLTU!unbind_return_handler, CLTU!start_return_handler,
       CLTU!stop_return_handler, Told, Stranger, Telling
  <2>2. QED  BY <2>1 DEF Handler
<1>4. CASE pdu.type = "PeerAbort"
  BY <1>1, <1>4, SameSend DEF Handler, CLTU!handle_pdu, CLTU!peer_abort_handler, CLTU!Raise
<1>5. CASE pdu.type = "ThrowReturn"
  BY <1>1, <1>5 DEF Handler, CLTU!handle_pdu, CLTU!throw_event_handler, CLTU!Raise
<1>6. CASE pdu.type \notin {"BindReturn", "UnbindReturn", "StartReturn", "StopReturn", "PeerAbort",
                            "ThrowReturn"}
  BY <1>1, <1>6 DEF Handler, Telling, CLTU!handle_pdu, CLTU!schedule_status_report_return_handler,
     CLTU!status_report_invoc_handler, CLTU!trans_data_return_handler,
     CLTU!async_notify_invoc_handler, CLTU!Raise
<1>7. QED  BY <1>2, <1>3, <1>4, <1>5, <1>6

\* So a PDU is handled in one of those ways by whatever service it comes to.
LEMMA HandlerOutcome ==
  ASSUME NEW s \in Services, s.raised = "none", NEW pdu \in Pdus
  PROVE  Handler(s, pdu, handle_pdu(s, pdu))
<1>1. s.kind \in {"raf", "rcf", "cltu"}
  BY KindsAssumption DEF Services
<1>2. QED  BY <1>1, RafHandlers, RcfHandlers, CltuHandlers DEF handle_pdu

\* What a handler leaves of a service, and what it may change: an association
\* that goes on has the state that was told.
Effect(s, pdu, t) ==
  /\ t \in Services /\ t.kind = s.kind /\ t.cltu_id = s.cltu_id
  /\ t.event_invoc_id \in {s.event_invoc_id, pdu.n}
  /\ t.socket \in {s.socket, "closed"} /\ t.processor \in {s.processor, 0}
  /\ t.wire = s.wire \/ t.wire = Append(s.wire, AbortRequest)
  /\ \/ t.forwarded = s.forwarded
     \/ IsBuffer(pdu) /\ \E extra \in Extras(Base(pdu)) : t.forwarded = s.forwarded \o extra
  /\ t.raised = "none" /\ t.socket = "open" =>
       \/ t.processor = 0
       \/ t.wire = Append(s.wire, AbortRequest)
       \/ pdu.type \in Telling /\ ~Stranger(pdu) /\ t.state = Told(pdu)
       \/ pdu.type \notin Telling /\ t.state = s.state

\* Every handler has such an effect.
LEMMA HandlerEffect ==
  ASSUME NEW s \in Services, s.raised = "none", NEW pdu \in Pdus, NEW t, Handler(s, pdu, t)
  PROVE  Effect(s, pdu, t)
<1>0. pdu.n \in Nat
  BY DEF Pdus
<1>1. CASE pdu.type \notin Telling /\ t = s
  BY <1>1 DEF Effect, Services
<1>2. CASE \E e \in Errors \ {"none"} : t = [s EXCEPT !.raised = e]
  <2>1. PICK e \in Errors \ {"none"} : t = [s EXCEPT !.raised = e]
    BY <1>2
  <2>2. t \in Services /\ t.raised # "none"
    BY <2>1, Updates DEF Services
  <2>3. QED  BY <2>1, <2>2 DEF Effect, Services
<1>3. CASE pdu.type \in Telling /\ ~Stranger(pdu) /\ t = [s EXCEPT !.state = Told(pdu)]
  <2>1. Told(pdu) \in States
    BY <1>3 DEF Told, States, Telling
  <2>2. t \in Services /\ t.state = Told(pdu)
    BY <1>3, <2>1, Updates DEF Services
  <2>3. QED  BY <1>3, <2>2 DEF Effect, Services
<1>4. /\ Aborts(s) \in Services
      /\ Aborts(s).kind = s.kind /\ Aborts(s).cltu_id = s.cltu_id
      /\ Aborts(s).event_invoc_id = s.event_invoc_id
      /\ Aborts(s).socket \in {s.socket, "closed"} /\ Aborts(s).processor = s.processor
      /\ Aborts(s).wire = s.wire \/ Aborts(s).wire = Append(s.wire, AbortRequest)
      /\ Aborts(s).forwarded = s.forwarded
      /\ Aborts(s).raised = "none" /\ Aborts(s).socket = "open" =>
           Aborts(s).wire = Append(s.wire, AbortRequest)
  <2> DEFINE a == Aborts(s)
  <2>0. Aborts(s) \in Services
    BY AbortsOutcome
  <2>1. CASE s.socket = "open"
    <3>1. a = [s EXCEPT !.wire = Append(s.wire, AbortRequest), !.state = "unbound"]
      BY <2>1, AbortsOutcome
    <3>. HIDE DEF a
    <3>2. /\ a.kind = s.kind /\ a.cltu_id = s.cltu_id /\ a.event_invoc_id = s.event_invoc_id
          /\ a.socket = s.socket /\ a.processor = s.processor
          /\ a.wire = Append(s.wire, AbortRequest) /\ a.forwarded = s.forwarded
      BY <3>1 DEF Services
    <3>3. QED  BY <2>0, <3>2 DEF a
  <2>2. CASE s.socket = "reset"
    <3>1. a = [s EXCEPT !.socket = "closed", !.state = "unbound"]
      BY <2>2, AbortsOutcome
    <3>. HIDE DEF a
    <3>2. /\ a.kind = s.kind /\ a.cltu_id = s.cltu_id /\ a.event_invoc_id = s.event_invoc_id
          /\ a.socket = "closed" /\ a.processor = s.processor
          /\ a.wire = s.wire /\ a.forwarded = s.forwarded
      BY <3>1 DEF Services
    <3>3. QED  BY <2>0, <3>2 DEF a
  <2>3. CASE s.socket \notin {"open", "reset"}
    <3>1. PICK e \in Errors \ {"none"} : Aborts(s) = [s EXCEPT !.raised = e]
      BY <2>3, AbortsOutcome
    <3>2. Aborts(s) \in Services
      BY AbortsOutcome
    <3>3. QED  BY <3>1, <3>2 DEF Services
  <2>4. QED  BY <2>1, <2>2, <2>3
<1>5. CASE pdu.type \in Telling /\ t = Aborts(s)
  BY <1>4, <1>5 DEF Effect
<1>6. CASE pdu.type \in Telling /\ Aborts(s).raised = "none" /\ t = [Aborts(s) EXCEPT !.state = "ready"]
  <2> DEFINE a == Aborts(s)
  <2>1. a \in Services /\ t = [a EXCEPT !.state = "ready"] /\ a.raised = "none"
    BY <1>4, <1>6
  <2>2. t \in Services
    BY <2>1, Updates DEF States
  <2>3. /\ t.kind = a.kind /\ t.cltu_id = a.cltu_id /\ t.event_invoc_id = a.event_invoc_id
        /\ t.socket = a.socket /\ t.processor = a.processor /\ t.wire = a.wire
        /\ t.forwarded = a.forwarded /\ t.raised = a.raised
    BY <2>1 DEF Services
  <2>4. QED  BY <1>4, <2>2, <2>3 DEF Effect
<1>7. CASE pdu.type = "PeerAbort" /\ t = S!disconnect([s EXCEPT !.state = "unbound"])
  <2> DEFINE v == [s EXCEPT !.state = "unbound"]
  <2>1. v \in Services
    BY Updates DEF States
  <2>2. v.socket = s.socket /\ v.kind = s.kind /\ v.cltu_id = s.cltu_id /\ v.wire = s.wire
        /\ v.event_invoc_id = s.event_invoc_id /\ v.processor = s.processor
        /\ v.forwarded = s.forwarded
    BY DEF Services
  <2>3. t = S!disconnect(v)
    BY <1>7
  <2>. HIDE DEF v
  <2>4. CASE v.socket = "none"
    <3>1. t = [v EXCEPT !.raised = "AttributeError"] /\ "AttributeError" \in Errors
      BY <2>3, <2>4 DEF S!disconnect, S!Raise, Errors
    <3>2. t \in Services
      BY <2>1, <3>1, Updates
    <3>3. t.raised # "none"
      BY <2>1, <3>1 DEF Services
    <3>4. QED  BY <2>1, <2>2, <3>1, <3>2, <3>3 DEF Effect, Services
  <2>5. CASE v.socket # "none"
    <3>1. t = [v EXCEPT !.socket = "closed", !.telem = "closed", !.monitor = 0, !.processor = 0]
      BY <2>1, <2>3, <2>5, DisconnectOutcome
    <3>2. 0 \in 0 .. 1 /\ "closed" \in Sockets /\ "closed" \in Ends
      BY DEF Sockets, Ends
    <3>3. t \in Services
      BY <2>1, <3>1, <3>2 DEF Services
    <3>4. /\ t.kind = v.kind /\ t.cltu_id = v.cltu_id /\ t.event_invoc_id = v.event_invoc_id
          /\ t.socket = "closed" /\ t.processor = 0 /\ t.wire = v.wire
          /\ t.forwarded = v.forwarded
      BY <2>1, <3>1 DEF Services
    <3>5. QED  BY <2>2, <3>3, <3>4 DEF Effect
  <2>6. QED  BY <2>4, <2>5
<1>8. CASE pdu.type = "ThrowReturn" /\ t = [s EXCEPT !.event_invoc_id = pdu.n]
  <2>1. t \in Services /\ pdu.type \notin Telling
    BY <1>0, <1>8, Updates DEF Telling
  <2>2. QED  BY <1>8, <2>1 DEF Effect, Services
<1>9. CASE IsBuffer(pdu) /\ \E extra \in Extras(Base(pdu)) : Took(s, t, extra)
  <2>1. PICK extra \in Extras(Base(pdu)) : Took(s, t, extra)
    BY <1>9
  <2>2. Base(pdu) \in Nat /\ pdu.type \notin Telling
    BY <1>9 DEF Pdus, PduOK, IsBuffer, Telling
  <2>3. extra \in Seq(Nat)
    <3>1. \A x, y \in Nat : <<x>> \in Seq(Nat) /\ <<x, y>> \in Seq(Nat)
      OBVIOUS
    <3>2. Base(pdu) + 1 \in Nat /\ Base(pdu) + 2 \in Nat
      BY <2>2
    <3>3. QED  BY <3>1, <3>2, EmptySeq DEF Extras
  <2> DEFINE w == s.forwarded \o extra
             v == [s EXCEPT !.forwarded = w]
  <2>4. w \in Seq(Nat)
    BY <2>3, ConcatProperties DEF Services
  <2>5. v \in Services
    BY <2>4, Updates
  <2>6. t = v \/ t \in Raising(v)
    BY <2>1 DEF Took
  <2>7. /\ v.kind = s.kind /\ v.cltu_id = s.cltu_id /\ v.event_invoc_id = s.event_invoc_id
        /\ v.socket = s.socket /\ v.processor = s.processor /\ v.wire = s.wire
        /\ v.forwarded = w /\ v.state = s.state
    BY DEF Services
  <2>. HIDE DEF v
  <2>8. t \in Services
    BY <2>5, <2>6, Updates DEF Errors, Raising
  <2>9. /\ t.kind = v.kind /\ t.cltu_id = v.cltu_id /\ t.event_invoc_id = v.event_invoc_id
        /\ t.socket = v.socket /\ t.processor = v.processor /\ t.wire = v.wire
        /\ t.forwarded = v.forwarded /\ t.state = v.state
    BY <2>5, <2>6 DEF Services, Raising
  <2>10. QED  BY <1>9, <2>2, <2>7, <2>8, <2>9 DEF Effect
<1>10. QED  BY <1>1, <1>2, <1>3, <1>5, <1>6, <1>7, <1>8, <1>9 DEF Handler

\* An exception of a handler ends the greenlet; otherwise it goes on.
LEMMA HandledEffect ==
  ASSUME NEW s \in Services, s.raised = "none", NEW pdu \in Pdus
  PROVE  /\ Effect(s, pdu, S!AfterHandler(handle_pdu(s, pdu)))
         /\ S!AfterHandler(handle_pdu(s, pdu)).raised = "none"
<1> DEFINE t == handle_pdu(s, pdu)
           u == S!AfterHandler(t)
<1>1. Effect(s, pdu, t)
  BY HandlerOutcome, HandlerEffect
<1>2. t \in Services
  BY <1>1 DEF Effect
<1>. HIDE DEF t
<1>3. CASE t.raised = "none"
  <2>1. u = t
    BY <1>3 DEF S!AfterHandler, S!NoError
  <2>. HIDE DEF u
  <2>2. QED  BY <1>1, <1>3, <2>1 DEF t, u
<1>4. CASE t.raised # "none"
  <2> DEFINE v == [t EXCEPT !.processor = 0]
  <2>1. S!Less(t.processor) = 0
    BY <1>2 DEF S!Less, Services
  <2>2. u = [v EXCEPT !.raised = "none"]
    BY <1>4, <2>1 DEF S!AfterHandler, S!NoError, S!Handled
  <2>0. 0 \in 0 .. 1
    OBVIOUS
  <2>3. v \in Services
    BY <1>2, <2>0, Updates
  <2>4. /\ v.kind = t.kind /\ v.cltu_id = t.cltu_id /\ v.event_invoc_id = t.event_invoc_id
        /\ v.socket = t.socket /\ v.wire = t.wire /\ v.forwarded = t.forwarded /\ v.processor = 0
    BY <1>2 DEF Services
  <2>. HIDE DEF v, u
  <2>5. u \in Services
    <3>1. "none" \in Errors
      BY DEF Errors
    <3>2. QED  BY <2>2, <2>3, <3>1, Updates
  <2>6. /\ u.kind = v.kind /\ u.cltu_id = v.cltu_id /\ u.event_invoc_id = v.event_invoc_id
        /\ u.socket = v.socket /\ u.wire = v.wire /\ u.forwarded = v.forwarded
        /\ u.processor = v.processor /\ u.raised = "none"
    BY <2>2, <2>3 DEF Services
  <2>7. Effect(s, pdu, u)
    BY <1>1, <2>4, <2>5, <2>6 DEF Effect
  <2>8. QED  BY <2>6, <2>7 DEF u, t
<1>5. QED  BY <1>3, <1>4

----------------------------------------------------------------------------
(* The calls of the user. *)

\* What a request of the user makes of a service: at most one request is put
\* on an open wire, numbered from the service's counters.
Asked(s, u) ==
  /\ u \in Services /\ u.raised = "none" /\ u.kind = s.kind
  /\ u.event_invoc_id = s.event_invoc_id /\ u.forwarded = s.forwarded
  /\ u.processor = s.processor
  /\ u.socket = "open" <=> s.socket = "open"
  /\ u.cltu_id \in {s.cltu_id, s.cltu_id + 1}
  /\ s.kind # "cltu" => u.cltu_id = s.cltu_id
  /\ s.socket # "open" => u.wire = s.wire
  /\ s.socket = "open" =>
       \/ u.wire = s.wire /\ u.cltu_id = s.cltu_id /\ u.state = s.state
       \/ \E r \in Requests :
            /\ u.wire = Append(s.wire, r)
            /\ r.op \in {"start", "transfer"} => r.n = s.cltu_id
            /\ r.op = "throw" => r.n = s.event_invoc_id
            /\ u.cltu_id = IF r.op = "transfer" THEN s.cltu_id + 1 ELSE s.cltu_id
            /\ u.state = s.state \/ r.op = "abort"

\* What the caller of a method sees differs in the exception only.
LEMMA HandledFields ==
  ASSUME NEW t \in Services
  PROVE  LET u == S!Handled(t)
         IN  /\ u \in Services /\ u.raised = "none"
             /\ u.kind = t.kind /\ u.state = t.state /\ u.socket = t.socket
             /\ u.processor = t.processor /\ u.cltu_id = t.cltu_id
             /\ u.event_invoc_id = t.event_invoc_id /\ u.wire = t.wire
             /\ u.forwarded = t.forwarded
             /\ t.raised = "none" => u = t
<1> DEFINE u == S!Handled(t)
<1>1. u = [t EXCEPT !.raised = "none"]
  BY DEF S!Handled, S!NoError
<1>2. "none" \in Errors
  BY DEF Errors
<1>3. u \in Services
  BY <1>1, <1>2, Updates, ZenonT(60)
<1>. HIDE DEF u
<1>4. /\ u.raised = "none"
      /\ u.kind = t.kind /\ u.state = t.state /\ u.socket = t.socket
      /\ u.processor = t.processor /\ u.cltu_id = t.cltu_id
      /\ u.event_invoc_id = t.event_invoc_id /\ u.wire = t.wire
      /\ u.forwarded = t.forwarded
  BY <1>1 DEF Services
<1>5. t.raised = "none" => u = t
  BY <1>1 DEF Services
<1>6. QED  BY <1>3, <1>4, <1>5 DEF u

\* A call that raises changes nothing.
LEMMA RaiseAsked ==
  ASSUME NEW s \in Services, s.raised = "none", NEW e
  PROVE  Asked(s, S!Handled(S!Raise(s, e))) /\ Asked(s, S!Handled(s))
<1>1. S!Handled(s) = s
  BY HandledFields
<1>2. S!Handled(S!Raise(s, e)) = s
  BY DEF S!Handled, S!Raise, S!NoError, Services
<1>3. Asked(s, s)
  BY DEF Asked, Services
<1>4. QED  BY <1>1, <1>2, <1>3

\* A request that is no CLTU is sent by send alone.
LEMMA SendAsked ==
  ASSUME NEW s \in Services, s.raised = "none", NEW r \in Requests, r.op # "transfer",
         r.op = "start" => r.n = s.cltu_id, r.op = "throw" => r.n = s.event_invoc_id
  PROVE  Asked(s, S!Handled(S!send(s, r)))
<1> DEFINE t == S!send(s, r)
           u == S!Handled(t)
<1>1. /\ t \in Services
      /\ s.socket = "open" => t = [s EXCEPT !.wire = Append(s.wire, r)]
      /\ s.socket = "reset" => t = [s EXCEPT !.socket = "closed"]
      /\ s.socket \notin {"open", "reset"} => \E e \in Errors \ {"none"} : t = [s EXCEPT !.raised = e]
  BY SendOutcome
<1>. HIDE DEF t
<1>2. /\ u \in Services /\ u.raised = "none"
      /\ u.kind = t.kind /\ u.state = t.state /\ u.socket = t.socket
      /\ u.processor = t.processor /\ u.cltu_id = t.cltu_id
      /\ u.event_invoc_id = t.event_invoc_id /\ u.wire = t.wire /\ u.forwarded = t.forwarded
  BY <1>1, HandledFields
<1>. HIDE DEF u
<1>3. /\ t.kind = s.kind /\ t.state = s.state /\ t.processor = s.processor
      /\ t.cltu_id = s.cltu_id /\ t.event_invoc_id = s.event_invoc_id
      /\ t.forwarded = s.forwarded /\ (t.socket = "open" <=> s.socket = "open")
      /\ s.socket = "open" => t.wire = Append(s.wire, r)
      /\ s.socket # "open" => t.wire = s.wire
  BY <1>1 DEF Services
<1>4. Asked(s, u)
  BY <1>2, <1>3 DEF Asked
<1>5. QED  BY <1>4 DEF t, u

\* So is a PEER-ABORT, and the service is unbound then.
LEMMA AbortAsked ==
  ASSUME NEW s \in Services, s.raised = "none"
  PROVE  Asked(s, S!Handled(Aborts(s)))
<1> DEFINE t == Aborts(s)
           u == S!Handled(t)
<1>1. /\ t \in Services
      /\ s.socket = "open" =>
           t = [s EXCEPT !.wire = Append(s.wire, AbortRequest), !.state = "unbound"]
      /\ s.socket = "reset" => t = [s EXCEPT !.socket = "closed", !.state = "unbound"]
      /\ s.socket \notin {"open", "reset"} => \E e \in Errors \ {"none"} : t = [s EXCEPT !.raised = e]
  BY AbortsOutcome
<1>. HIDE DEF t
<1>2. /\ u \in Services /\ u.raised = "none"
      /\ u.kind = t.kind /\ u.state = t.state /\ u.socket = t.socket
      /\ u.processor = t.processor /\ u.cltu_id = t.cltu_id
      /\ u.event_invoc_id = t.event_invoc_id /\ u.wire = t.wire /\ u.forwarded = t.forwarded
  BY <1>1, HandledFields
<1>. HIDE DEF u
<1>3. /\ t.kind = s.kind /\ t.processor = s.processor
      /\ t.cltu_id = s.cltu_id /\ t.event_invoc_id = s.event_invoc_id
      /\ t.forwarded = s.forwarded /\ (t.socket = "open" <=> s.socket = "open")
      /\ s.socket = "open" => t.wire = Append(s.wire, AbortRequest)
      /\ s.socket # "open" => t.wire = s.wire
  BY <1>1, ZenonT(60) DEF Services
<1>4. /\ AbortRequest \in Requests /\ AbortRequest.op = "abort"
  BY DEF AbortRequest, Requests, Ops
<1>5. Asked(s, u)
  BY <1>2, <1>3, <1>4 DEF Asked
<1>6. QED  BY <1>5 DEF t, u

\* A CLTU takes an identifier and is sent with it.
LEMMA UploadAsked ==
  ASSUME NEW s \in Services, s.raised = "none", s.kind = "cltu"
  PROVE  Asked(s, S!Handled(CLTU!upload_cltu(s)))
<1> DEFINE n == s.cltu_id
           v == [s EXCEPT !.cltu_id = n + 1]
           r == [op |-> "transfer", n |-> n]
           t == S!send(v, r)
           u == S!Handled(t)
<1>1. n \in Nat /\ n + 1 \in Nat
  BY DEF Services
<1>2. v \in Services
  BY <1>1, Updates
<1>3. r \in Requests
  BY <1>1 DEF Requests, Ops
<1>4. CLTU!upload_cltu(s) = t
  BY SameSend DEF CLTU!upload_cltu, CLTU!prepare_cltu_pdu
<1>5. /\ v.kind = s.kind /\ v.state = s.state /\ v.processor = s.processor
      /\ v.cltu_id = n + 1 /\ v.event_invoc_id = s.event_invoc_id
      /\ v.forwarded = s.forwarded /\ v.socket = s.socket /\ v.wire = s.wire
      /\ v.raised = "none"
  BY DEF Services
<1>. HIDE DEF v
<1>6. /\ t \in Services
      /\ v.socket = "open" => t = [v EXCEPT !.wire = Append(v.wire, r)]
      /\ v.socket = "reset" => t = [v EXCEPT !.socket = "closed"]
      /\ v.socket \notin {"open", "reset"} => \E e \in Errors \ {"none"} : t = [v EXCEPT !.raised = e]
  BY <1>2, <1>3, SendOutcome
<1>. HIDE DEF t, r
<1>7. /\ u \in Services /\ u.raised = "none"
      /\ u.kind = t.kind /\ u.state = t.state /\ u.socket = t.socket
      /\ u.processor = t.processor /\ u.cltu_id = t.cltu_id
      /\ u.event_invoc_id = t.event_invoc_id /\ u.wire = t.wire /\ u.forwarded = t.forwarded
  BY <1>6, HandledFields
<1>. HIDE DEF u
<1>8. /\ t.kind = v.kind /\ t.state = v.state /\ t.processor = v.processor
      /\ t.cltu_id = v.cltu_id /\ t.event_invoc_id = v.event_invoc_id
      /\ t.forwarded = v.forwarded /\ (t.socket = "open" <=> v.socket = "open")
      /\ v.socket = "open" => t.wire = Append(v.wire, r)
      /\ v.socket # "open" => t.wire = v.wire
  BY <1>2, <1>6 DEF Services
<1>9. r.op = "transfer" /\ r.n = n
  BY DEF r
<1>10. Asked(s, u)
  <2>1. s.socket # "open" => u.wire = s.wire
    BY <1>5, <1>7, <1>8
  <2>2. s.socket = "open" =>
          /\ u.wire = Append(s.wire, r) /\ u.cltu_id = n + 1 /\ u.state = s.state
    BY <1>5, <1>7, <1>8
  <2>3. QED  BY <1>3, <1>5, <1>7, <1>8, <1>9, <2>1, <2>2 DEF Asked
<1>11. QED  BY <1>4, <1>10 DEF u

Requesting ==
  \/ Bind \/ Unbind \/ Start \/ Stop \/ ScheduleStatusReport \/ PeerAbort
  \/ UploadCltu \/ ThrowEvent \/ PluginProcess

\* What is common to the calls that leave the connection as it is.
Calling ==
  /\ calls < MaxCalls /\ calls' = calls + 1
  /\ odd' \in {odd, odd + 1} /\ odd' <= MaxOdd
  /\ UNCHANGED <<network, connections, history, stale, saved>>

\* Every request of the user is one of those.
LEMMA RequestAsked ==
  ASSUME service \in Services, service.raised = "none",
         service.kind # "cltu" => service.cltu_id = 0, Requesting
  PROVE  Calling /\ Asked(service, service')
<1> DEFINE s == service
           Put(r) == S!Handled(S!send(s, r))
<1>1. s.kind \in {"raf", "rcf", "cltu"} /\ s.cltu_id \in Nat /\ s.event_invoc_id \in Nat
  BY KindsAssumption DEF Services
<1>2. \A op \in Ops \ {"transfer", "start", "throw"} : Asked(s, Put([op |-> op, n |-> 0]))
  <2>1. TAKE op \in Ops \ {"transfer", "start", "throw"}
  <2>2. [op |-> op, n |-> 0] \in Requests
    BY DEF Requests
  <2>3. QED  BY <2>2, SendAsked
<1>3. Asked(s, Put([op |-> "start", n |-> s.cltu_id]))
  <2>1. [op |-> "start", n |-> s.cltu_id] \in Requests
    BY <1>1 DEF Requests, Ops
  <2>2. QED  BY <2>1, SendAsked
<1>4. Asked(s, Put([op |-> "throw", n |-> s.event_invoc_id]))
  <2>1. [op |-> "throw", n |-> s.event_invoc_id] \in Requests
    BY <1>1 DEF Requests, Ops
  <2>2. QED  BY <2>1, SendAsked
<1>. HIDE DEF Put
<1>5. \A e : Asked(s, S!Handled(S!Raise(s, e))) /\ Asked(s, S!Handled(s))
  BY RaiseAsked
<1>6. /\ RAF!Raise(s, "ValueError") = S!Raise(s, "ValueError")
      /\ RCF!Raise(s, "ValueError") = S!Raise(s, "ValueError")
      /\ CLTU!Raise(s, "ValueError") = S!Raise(s, "ValueError")
      /\ RCF!Raise(s, "AttributeError") = S!Raise(s, "AttributeError")
  BY DEF RAF!Raise, RCF!Raise, CLTU!Raise, S!Raise
<1>7. ASSUME NEW result, NEW fits, Call(result, fits), Asked(s, S!Handled(result)),
             UNCHANGED <<network, connections, history, stale, saved>>
      PROVE  Calling /\ Asked(service, service')
  BY <1>7 DEF Call, Calling
<1>8. ASSUME NEW result, NEW fits, Request(result, fits), Asked(s, S!Handled(result))
      PROVE  Calling /\ Asked(service, service')
  BY <1>7, <1>8 DEF Request
<1>9. CASE Bind
  <2> DEFINE result == CASE s.kind = "raf" -> RAF!bind(s) [] s.kind = "rcf" -> RCF!bind(s)
                         [] s.kind = "cltu" -> CLTU!bind(s)
  <2>1. result = S!send(s, [op |-> "bind", n |-> 0])
    BY <1>1, SameSend DEF RAF!bind, RCF!bind, CLTU!bind, RAF!common_bind, RCF!common_bind,
       CLTU!common_bind, RAF!Request, RCF!Request, CLTU!Request
  <2>2. Asked(s, S!Handled(result))
    BY <1>2, <2>1 DEF Put, Ops
  <2>3. Request(result, In("unbound"))
    BY <1>9 DEF Bind
  <2>. HIDE DEF result
  <2>4. QED  BY <1>8, <2>2, <2>3
<1>10. CASE Unbind
  <2> DEFINE result == CASE s.kind = "raf" -> RAF!unbind(s) [] s.kind = "rcf" -> RCF!unbind(s)
                         [] s.kind = "cltu" -> CLTU!unbind(s)
  <2>1. result = S!send(s, [op |-> "unbind", n |-> 0])
    BY <1>1, SameSend DEF RAF!unbind, RCF!unbind, CLTU!unbind, RAF!common_unbind,
       RCF!common_unbind, CLTU!common_unbind, RAF!Request, RCF!Request, CLTU!Request
  <2>2. Asked(s, S!Handled(result))
    BY <1>2, <2>1 DEF Put, Ops
  <2>3. Request(result, In("ready"))
    BY <1>10 DEF Unbind
  <2>. HIDE DEF result
  <2>4. QED  BY <1>8, <2>2, <2>3
<1>11. CASE Start
  <2>0. UNCHANGED <<network, connections, history, stale, saved>>
    BY <1>11 DEF Start
  <2>1. CASE s.kind = "raf" /\ Call(RAF!start(s), In("ready"))
    <3>1. RAF!start(s) = S!send(s, [op |-> "start", n |-> s.cltu_id])
      BY <2>1, SameSend DEF RAF!start, RAF!Request
    <3>2. Asked(s, S!Handled(RAF!start(s)))
      BY <1>3, <3>1 DEF Put
    <3>3. QED  BY <1>7, <2>0, <2>1, <3>2
  <2>2. ASSUME s.kind = "rcf", NEW given, Call(RCF!start(s, given), In("ready"))
        PROVE  Calling /\ Asked(service, service')
    <3>1. \/ RCF!start(s, given) = S!send(s, [op |-> "start", n |-> s.cltu_id])
          \/ RCF!start(s, given) = S!Raise(s, "AttributeError")
      BY <1>6, <2>2, SameSend DEF RCF!start, RCF!Request
    <3>2. Asked(s, S!Handled(RCF!start(s, given)))
      BY <1>3, <1>5, <3>1 DEF Put
    <3>3. QED  BY <1>7, <2>0, <2>2, <3>2
  <2>3. CASE s.kind = "cltu" /\ Call(CLTU!start(s), In("ready"))
    <3>1. CLTU!start(s) = S!send(s, [op |-> "start", n |-> s.cltu_id])
      BY SameSend DEF CLTU!start
    <3>2. Asked(s, S!Handled(CLTU!start(s)))
      BY <1>3, <3>1 DEF Put
    <3>3. QED  BY <1>7, <2>0, <2>3, <3>2
  <2>4. QED  BY <1>11, <2>1, <2>2, <2>3 DEF Start, IsCltu
<1>12. CASE Stop
  <2> DEFINE result == CASE s.kind = "raf" -> RAF!stop(s) [] s.kind = "rcf" -> RCF!stop(s)
                         [] s.kind = "cltu" -> CLTU!stop(s)
  <2>1. result = S!send(s, [op |-> "stop", n |-> 0])
    BY <1>1, SameSend DEF RAF!stop, RCF!stop, CLTU!stop, RAF!common_stop, RCF!common_stop,
       CLTU!common_stop, RAF!Request, RCF!Request, CLTU!Request
  <2>2. Asked(s, S!Handled(result))
    BY <1>2, <2>1 DEF Put, Ops
  <2>3. Request(result, In("active"))
    BY <1>12 DEF Stop
  <2>. HIDE DEF result
  <2>4. QED  BY <1>8, <2>2, <2>3
<1>13. CASE ScheduleStatusReport
  <2> DEFINE result(known) ==
        CASE s.kind = "raf"  -> RAF!schedule_status_report(s, known)
          [] s.kind = "rcf"  -> RCF!schedule_status_report(s, known)
          [] s.kind = "cltu" -> CLTU!schedule_status_report(s, known)
  <2>1. PICK known \in BOOLEAN : Request(result(known), In("active"))
    BY <1>13 DEF ScheduleStatusReport
  <2>2. \/ result(known) = S!send(s, [op |-> "schedule", n |-> 0])
        \/ result(known) = S!Raise(s, "ValueError")
    BY <1>1, <1>6, SameSend DEF RAF!schedule_status_report, RCF!schedule_status_report,
       CLTU!schedule_status_report, RAF!Request, RCF!Request, CLTU!Request
  <2>3. Asked(s, S!Handled(result(known)))
    BY <1>2, <1>5, <2>2 DEF Put, Ops
  <2>. HIDE DEF result
  <2>4. QED  BY <1>8, <2>1, <2>3
<1>14. CASE PeerAbort
  <2> DEFINE result == CASE s.kind = "raf" -> RAF!peer_abort(s) [] s.kind = "rcf" -> RCF!peer_abort(s)
                         [] s.kind = "cltu" -> CLTU!peer_abort(s)
  <2>1. result = Aborts(s)
    BY <1>1, SameAborts
  <2>2. Asked(s, S!Handled(result))
    BY <2>1, AbortAsked
  <2>3. Request(result, FALSE)
    BY <1>14 DEF PeerAbort
  <2>. HIDE DEF result
  <2>4. QED  BY <1>8, <2>2, <2>3
<1>15. CASE UploadCltu
  <2>1. Asked(s, S!Handled(CLTU!upload_cltu(s)))
    BY <1>15, UploadAsked DEF UploadCltu, IsCltu
  <2>2. QED  BY <1>8, <1>15, <2>1 DEF UploadCltu
<1>16. CASE ThrowEvent
  <2>1. CLTU!throw_event(s) = S!send(s, [op |-> "throw", n |-> s.event_invoc_id])
    BY SameSend DEF CLTU!throw_event
  <2>2. Asked(s, S!Handled(CLTU!throw_event(s)))
    BY <1>4, <2>1 DEF Put
  <2>3. QED  BY <1>8, <1>16, <2>2 DEF ThrowEvent
<1>17. CASE PluginProcess
  <2>1. CLTU!process(s) \in {CLTU!upload_cltu(s), s}
    BY DEF CLTU!process
  <2>2. Asked(s, S!Handled(CLTU!process(s)))
    BY <1>5, <1>17, <2>1, UploadAsked DEF PluginProcess, IsCltu
  <2>3. QED  BY <1>8, <1>17, <2>2 DEF PluginProcess
<1>18. QED  BY <1>9, <1>10, <1>11, <1>12, <1>13, <1>14, <1>15, <1>16, <1>17 DEF Requesting

----------------------------------------------------------------------------
(* The answers of the provider. *)

\* What the answer to a request means for the identifiers the provider expects.
Expects(p, r, q) ==
  /\ r.op = "start" => q.nextCltu = r.n /\ ~q.outOfSequence
  /\ r.op = "transfer" =>
       /\ q.state = "active" => p.state = "active"
       /\ \/ p.state = "active" /\ r.n # p.nextCltu /\ q.refused = p.refused
          \/ /\ q.outOfSequence = p.outOfSequence /\ q.refused = p.refused
             /\ q.state = "active" => q.nextCltu = p.nextCltu + 1
          \/ q.refused
  /\ r.op \notin {"start", "transfer"} =>
       /\ q.nextCltu = p.nextCltu /\ q.refused = p.refused /\ q.outOfSequence = p.outOfSequence
       /\ q.state = "active" => p.state = "active"

\* What is answered to a request: no frames, and a new state only with the
\* one return that tells it, or with an end of the connection.
Answered(p, r, a) ==
  /\ a.provider \in Providers /\ (a.provider.up => p.up) /\ a.pdus \in Seq(Pdus)
  /\ \A i \in 1 .. Len(a.pdus) :
       /\ ~IsBuffer(a.pdus[i])
       /\ a.pdus[i].n = 0 \/ (r.op = "throw" /\ a.pdus[i].n = r.n + 1)
  /\ a.provider.up =>
       \/ /\ \A i \in 1 .. Len(a.pdus) : a.pdus[i].type \notin Telling
          /\ a.provider.state = p.state
       \/ \E x \in Pdus : /\ a.pdus = <<x>> /\ x.type \in Telling
                          /\ Stranger(x) \/ Told(x) = a.provider.state
  /\ r.op = "abort" => ~a.provider.up
  /\ Expects(p, r, a.provider)

\* A PDU without frames.
LEMMA PduType ==
  ASSUME NEW type \in PduTypes \ {"TransferBuffer"}, NEW result \in Results,
         type = "BindReturn" => result \in {"positive", "negative", "stranger"}
  PROVE  LET x == Pdu(type, result)
         IN  /\ x \in Pdus /\ x.type = type /\ x.result = result /\ x.n = 0 /\ ~IsBuffer(x)
             /\ \A n \in Nat : /\ [x EXCEPT !.n = n] \in Pdus /\ ~IsBuffer([x EXCEPT !.n = n])
                               /\ [x EXCEPT !.n = n].type = type /\ [x EXCEPT !.n = n].n = n
<1>1. <<>> \in Items
  BY DEF Items
<1>2. Pdu(type, result) \in Pdus
  BY <1>1 DEF Pdu, Pdus, PduOK, IsBuffer
<1>3. \A n \in Nat : [Pdu(type, result) EXCEPT !.n = n] \in Pdus
  BY <1>1 DEF Pdu, Pdus, PduOK, IsBuffer
<1>4. QED  BY <1>2, <1>3 DEF Pdu, IsBuffer

\* A provider may be given other values in its fields.
LEMMA ProviderUpdates ==
  ASSUME NEW p \in Providers
  PROVE  /\ Aborted(p) \in Providers /\ ~Aborted(p).up /\ Aborted(p).state = "unbound"
         /\ Aborted(p).nextCltu = p.nextCltu /\ Aborted(p).refused = p.refused
         /\ Aborted(p).outOfSequence = p.outOfSequence
         /\ \A v \in States : [p EXCEPT !.state = v] \in Providers
         /\ \A v \in BOOLEAN : /\ [p EXCEPT !.refused = v] \in Providers
                               /\ [p EXCEPT !.outOfSequence = v] \in Providers
         /\ \A v \in Nat : /\ [p EXCEPT !.nextCltu = v] \in Providers
                           /\ [p EXCEPT !.nextEvent = v] \in Providers
<1>1. "unbound" \in States /\ FALSE \in BOOLEAN
  BY DEF States
<1>2. /\ Aborted(p) \in Providers /\ ~Aborted(p).up /\ Aborted(p).state = "unbound"
      /\ Aborted(p).nextCltu = p.nextCltu /\ Aborted(p).refused = p.refused
      /\ Aborted(p).outOfSequence = p.outOfSequence
  BY <1>1 DEF Aborted, Providers
<1>3. \A v \in States : [p EXCEPT !.state = v] \in Providers
  BY DEF Providers
<1>4. \A v \in BOOLEAN : [p EXCEPT !.refused = v] \in Providers
  BY DEF Providers
<1>5. \A v \in BOOLEAN : [p EXCEPT !.outOfSequence = v] \in Providers
  BY DEF Providers
<1>6. \A v \in Nat : [p EXCEPT !.nextCltu = v] \in Providers
  BY DEF Providers
<1>7. \A v \in Nat : [p EXCEPT !.nextEvent = v] \in Providers
  BY DEF Providers
<1>8. QED  BY <1>2, <1>3, <1>4, <1>5, <1>6, <1>7

\* An answer of one PDU that tells the provider's new state.
LEMMA ToldAnswer ==
  ASSUME NEW p, NEW r, NEW q \in Providers, q.up => p.up, NEW x \in Pdus, x.type \in Telling,
         x.n = 0, Stranger(x) \/ Told(x) = q.state, r.op # "abort", Expects(p, r, q)
  PROVE  Answered(p, r, Answer(q, <<x>>))
<1>1. ~IsBuffer(x)
  BY DEF IsBuffer, Telling
<1>2. <<x>> \in Seq(Pdus) /\ Len(<<x>>) = 1 /\ <<x>>[1] = x
  OBVIOUS
<1>3. Answer(q, <<x>>).provider = q /\ Answer(q, <<x>>).pdus = <<x>>
  BY DEF Answer
<1>4. \A i \in 1 .. 1 : i = 1
  OBVIOUS
<1>. HIDE DEF Answer
<1>5. QED  BY <1>1, <1>2, <1>3, <1>4 DEF Answered

\* An answer that tells nothing of the state.
LEMMA SilentAnswer ==
  ASSUME NEW p, NEW r, NEW q \in Providers, q.up => p.up, NEW pdus \in Seq(Pdus),
         \A i \in 1 .. Len(pdus) :
           /\ ~IsBuffer(pdus[i]) /\ pdus[i].type \notin Telling
           /\ pdus[i].n = 0 \/ (r.op = "throw" /\ pdus[i].n = r.n + 1),
         q.up => q.state = p.state /\ r.op # "abort", Expects(p, r, q)
  PROVE  Answered(p, r, Answer(q, pdus))
BY DEF Answered, Answer

\* A request that does not fit the state is answered with PEER-ABORT.
LEMMA ErrorAnswer ==
  ASSUME NEW p, NEW p0 \in Providers, NEW r, Expects(p, r, Aborted(p0))
  PROVE  \A a \in ProtocolError(p0) : Answered(p, r, a)
<1> DEFINE x == Pdu("PeerAbort", "listed")
<1>1. x \in Pdus /\ x.type = "PeerAbort" /\ x.n = 0 /\ ~IsBuffer(x)
  <2>1. "PeerAbort" \in PduTypes \ {"TransferBuffer"} /\ "listed" \in Results
    BY DEF PduTypes, Results
  <2>2. QED  BY <2>1, PduType
<1>. HIDE DEF x
<1>2. <<x>> \in Seq(Pdus) /\ Len(<<x>>) = 1 /\ <<x>>[1] = x
  BY <1>1
<1>3. \A i \in 1 .. 1 : i = 1
  OBVIOUS
<1>4. Aborted(p0) \in Providers /\ ~Aborted(p0).up
  BY ProviderUpdates
<1>5. Answered(p, r, Answer(Aborted(p0), <<x>>))
  BY <1>1, <1>2, <1>3, <1>4, SilentAnswer DEF Telling
<1>6. QED  BY <1>5 DEF ProtocolError, x

\* A request for a new state is granted, refused or out of place.
LEMMA StepAnswer ==
  ASSUME NEW p, NEW p0 \in Providers, p0.up => p.up, NEW r, r.op # "abort",
         NEW from, NEW to \in States, NEW type \in {"BindReturn", "StartReturn", "StopReturn"},
         Told(Pdu(type, "positive")) = to, Told(Pdu(type, "negative")) = from,
         Expects(p, r, Aborted(p0)),
         p0.state = from => Expects(p, r, p0) /\ Expects(p, r, [p0 EXCEPT !.state = to])
  PROVE  \A a \in Step(p0, from, to, type) : Answered(p, r, a)
<1> DEFINE x == Pdu(type, "positive")
           y == Pdu(type, "negative")
           q == [p0 EXCEPT !.state = to]
<1>1. /\ x \in Pdus /\ x.type = type /\ x.n = 0
      /\ y \in Pdus /\ y.type = type /\ y.n = 0
  <2>1. /\ type \in PduTypes \ {"TransferBuffer"} /\ "positive" \in Results /\ "negative" \in Results
    BY DEF PduTypes, Results
  <2>2. QED  BY <2>1, PduType
<1>2. q \in Providers /\ q.up = p0.up /\ q.state = to
  BY ProviderUpdates DEF Providers
<1>. HIDE DEF x, y, q
<1>3. type \in Telling
  BY DEF Telling
<1>4. p0.state = from => Answered(p, r, Answer(q, <<x>>))
  BY <1>1, <1>2, <1>3, ToldAnswer DEF x, q
<1>5. p0.state = from => Answered(p, r, Answer(p0, <<y>>))
  BY <1>1, <1>3, ToldAnswer DEF y
<1>6. \A a \in ProtocolError(p0) : Answered(p, r, a)
  BY ErrorAnswer
<1>7. QED  BY <1>4, <1>5, <1>6 DEF Step, x, y, q

\* Every answer to every request.
LEMMA AnswersOutcome ==
  ASSUME NEW p \in Providers, p.up, NEW r \in Requests, NEW a \in Answers(p, r, Locks)
  PROVE  Answered(p, r, a)
<1>0. r.op \in Ops /\ r.n \in Nat
  BY DEF Requests
<1>1. CASE r.op = "bind"
  <2>1. /\ Told(Pdu("BindReturn", "positive")) = "ready"
        /\ Told(Pdu("BindReturn", "negative")) = "unbound"
    BY DEF Told, Pdu
  <2>2. /\ Expects(p, r, Aborted(p))
        /\ p.state = "unbound" => Expects(p, r, p) /\ Expects(p, r, [p EXCEPT !.state = "ready"])
    BY <1>1, ProviderUpdates DEF Expects, Providers
  <2>3. "ready" \in States
    BY DEF States
  <2>4. \A b \in Step(p, "unbound", "ready", "BindReturn") : Answered(p, r, b)
    BY <1>1, <2>1, <2>2, <2>3, StepAnswer
  <2> DEFINE x == Pdu("BindReturn", "stranger")
             q == [p EXCEPT !.state = "ready"]
  <2>5. x \in Pdus /\ x.type = "BindReturn" /\ x.result = "stranger" /\ x.n = 0
    <3>1. "BindReturn" \in PduTypes \ {"TransferBuffer"} /\ "stranger" \in Results
      BY DEF PduTypes, Results
    <3>2. QED  BY <3>1, PduType
  <2>6. q \in Providers /\ q.up = p.up
    BY <2>3, ProviderUpdates DEF Providers
  <2>. HIDE DEF x, q
  <2>7. p.state = "unbound" => Answered(p, r, Answer(q, <<x>>))
    <3>1. x.type \in Telling /\ Stranger(x)
      BY <2>5 DEF Telling, Stranger
    <3>2. p.state = "unbound" => Expects(p, r, q)
      BY <2>2 DEF q
    <3>3. QED  BY <1>1, <2>5, <2>6, <3>1, <3>2, ToldAnswer
  <2>8. a \in OnBind(p)
    BY <1>1 DEF Answers
  <2>9. QED  BY <2>4, <2>7, <2>8 DEF OnBind, x, q
<1>2. CASE r.op = "start"
  <2> DEFINE p0 == [p EXCEPT !.nextCltu = r.n, !.refused = FALSE, !.outOfSequence = FALSE]
  <2>1. p0 \in Providers /\ p0.up = p.up /\ p0.state = p.state
        /\ p0.nextCltu = r.n /\ ~p0.refused /\ ~p0.outOfSequence
    BY <1>0 DEF Providers
  <2>2. a \in Step(p0, "ready", "active", "StartReturn")
    BY <1>2 DEF Answers, OnStart
  <2>. HIDE DEF p0
  <2>3. /\ Told(Pdu("StartReturn", "positive")) = "active"
        /\ Told(Pdu("StartReturn", "negative")) = "ready"
    BY DEF Told, Pdu
  <2>4. /\ Expects(p, r, Aborted(p0))
        /\ Expects(p, r, p0) /\ Expects(p, r, [p0 EXCEPT !.state = "active"])
    BY <1>2, <2>1, ProviderUpdates, SMTT(30) DEF Expects, Providers
  <2>5. "active" \in States
    BY DEF States
  <2>6. QED  BY <1>2, <2>1, <2>2, <2>3, <2>4, <2>5, StepAnswer
<1>3. CASE r.op = "stop"
  <2>1. /\ Told(Pdu("StopReturn", "positive")) = "ready"
        /\ Told(Pdu("StopReturn", "negative")) = "active"
    BY DEF Told, Pdu
  <2>2. /\ Expects(p, r, Aborted(p))
        /\ p.state = "active" => Expects(p, r, p) /\ Expects(p, r, [p EXCEPT !.state = "ready"])
    BY <1>3, ProviderUpdates DEF Expects, Providers
  <2>3. "ready" \in States
    BY DEF States
  <2>4. a \in Step(p, "active", "ready", "StopReturn")
    BY <1>3 DEF Answers
  <2>5. QED  BY <1>3, <2>1, <2>2, <2>3, <2>4, StepAnswer
<1>4. CASE r.op = "unbind"
  <2>1. a \in OnUnbind(p)
    BY <1>4 DEF Answers
  <2>2. Expects(p, r, Aborted(p)) /\ Expects(p, r, [p EXCEPT !.state = "unbound"])
    BY <1>4, ProviderUpdates DEF Expects, Providers
  <2>3. ASSUME NEW result \in {"positive", "negative"}
        PROVE  Answered(p, r, Answer([p EXCEPT !.state = "unbound"], <<Pdu("UnbindReturn", result)>>))
    <3> DEFINE x == Pdu("UnbindReturn", result)
               q == [p EXCEPT !.state = "unbound"]
    <3>1. x \in Pdus /\ x.type = "UnbindReturn" /\ x.n = 0
      <4>1. "UnbindReturn" \in PduTypes \ {"TransferBuffer"} /\ result \in Results
        BY DEF PduTypes, Results
      <4>2. QED  BY <4>1, PduType
    <3>2. q \in Providers /\ q.up = p.up /\ q.state = "unbound"
      BY ProviderUpdates DEF Providers, States
    <3>3. x.type \in Telling /\ Told(x) = "unbound"
      BY <3>1 DEF Told, Telling
    <3>4. Expects(p, r, q)
      BY <2>2
    <3>. HIDE DEF x, q
    <3>5. Answered(p, r, Answer(q, <<x>>))
      BY <1>4, <3>1, <3>2, <3>3, <3>4, ToldAnswer
    <3>6. QED  BY <3>5 DEF x, q
  <2>4. QED  BY <2>1, <2>2, <2>3, ErrorAnswer DEF OnUnbind
<1>5. CASE r.op = "schedule"
  <2>1. PICK lock \in Locks : a \in OnSchedule(p, lock)
    BY <1>5 DEF Answers
  <2>2. Expects(p, r, Aborted(p)) /\ Expects(p, r, p)
    BY <1>5, ProviderUpdates DEF Expects
  <2> DEFINE x == Pdu("ScheduleReturn", "positive")
             y == Pdu("StatusReport", lock)
             c == Pdu("ScheduleReturn", "common")
             d == Pdu("ScheduleReturn", "specific")
  <2>3. /\ x \in Pdus /\ x.n = 0 /\ x.type = "ScheduleReturn" /\ ~IsBuffer(x)
        /\ y \in Pdus /\ y.n = 0 /\ y.type = "StatusReport" /\ ~IsBuffer(y)
        /\ c \in Pdus /\ c.n = 0 /\ c.type = "ScheduleReturn" /\ ~IsBuffer(c)
        /\ d \in Pdus /\ d.n = 0 /\ d.type = "ScheduleReturn" /\ ~IsBuffer(d)
    <3>1. /\ "ScheduleReturn" \in PduTypes \ {"TransferBuffer"}
          /\ "StatusReport" \in PduTypes \ {"TransferBuffer"}
          /\ "positive" \in Results /\ lock \in Results /\ "common" \in Results
          /\ "specific" \in Results
      BY DEF PduTypes, Results
    <3>2. QED  BY <3>1, PduType
  <2>4. \/ a \in ProtocolError(p) \/ a = Answer(p, <<x, y>>)
        \/ a = Answer(p, <<c>>) \/ a = Answer(p, <<d>>)
    BY <2>1 DEF OnSchedule
  <2>. HIDE DEF x, y, c, d
  <2>5. /\ <<x, y>> \in Seq(Pdus) /\ Len(<<x, y>>) = 2 /\ <<x, y>>[1] = x /\ <<x, y>>[2] = y
        /\ <<c>> \in Seq(Pdus) /\ Len(<<c>>) = 1 /\ <<c>>[1] = c
        /\ <<d>> \in Seq(Pdus) /\ Len(<<d>>) = 1 /\ <<d>>[1] = d
    BY <2>3
  <2>6. (\A i \in 1 .. 1 : i = 1) /\ (\A i \in 1 .. 2 : i = 1 \/ i = 2)
    OBVIOUS
  <2> DEFINE both == <<x, y>>
  <2>11. both \in Seq(Pdus) /\ Len(both) = 2 /\ both[1] = x /\ both[2] = y
    BY <2>5
  <2>. HIDE DEF both
  <2>12. \A i \in 1 .. Len(both) : ~IsBuffer(both[i]) /\ both[i].type \notin Telling /\ both[i].n = 0
    BY <2>3, <2>6, <2>11 DEF Telling
  <2>7. Answered(p, r, Answer(p, both))
    BY <1>5, <2>2, <2>11, <2>12, SilentAnswer
  <2>8. Answered(p, r, Answer(p, <<c>>))
    BY <1>5, <2>2, <2>3, <2>5, <2>6, SilentAnswer, ZenonT(60) DEF Telling
  <2>9. Answered(p, r, Answer(p, <<d>>))
    BY <1>5, <2>2, <2>3, <2>5, <2>6, SilentAnswer, ZenonT(60) DEF Telling
  <2>10. QED  BY <2>2, <2>4, <2>7, <2>8, <2>9, ErrorAnswer DEF both
<1>6. CASE r.op = "transfer"
  <2>1. a \in OnTransfer(p, r)
    BY <1>6 DEF Answers
  <2> DEFINE x == Pdu("TransferReturn", "positive")
             y == Pdu("AsyncNotify", "radiated")
             c == Pdu("TransferReturn", "common")
             d == Pdu("TransferReturn", "specific")
             n == p.nextCltu + 1
             q1 == [p EXCEPT !.outOfSequence = TRUE]
             q2 == [p EXCEPT !.nextCltu = n]
             q3 == [p EXCEPT !.refused = TRUE]
  <2>2. /\ x \in Pdus /\ x.n = 0 /\ x.type = "TransferReturn" /\ ~IsBuffer(x)
        /\ y \in Pdus /\ y.n = 0 /\ y.type = "AsyncNotify" /\ ~IsBuffer(y)
        /\ c \in Pdus /\ c.n = 0 /\ c.type = "TransferReturn" /\ ~IsBuffer(c)
        /\ d \in Pdus /\ d.n = 0 /\ d.type = "TransferReturn" /\ ~IsBuffer(d)
    <3>1. /\ "TransferReturn" \in PduTypes \ {"TransferBuffer"}
          /\ "AsyncNotify" \in PduTypes \ {"TransferBuffer"}
          /\ "positive" \in Results /\ "radiated" \in Results /\ "common" \in Results
          /\ "specific" \in Results
      BY DEF PduTypes, Results
    <3>2. QED  BY <3>1, PduType
  <2>3. \/ a \in ProtocolError(p) /\ p.state # "active"
        \/ p.state = "active" /\ r.n # p.nextCltu /\ a = Answer(q1, <<d>>)
        \/ p.state = "active" /\ a = Answer(q2, <<x, y>>)
        \/ p.state = "active" /\ (a = Answer(q3, <<c>>) \/ a = Answer(q3, <<d>>))
    BY <2>1 DEF OnTransfer
  <2>4. n \in Nat
    BY DEF Providers
  <2>5. /\ q1 \in Providers /\ q1.up = p.up /\ q1.state = p.state /\ q1.refused = p.refused
        /\ q2 \in Providers /\ q2.up = p.up /\ q2.state = p.state /\ q2.refused = p.refused
        /\ q2.nextCltu = n /\ q2.outOfSequence = p.outOfSequence
        /\ q3 \in Providers /\ q3.up = p.up /\ q3.state = p.state /\ q3.refused
    BY <2>4, ProviderUpdates DEF Providers
  <2>. HIDE DEF x, y, c, d, q1, q2, q3
  <2>6. /\ <<x, y>> \in Seq(Pdus) /\ Len(<<x, y>>) = 2 /\ <<x, y>>[1] = x /\ <<x, y>>[2] = y
        /\ <<c>> \in Seq(Pdus) /\ Len(<<c>>) = 1 /\ <<c>>[1] = c
        /\ <<d>> \in Seq(Pdus) /\ Len(<<d>>) = 1 /\ <<d>>[1] = d
    BY <2>2
  <2>7. (\A i \in 1 .. 1 : i = 1) /\ (\A i \in 1 .. 2 : i = 1 \/ i = 2)
    OBVIOUS
  <2>8. ASSUME p.state = "active", r.n # p.nextCltu PROVE Answered(p, r, Answer(q1, <<d>>))
    <3>1. Expects(p, r, q1)
      BY <1>6, <2>5, <2>8 DEF Expects
    <3>2. QED  BY <1>6, <2>2, <2>5, <2>6, <2>7, <3>1, SilentAnswer, ZenonT(60) DEF Telling
  <2>9. ASSUME p.state = "active" PROVE Answered(p, r, Answer(q2, <<x, y>>))
    <3>1. Expects(p, r, q2)
      BY <1>6, <2>5, <2>9 DEF Expects
    <3> DEFINE both == <<x, y>>
    <3>2. both \in Seq(Pdus) /\ Len(both) = 2 /\ both[1] = x /\ both[2] = y
      BY <2>6
    <3>. HIDE DEF both
    <3>3. \A i \in 1 .. Len(both) : ~IsBuffer(both[i]) /\ both[i].type \notin Telling /\ both[i].n = 0
      BY <2>2, <2>7, <3>2 DEF Telling
    <3>4. Answered(p, r, Answer(q2, both))
      BY <1>6, <2>5, <3>1, <3>2, <3>3, SilentAnswer
    <3>5. QED  BY <3>4 DEF both
  <2>10. ASSUME p.state = "active"
         PROVE  Answered(p, r, Answer(q3, <<c>>)) /\ Answered(p, r, Answer(q3, <<d>>))
    <3>1. Expects(p, r, q3)
      BY <1>6, <2>5, <2>10 DEF Expects
    <3>2. Answered(p, r, Answer(q3, <<c>>))
      BY <1>6, <2>2, <2>5, <2>6, <2>7, <3>1, SilentAnswer, ZenonT(60) DEF Telling
    <3>3. Answered(p, r, Answer(q3, <<d>>))
      BY <1>6, <2>2, <2>5, <2>6, <2>7, <3>1, SilentAnswer, ZenonT(60) DEF Telling
    <3>4. QED  BY <3>2, <3>3
  <2>11. Expects(p, r, Aborted(p))
    BY <1>6, ProviderUpdates DEF Expects
  <2>12. QED  BY <2>3, <2>8, <2>9, <2>10, <2>11, ErrorAnswer
<1>7. CASE r.op = "throw"
  <2>1. a \in OnThrow(p, r)
    BY <1>7 DEF Answers
  <2> DEFINE x == Pdu("ThrowReturn", "negative")
             m == r.n + 1
             y == [Pdu("ThrowReturn", "positive") EXCEPT !.n = m]
             n == p.nextEvent + 1
             q == [p EXCEPT !.nextEvent = n]
  <2>2. m \in Nat /\ n \in Nat
    BY <1>0 DEF Providers
  <2>3. /\ x \in Pdus /\ x.n = 0 /\ x.type = "ThrowReturn" /\ ~IsBuffer(x)
        /\ y \in Pdus /\ y.n = m /\ y.type = "ThrowReturn" /\ ~IsBuffer(y)
    <3>1. /\ "ThrowReturn" \in PduTypes \ {"TransferBuffer"}
          /\ "positive" \in Results /\ "negative" \in Results
      BY DEF PduTypes, Results
    <3>2. QED  BY <2>2, <3>1, PduType
  <2>4. \/ a \in ProtocolError(p) \/ a = Answer(p, <<x>>) \/ a = Answer(q, <<y>>)
    BY <2>1 DEF OnThrow
  <2>5. /\ q \in Providers /\ q.up = p.up /\ q.state = p.state /\ q.refused = p.refused
        /\ q.nextCltu = p.nextCltu /\ q.outOfSequence = p.outOfSequence
    BY <2>2, ProviderUpdates DEF Providers
  <2>6. Expects(p, r, Aborted(p)) /\ Expects(p, r, p) /\ Expects(p, r, q)
    BY <1>7, <2>5, ProviderUpdates DEF Expects
  <2>. HIDE DEF x, y, q
  <2>7. /\ <<x>> \in Seq(Pdus) /\ Len(<<x>>) = 1 /\ <<x>>[1] = x
        /\ <<y>> \in Seq(Pdus) /\ Len(<<y>>) = 1 /\ <<y>>[1] = y
    BY <2>3
  <2>8. \A i \in 1 .. 1 : i = 1
    OBVIOUS
  <2>9. Answered(p, r, Answer(p, <<x>>))
    BY <1>7, <2>3, <2>6, <2>7, <2>8, SilentAnswer, ZenonT(60) DEF Telling
  <2>10. Answered(p, r, Answer(q, <<y>>))
    BY <1>7, <2>3, <2>5, <2>6, <2>7, <2>8, SilentAnswer, ZenonT(60) DEF Telling
  <2>11. QED  BY <2>4, <2>6, <2>9, <2>10, ErrorAnswer
<1>8. CASE r.op = "abort"
  <2>1. a = Answer(Aborted(p), <<>>)
    BY <1>8 DEF Answers
  <2>2. Expects(p, r, Aborted(p))
    BY <1>8, ProviderUpdates DEF Expects
  <2>3. <<>> \in Seq(Pdus) /\ Len(<<>>) = 0 /\ 1 .. 0 = {}
    OBVIOUS
  <2>4. Answered(p, r, Answer(Aborted(p), <<>>))
    BY <1>8, <2>2, <2>3, ProviderUpdates, SilentAnswer
  <2>5. QED  BY <2>1, <2>4
<1>9. QED  BY <1>0, <1>1, <1>2, <1>3, <1>4, <1>5, <1>6, <1>7, <1>8 DEF Ops

----------------------------------------------------------------------------
(* What is ahead of the service. *)

\* The PDUs in new are those of old from the k-th on, or the first of them.
Segment(old, new, k) ==
  /\ new \in Seq(Pdus) /\ k \in Nat /\ Len(new) + k <= Len(old)
  /\ \A i \in 1 .. Len(new) : new[i] = old[i + k]

\* The PDUs in new are those of old, and then those of extra.
Extended(old, new, extra) ==
  /\ new \in Seq(Pdus) /\ Len(new) = Len(old) + Len(extra)
  /\ \A i \in 1 .. Len(old) : new[i] = old[i]
  /\ \A i \in 1 .. Len(extra) : new[Len(old) + i] = extra[i]
  /\ \A i \in Len(old) + 1 .. Len(new) : new[i] = extra[i - Len(old)]

\* The queue and what is to be read, as one sequence.
LEMMA AheadSeq ==
  ASSUME NEW q \in Seq(Pdus), NEW b \in Seq(Pdus)
  PROVE  /\ q \o b \in Seq(Pdus) /\ Len(q \o b) = Len(q) + Len(b)
         /\ \A i \in 1 .. Len(q) : (q \o b)[i] = q[i]
         /\ \A i \in 1 .. Len(b) : (q \o b)[Len(q) + i] = b[i]
         /\ \A i \in Len(q) + 1 .. Len(q) + Len(b) : (q \o b)[i] = b[i - Len(q)]
<1>1. q \o b \in Seq(Pdus) /\ Len(q \o b) = Len(q) + Len(b)
  BY ConcatProperties
<1>2. \A i \in 1 .. Len(q) + Len(b) : (q \o b)[i] = IF i <= Len(q) THEN q[i] ELSE b[i - Len(q)]
  BY ConcatProperties
<1>3. Len(q) \in Nat /\ Len(b) \in Nat
  OBVIOUS
<1>4. \A i \in 1 .. Len(q) : (q \o b)[i] = q[i]
  BY <1>2, <1>3
<1>5. \A i \in Len(q) + 1 .. Len(q) + Len(b) : (q \o b)[i] = b[i - Len(q)]
  BY <1>2, <1>3
<1>6. \A i \in 1 .. Len(b) : (q \o b)[Len(q) + i] = b[i]
  BY <1>2, <1>3
<1>7. QED  BY <1>1, <1>4, <1>5, <1>6

\* What was read from the socket only is lost with it.
LEMMA QueueSegment ==
  ASSUME NEW q \in Seq(Pdus), NEW b \in Seq(Pdus)
  PROVE  Segment(q \o b, q \o <<>>, 0)
<1>1. <<>> \in Seq(Pdus) /\ Len(<<>>) = 0
  OBVIOUS
<1>2. q \o <<>> \in Seq(Pdus) /\ Len(q \o <<>>) = Len(q) /\ \A i \in 1 .. Len(q) : (q \o <<>>)[i] = q[i]
  BY <1>1, AheadSeq
<1> DEFINE new == q \o <<>>
           old == q \o b
<1>3. old \in Seq(Pdus) /\ Len(old) = Len(q) + Len(b) /\ \A i \in 1 .. Len(q) : old[i] = q[i]
  BY AheadSeq
<1>4. new \in Seq(Pdus) /\ Len(new) = Len(q) /\ \A i \in 1 .. Len(q) : new[i] = q[i]
  BY <1>2
<1>5. Len(q) \in Nat /\ Len(b) \in Nat
  OBVIOUS
<1>. HIDE DEF new, old
<1>6. Segment(old, new, 0)
  BY <1>3, <1>4, <1>5 DEF Segment
<1>7. QED  BY <1>6 DEF new, old

\* The first PDU of the queue is taken, and what is not yet read stays or is lost.
LEMMA TailSegment ==
  ASSUME NEW q \in Seq(Pdus), q # <<>>, NEW b \in Seq(Pdus), NEW c \in {b, <<>>}
  PROVE  /\ Segment(q \o b, Tail(q) \o c, 1)
         /\ c = b => Len(q \o b) = Len(Tail(q) \o c) + 1
         /\ (q \o b)[1] = Head(q) /\ Head(q) \in Pdus /\ Len(q \o b) \in Nat \ {0}
<1> DEFINE t == Tail(q)
           new == t \o c
           old == q \o b
<1>1. /\ t \in Seq(Pdus) /\ Len(t) = Len(q) - 1 /\ \A i \in 1 .. Len(t) : t[i] = q[i + 1]
      /\ Len(q) \in Nat \ {0} /\ Head(q) = q[1] /\ Head(q) \in Pdus
  OBVIOUS
<1>2. c \in Seq(Pdus) /\ Len(b) \in Nat /\ Len(c) \in {0, Len(b)}
      /\ (Len(c) = Len(b) \/ Len(c) = 0) /\ (Len(c) # 0 => c = b)
  <2>1. <<>> \in Seq(Pdus) /\ Len(<<>>) = 0
    OBVIOUS
  <2>2. Len(b) \in Nat
    OBVIOUS
  <2>3. c = b \/ c = <<>>
    OBVIOUS
  <2>4. QED  BY <2>1, <2>2, <2>3
<1>. HIDE DEF t
<1>3. /\ old \in Seq(Pdus) /\ Len(old) = Len(q) + Len(b)
      /\ \A i \in 1 .. Len(q) : old[i] = q[i]
      /\ \A i \in Len(q) + 1 .. Len(q) + Len(b) : old[i] = b[i - Len(q)]
  BY AheadSeq
<1>4. /\ new \in Seq(Pdus) /\ Len(new) = Len(t) + Len(c)
      /\ \A i \in 1 .. Len(t) : new[i] = t[i]
      /\ \A i \in Len(t) + 1 .. Len(t) + Len(c) : new[i] = c[i - Len(t)]
  BY <1>1, <1>2, AheadSeq
<1>. HIDE DEF old, new
<1>5. \A i \in 1 .. Len(new) : new[i] = old[i + 1]
  <2>1. TAKE i \in 1 .. Len(new)
  <2>2. CASE i <= Len(t)
    <3>1. i \in 1 .. Len(t) /\ i + 1 \in 1 .. Len(q)
      BY <1>1, <2>2
    <3>2. QED  BY <1>1, <1>3, <1>4, <3>1
  <2>3. CASE i > Len(t)
    <3>1. i \in Len(t) + 1 .. Len(t) + Len(c) /\ i + 1 \in Len(q) + 1 .. Len(q) + Len(b)
          /\ i - Len(t) = (i + 1) - Len(q) /\ Len(c) # 0
      BY <1>1, <1>2, <1>4, <2>3
    <3>2. QED  BY <1>2, <1>3, <1>4, <3>1
  <2>4. QED  BY <1>1, <2>2, <2>3
<1>6. Len(new) + 1 <= Len(old) /\ (c = b => Len(old) = Len(new) + 1)
  BY <1>1, <1>2, <1>3, <1>4
<1>7. Segment(old, new, 1)
  BY <1>4, <1>5, <1>6 DEF Segment
<1>8. old[1] = Head(q) /\ Len(old) \in Nat \ {0}
  BY <1>1, <1>2, <1>3
<1>9. QED  BY <1>1, <1>6, <1>7, <1>8 DEF old, new, t

\* What the provider sends comes behind all that it sent before.
LEMMA SentExtends ==
  ASSUME NEW q \in Seq(Pdus), NEW b \in Seq(Pdus), NEW x \in Seq(Pdus)
  PROVE  Extended(q \o b, q \o (b \o x), x)
<1> DEFINE old == q \o b
           bx == b \o x
           new == q \o bx
<1>1. old \in Seq(Pdus) /\ Len(old) \in Nat /\ Len(x) \in Nat /\ Len(old \o x) = Len(old) + Len(x)
  BY AheadSeq
<1>2. new = old \o x
  BY ONLY q \in Seq(Pdus), b \in Seq(Pdus), x \in Seq(Pdus), ConcatAssociative, SMTT(30)
<1>. HIDE DEF old, new
<1>3. /\ old \o x \in Seq(Pdus)
      /\ \A i \in 1 .. Len(old) : (old \o x)[i] = old[i]
      /\ \A i \in 1 .. Len(x) : (old \o x)[Len(old) + i] = x[i]
      /\ \A i \in Len(old) + 1 .. Len(old) + Len(x) : (old \o x)[i] = x[i - Len(old)]
  BY <1>1, AheadSeq
<1>4. Extended(old, new, x)
  BY <1>1, <1>2, <1>3 DEF Extended
<1>5. QED  BY <1>4 DEF old, new

\* The first greenlet moves a PDU from the one to the other.
LEMMA ReadMoves ==
  ASSUME NEW q \in Seq(Pdus), NEW b \in Seq(Pdus), b # <<>>
  PROVE  Append(q, Head(b)) \o Tail(b) = q \o b
<1>1. Head(b) \in Pdus /\ Tail(b) \in Seq(Pdus)
  OBVIOUS
<1>2. <<Head(b)>> \in Seq(Pdus)
  BY <1>1
<1>3. Append(q, Head(b)) = q \o <<Head(b)>>
  BY <1>1, AppendIsConcat
<1>4. b = <<Head(b)>> \o Tail(b)
  BY HeadTailProperties, ConcatProperties, <1>1, <1>2
<1>5. (q \o <<Head(b)>>) \o Tail(b) = q \o (<<Head(b)>> \o Tail(b))
  BY ONLY <1>1, <1>2, q \in Seq(Pdus), ConcatAssociative
<1>6. QED  BY <1>3, <1>4, <1>5

\* A part of what was ahead is as small and as ordered.
LEMMA SegmentKeeps ==
  ASSUME NEW old \in Seq(Pdus), NEW new, NEW k, Segment(old, new, k),
         NEW n, NEW last, NEW end
  PROVE  /\ Counted(old, n) => Counted(new, n)
         /\ Framed(old, last, end) => Framed(new, last, end)
<1>1. \A i \in 1 .. Len(new) : i + k \in 1 .. Len(old) /\ new[i] = old[i + k]
  BY DEF Segment
<1>2. \A i, j \in 1 .. Len(new) : i < j => i + k < j + k
  BY DEF Segment
<1>3. QED  BY <1>1, <1>2 DEF Counted, Framed

\* A larger count of calls, a later relayed frame and a later end bound as much.
LEMMA CountedMore ==
  ASSUME NEW pdus \in Seq(Pdus), NEW n \in Nat, NEW m \in Nat, n <= m, Counted(pdus, n)
  PROVE  Counted(pdus, m)
<1>1. \A i \in 1 .. Len(pdus) : pdus[i].n \in Nat
  BY ElementOfSeq DEF Pdus
<1>2. QED  BY <1>1 DEF Counted

\* PDUs without frames that come behind leave the order of the frames.
LEMMA ExtendKeeps ==
  ASSUME NEW old \in Seq(Pdus), NEW extra \in Seq(Pdus), NEW new, Extended(old, new, extra),
         NEW n, NEW last, NEW end
  PROVE  /\ Counted(old, n) /\ Counted(extra, n) => Counted(new, n)
         /\ Framed(old, last, end) /\ (\A i \in 1 .. Len(extra) : ~IsBuffer(extra[i]))
              => Framed(new, last, end)
<1>1. \A i \in 1 .. Len(new) :
        \/ i \in 1 .. Len(old) /\ new[i] = old[i]
        \/ i - Len(old) \in 1 .. Len(extra) /\ new[i] = extra[i - Len(old)]
  <2>1. TAKE i \in 1 .. Len(new)
  <2>2. Len(old) \in Nat /\ Len(extra) \in Nat
    OBVIOUS
  <2>3. i <= Len(old) => i \in 1 .. Len(old)
    BY <2>2
  <2>4. i > Len(old) => i \in Len(old) + 1 .. Len(new) /\ i - Len(old) \in 1 .. Len(extra)
    BY <2>2 DEF Extended
  <2>5. QED  BY <2>2, <2>3, <2>4 DEF Extended
<1>2. QED  BY <1>1 DEF Counted, Framed

\* A buffer of the next two frames comes behind the others.
LEMMA ExtendBuffer ==
  ASSUME NEW old \in Seq(Pdus), NEW x \in Pdus, IsBuffer(x), NEW new, Extended(old, new, <<x>>),
         NEW last \in Nat, NEW end \in Nat, Base(x) = end, Framed(old, last, end)
  PROVE  Framed(new, last, end + 2)
<1>1. \A i \in 1 .. Len(new) :
        \/ i \in 1 .. Len(old) /\ new[i] = old[i]
        \/ i = Len(old) + 1 /\ new[i] = x
  <2>1. TAKE i \in 1 .. Len(new)
  <2>2. Len(old) \in Nat /\ Len(<<x>>) = 1 /\ <<x>>[1] = x
    OBVIOUS
  <2>3. i <= Len(old) => i \in 1 .. Len(old)
    BY <2>2
  <2>4. i > Len(old) => i = Len(old) + 1 /\ i \in Len(old) + 1 .. Len(new) /\ i - Len(old) = 1
    BY <2>2 DEF Extended
  <2>5. QED  BY <2>2, <2>3, <2>4 DEF Extended
<1>2. \A i \in 1 .. Len(old) : IsBuffer(old[i]) => Base(old[i]) \in Nat
  BY ElementOfSeq DEF Pdus, PduOK
<1>3. last <= end + 2 /\ last <= Base(x) /\ Base(x) + 2 <= end + 2
  BY DEF Framed
<1>4. \A i \in 1 .. Len(old) : IsBuffer(old[i]) =>
        last <= Base(old[i]) /\ Base(old[i]) + 2 <= end /\ Base(old[i]) + 2 <= end + 2
  BY <1>2 DEF Framed
<1>5. \A i \in 1 .. Len(new) :
        IsBuffer(new[i]) => last <= Base(new[i]) /\ Base(new[i]) + 2 <= end + 2
  BY <1>1, <1>3, <1>4
<1>6. ASSUME NEW i \in 1 .. Len(new), NEW j \in 1 .. Len(new), i < j,
             IsBuffer(new[i]), IsBuffer(new[j])
      PROVE  Base(new[i]) + 2 <= Base(new[j])
  <2>1. Len(old) \in Nat
    OBVIOUS
  <2>2. i \in 1 .. Len(old) /\ new[i] = old[i]
    BY <1>1, <1>6, <2>1
  <2>3. CASE j \in 1 .. Len(old) /\ new[j] = old[j]
    BY <1>6, <2>2, <2>3 DEF Framed
  <2>4. CASE j = Len(old) + 1 /\ new[j] = x
    BY <1>4, <1>6, <2>2, <2>4
  <2>5. QED  BY <1>1, <2>3, <2>4
<1>7. QED  BY <1>3, <1>5, <1>6 DEF Framed

\* The return that is handled is the next of those that tell a state.
LEMMA TailTells ==
  ASSUME NEW old \in Seq(Pdus), NEW new, Segment(old, new, 1), Len(old) = Len(new) + 1,
         NEW s, NEW t, NEW p, Tells(old, s, p),
         t.state = IF old[1].type \in Telling THEN Told(old[1]) ELSE s.state
  PROVE  Tells(new, t, p)
<1>0. Len(new) \in Nat
  BY DEF Segment
<1>1. \A i \in 1 .. Len(new) : i + 1 \in 1 .. Len(old) /\ new[i] = old[i + 1]
  BY <1>0 DEF Segment
<1>2. \A i \in 2 .. Len(old) : i - 1 \in 1 .. Len(new) /\ new[i - 1] = old[i]
  BY <1>0, <1>1
<1>3. ASSUME NEW i \in 1 .. Len(new), new[i].type \in Telling,
             \A j \in i + 1 .. Len(new) : new[j].type \notin Telling
      PROVE  Told(new[i]) = p.state
  <2>1. \A j \in i + 2 .. Len(old) : old[j].type \notin Telling
    <3>1. TAKE j \in i + 2 .. Len(old)
    <3>2. j \in 2 .. Len(old) /\ j - 1 \in i + 1 .. Len(new)
      BY <1>0
    <3>3. QED  BY <1>2, <1>3, <3>2
  <2>2. (i + 1) + 1 = i + 2
    OBVIOUS
  <2>3. QED  BY <1>1, <1>3, <2>1, <2>2 DEF Tells
<1>4. ASSUME \A i \in 1 .. Len(new) : new[i].type \notin Telling
      PROVE  t.state = p.state
  <2>1. \A j \in 2 .. Len(old) : old[j].type \notin Telling
    BY <1>2, <1>4
  <2>2. 1 \in 1 .. Len(old) /\ \A j \in 1 .. Len(old) : j = 1 \/ j \in 2 .. Len(old)
    BY <1>0
  <2>3. CASE old[1].type \in Telling
    BY <2>1, <2>2, <2>3 DEF Tells
  <2>4. CASE old[1].type \notin Telling
    BY <2>1, <2>2, <2>4 DEF Tells
  <2>5. QED  BY <2>3, <2>4
<1>5. QED  BY <1>3, <1>4 DEF Tells

\* PDUs that tell no state leave the last one that does.
LEMMA SilentTells ==
  ASSUME NEW old \in Seq(Pdus), NEW extra \in Seq(Pdus), NEW new, Extended(old, new, extra),
         \A i \in 1 .. Len(extra) : extra[i].type \notin Telling,
         NEW s, NEW t, NEW p, NEW q, Tells(old, s, p), t.state = s.state, q.state = p.state
  PROVE  Tells(new, t, q)
<1>0. Len(old) \in Nat /\ Len(extra) \in Nat
  OBVIOUS
<1>1. \A i \in 1 .. Len(new) : i > Len(old) => new[i].type \notin Telling
  <2>1. TAKE i \in 1 .. Len(new)
  <2>2. i > Len(old) => i \in Len(old) + 1 .. Len(new) /\ i - Len(old) \in 1 .. Len(extra)
    BY <1>0 DEF Extended
  <2>3. QED  BY <2>2 DEF Extended
<1>2. \A i \in 1 .. Len(old) : i \in 1 .. Len(new) /\ new[i] = old[i]
  BY <1>0 DEF Extended
<1>3. ASSUME NEW i \in 1 .. Len(new), new[i].type \in Telling,
             \A j \in i + 1 .. Len(new) : new[j].type \notin Telling
      PROVE  Told(new[i]) = q.state
  <2>1. i \in 1 .. Len(old)
    BY <1>0, <1>1, <1>3
  <2>2. \A j \in i + 1 .. Len(old) : old[j].type \notin Telling
    <3>1. TAKE j \in i + 1 .. Len(old)
    <3>2. j \in 1 .. Len(old) /\ j \in i + 1 .. Len(new)
      BY <1>0, <2>1 DEF Extended
    <3>3. QED  BY <1>2, <1>3, <3>2
  <2>3. QED  BY <1>2, <1>3, <2>1, <2>2 DEF Tells
<1>4. ASSUME \A i \in 1 .. Len(new) : new[i].type \notin Telling
      PROVE  t.state = q.state
  BY <1>2, <1>4 DEF Tells
<1>5. QED  BY <1>3, <1>4 DEF Tells

\* A return that tells the state of the provider is the last one that does.
LEMMA ToldTells ==
  ASSUME NEW old \in Seq(Pdus), NEW x \in Pdus, NEW new, Extended(old, new, <<x>>),
         x.type \in Telling, NEW s, NEW p, Told(x) = p.state
  PROVE  Tells(new, s, p)
<1>0. Len(old) \in Nat /\ Len(<<x>>) = 1 /\ <<x>>[1] = x
  OBVIOUS
<1> DEFINE m == Len(old) + 1
<1>1. Len(new) = m /\ m \in 1 .. Len(new) /\ new[m] = x
  BY <1>0 DEF Extended
<1>2. ASSUME NEW i \in 1 .. Len(new), \A j \in i + 1 .. Len(new) : new[j].type \notin Telling
      PROVE  i = m
  BY <1>0, <1>1, <1>2
<1>3. QED  BY <1>1, <1>2 DEF Tells

----------------------------------------------------------------------------
(* The numbers of the CLTUs on the wire. *)

\* A request behind the others has the next number, or takes it.
LEMMA NumberedAppend ==
  ASSUME NEW s \in Services, NEW u \in Services, NEW p, Numbered(s, p), NEW r \in Requests,
         u.wire = Append(s.wire, r), r.op \in {"start", "transfer"} => r.n = s.cltu_id,
         u.cltu_id = IF r.op = "transfer" THEN s.cltu_id + 1 ELSE s.cltu_id
  PROVE  Numbered(u, p)
<1> DEFINE w == s.wire
           v == u.wire
           m == Len(w)
<1>1. w \in Seq(Requests) /\ m \in Nat /\ u.cltu_id \in Nat
  BY DEF Services
<1>2. v = Append(w, r)
  OBVIOUS
<1>3. PICK f \in [1 .. m + 1 -> Nat] :
        /\ Numbering(f, w, s.cltu_id)
        /\ p.state = "active" /\ ~p.refused => f[1] = p.nextCltu
  BY DEF Numbered
<1>. HIDE DEF w, v
<1>4. Len(v) = m + 1 /\ v[m + 1] = r /\ \A i \in 1 .. m : v[i] = w[i]
  BY <1>1, <1>2
<1> DEFINE g == [i \in 1 .. Len(v) + 1 |-> IF i <= m + 1 THEN f[i] ELSE u.cltu_id]
<1>5. g \in [1 .. Len(v) + 1 -> Nat]
  BY <1>1, <1>3, <1>4
<1>6. g[Len(v) + 1] = u.cltu_id /\ g[1] = f[1] /\ \A i \in 1 .. m + 1 : g[i] = f[i]
  BY <1>1, <1>4
<1>. HIDE DEF g
<1>7. f[m + 1] = s.cltu_id
  BY <1>3 DEF Numbering, w
<1>8. ASSUME NEW i \in 1 .. Len(v)
      PROVE  /\ g[i + 1] = IF v[i].op = "transfer" THEN g[i] + 1 ELSE g[i]
             /\ v[i].op \in {"start", "transfer"} => v[i].n = g[i]
  <2>1. CASE i \in 1 .. m
    <3>1. i \in 1 .. m + 1 /\ i + 1 \in 1 .. m + 1
      BY <1>1, <2>1
    <3>2. QED  BY <1>3, <1>4, <1>6, <2>1, <3>1 DEF Numbering, w
  <2>2. CASE i = m + 1
    <3>1. i \in 1 .. m + 1 /\ i + 1 = Len(v) + 1
      BY <1>1, <1>4, <2>2
    <3>2. QED  BY <1>4, <1>6, <1>7, <2>2, <3>1
  <2>3. QED  BY <1>1, <1>4, <2>1, <2>2
<1>9. Numbering(g, v, u.cltu_id)
  BY <1>6, <1>8 DEF Numbering
<1>10. QED  BY <1>3, <1>5, <1>6, <1>9 DEF Numbered, v

\* The first request is taken from the wire, and answered.
LEMMA NumberedTail ==
  ASSUME NEW s \in Services, NEW p \in Providers, Numbered(s, p), s.wire # <<>>,
         NEW u, u.cltu_id = s.cltu_id, u.wire = Tail(s.wire),
         NEW q \in Providers, Expects(p, Head(s.wire), q)
  PROVE  Numbered(u, q) /\ (q.outOfSequence => p.outOfSequence \/ q.refused)
<1> DEFINE w == s.wire
           v == u.wire
           m == Len(w)
           r == Head(w)
<1>1. w \in Seq(Requests) /\ m \in Nat \ {0} /\ w # <<>> /\ v = Tail(w)
  BY DEF Services
<1>2. PICK f \in [1 .. m + 1 -> Nat] :
        /\ Numbering(f, w, s.cltu_id)
        /\ p.state = "active" /\ ~p.refused => f[1] = p.nextCltu
  BY DEF Numbered
<1>3. Expects(p, r, q)
  OBVIOUS
<1>. HIDE DEF w, v
<1>4. Len(v) = m - 1 /\ Len(v) \in Nat /\ (\A i \in 1 .. Len(v) : v[i] = w[i + 1]) /\ r = w[1]
  BY <1>1
<1>. HIDE DEF m, r
<1> DEFINE g == [i \in 1 .. Len(v) + 1 |-> f[i + 1]]
<1>5. \A i \in 1 .. Len(v) + 1 : i + 1 \in 1 .. m + 1 /\ (i <= Len(v) => i + 1 \in 1 .. m)
  BY <1>1, <1>4
<1>6. g \in [1 .. Len(v) + 1 -> Nat] /\ \A i \in 1 .. Len(v) + 1 : g[i] = f[i + 1]
  BY <1>2, <1>5
<1>. HIDE DEF g
<1>7. Numbering(f, w, s.cltu_id) /\ Len(w) = m
  BY <1>2 DEF m
<1>8. g[Len(v) + 1] = u.cltu_id
  <2>1. Len(v) + 1 \in 1 .. Len(v) + 1 /\ (Len(v) + 1) + 1 = m + 1
    BY <1>1, <1>4
  <2>2. QED  BY <1>6, <1>7, <2>1 DEF Numbering
<1>9. ASSUME NEW i \in 1 .. Len(v)
      PROVE  /\ g[i + 1] = IF v[i].op = "transfer" THEN g[i] + 1 ELSE g[i]
             /\ v[i].op \in {"start", "transfer"} => v[i].n = g[i]
  <2>1. i \in 1 .. Len(v) + 1 /\ i + 1 \in 1 .. Len(v) + 1 /\ i + 1 \in 1 .. m
    BY <1>1, <1>4
  <2>2. QED  BY <1>4, <1>6, <1>7, <2>1 DEF Numbering
<1>10. Numbering(g, v, u.cltu_id)
  BY <1>8, <1>9 DEF Numbering
<1>11. /\ f[1] \in Nat /\ f[2] \in Nat /\ g[1] = f[2]
       /\ f[2] = IF r.op = "transfer" THEN f[1] + 1 ELSE f[1]
       /\ r.op \in {"start", "transfer"} => r.n = f[1]
  <2>1. 1 \in 1 .. m /\ 1 \in 1 .. m + 1 /\ 2 \in 1 .. m + 1 /\ 1 \in 1 .. Len(v) + 1 /\ 1 + 1 = 2
    BY <1>1, <1>4
  <2>2. QED  BY <1>2, <1>4, <1>6, <1>7, <2>1 DEF Numbering
<1>12. /\ q.state = "active" /\ ~q.refused => g[1] = q.nextCltu
       /\ q.outOfSequence => p.outOfSequence \/ q.refused
  <2>1. CASE r.op = "start"
    BY <1>3, <1>11, <2>1 DEF Expects
  <2>2. CASE r.op = "transfer"
    BY <1>2, <1>3, <1>11, <2>2 DEF Expects
  <2>3. CASE r.op \notin {"start", "transfer"}
    BY <1>2, <1>3, <1>11, <2>3 DEF Expects
  <2>4. QED  BY <2>1, <2>2, <2>3
<1>13. QED  BY <1>6, <1>10, <1>12 DEF Numbered, v

----------------------------------------------------------------------------
(* Every step preserves the invariant. *)

\* The requests of the user.
LEMMA RequestStep ==
  ASSUME Inv, Requesting
  PROVE  Inv'
<1>1. /\ TypeInv /\ CountInv /\ FrameInv /\ AgreeInv /\ CltuInv
      /\ service \in Services /\ service.raised = "none"
      /\ service.kind # "cltu" => service.cltu_id = 0
  BY DEF Inv, TypeInv, CltuInv
<1>2. Calling /\ Asked(service, service')
  BY <1>1, RequestAsked
<1>3. UNCHANGED <<provider, inbound, queue, connections, buffers, offered, faults, stale, saved>>
  BY <1>2 DEF Calling, network, history
<1>4. service.socket # "open" => ~provider.up
  BY <1>1 DEF TypeInv
<1>5. Ahead' = Ahead /\ Ahead \in Seq(Pdus)
  BY <1>1, <1>3, AheadSeq DEF Ahead, TypeInv
<1>6. calls \in Nat /\ calls' = calls + 1 /\ calls' \in 0 .. MaxCalls /\ odd' \in 0 .. MaxOdd
  BY <1>1, <1>2, BoundsAssumption DEF Calling, TypeInv
<1>7. TypeInv'
  BY <1>1, <1>2, <1>3, <1>6 DEF TypeInv, Asked
<1>8. /\ service.wire \in Seq(Requests) /\ Len(service.wire) \in Nat
      /\ service.cltu_id \in Nat /\ service.event_invoc_id \in Nat
      /\ service'.cltu_id \in Nat
  BY <1>1, <1>2 DEF Services, Asked
<1>9. ASSUME NEW r \in Requests, service'.wire = Append(service.wire, r)
      PROVE  \A i \in 1 .. Len(service'.wire) :
               \/ i \in 1 .. Len(service.wire) /\ service'.wire[i] = service.wire[i]
               \/ i = Len(service.wire) + 1 /\ service'.wire[i] = r
  BY <1>8, <1>9
<1>10. CountInv'
  <2>1. service'.cltu_id <= calls' /\ service'.event_invoc_id <= calls'
    BY <1>1, <1>2, <1>6, <1>8 DEF CountInv, Asked
  <2>2. Counted(Ahead', calls')
    BY <1>1, <1>5, <1>6, CountedMore DEF CountInv
  <2>3. ASSUME NEW i \in 1 .. Len(service'.wire), service'.wire[i].op = "throw"
        PROVE  service'.wire[i].n < calls'
    <3>1. ASSUME service'.wire = service.wire
          PROVE  service'.wire[i].n < calls'
      <4>1. i \in 1 .. Len(service.wire) /\ service.wire[i].op = "throw"
        BY <2>3, <3>1
      <4>2. service.wire[i] \in Requests
        BY <1>8, <4>1, ElementOfSeq
      <4>3. service.wire[i].n < calls /\ service.wire[i].n \in Nat
        BY <1>1, <4>1, <4>2 DEF CountInv, Requests
      <4>4. QED  BY <1>6, <3>1, <4>3
    <3>2. ASSUME NEW r \in Requests, service'.wire = Append(service.wire, r),
                 r.op = "throw" => r.n = service.event_invoc_id
          PROVE  service'.wire[i].n < calls'
      <4>1. CASE i \in 1 .. Len(service.wire) /\ service'.wire[i] = service.wire[i]
        <5>1. service.wire[i].n < calls /\ service.wire[i] \in Requests
          BY <1>1, <1>8, <2>3, <4>1, ElementOfSeq DEF CountInv
        <5>2. service.wire[i].n \in Nat
          BY <5>1 DEF Requests
        <5>3. QED  BY <1>6, <4>1, <5>1, <5>2
      <4>2. CASE service'.wire[i] = r
        BY <1>1, <1>6, <1>8, <2>3, <3>2, <4>2 DEF CountInv
      <4>3. QED  BY <1>9, <3>2, <4>1, <4>2
    <3>3. QED  BY <1>2, <3>1, <3>2 DEF Asked
  <2>4. QED  BY <2>1, <2>2, <2>3 DEF CountInv
<1>11. FrameInv'
  <2>1. service'.forwarded = service.forwarded
    BY <1>2 DEF Asked
  <2>2. QED  BY <1>1, <1>3, <1>5, <2>1 DEF FrameInv
<1>12. AgreeInv'
  <2>1. CASE ~provider.up
    BY <1>3, <2>1 DEF AgreeInv
  <2>2. ASSUME service.socket = "open"
        PROVE  Aborting' \/ (~Aborting /\ service'.state = service.state)
    <3>1. CASE service'.wire = service.wire /\ service'.state = service.state
      BY <3>1 DEF Aborting
    <3>2. ASSUME NEW r \in Requests, service'.wire = Append(service.wire, r),
                 service'.state = service.state \/ r.op = "abort"
          PROVE  Aborting' \/ (~Aborting /\ service'.state = service.state)
      <4>1. /\ Len(service'.wire) = Len(service.wire) + 1
            /\ service'.wire[Len(service.wire) + 1] = r
            /\ \A i \in 1 .. Len(service.wire) : service'.wire[i] = service.wire[i]
        BY <1>8, <3>2
      <4>2. CASE r.op = "abort"
        BY <1>8, <4>1, <4>2 DEF Aborting
      <4>3. CASE Aborting
        BY <1>8, <4>1, <4>3 DEF Aborting
      <4>4. QED  BY <3>2, <4>2, <4>3
    <3>3. QED  BY <1>2, <2>2, <3>1, <3>2 DEF Asked
  <2>3. service'.processor = service.processor
    BY <1>2 DEF Asked
  <2>4. CASE provider.up
    BY <1>1, <1>3, <1>4, <1>5, <2>2, <2>3, <2>4 DEF AgreeInv, Tells
  <2>5. QED  BY <2>1, <2>4
<1>13. CltuInv'
  <2>1. CltusInSequence'
    BY <1>1, <1>3 DEF CltuInv, CltusInSequence
  <2>2. service'.kind # "cltu" => service'.cltu_id = 0
    BY <1>1, <1>2 DEF Asked
  <2>3. ASSUME provider'.up, ~saved' PROVE Numbered(service', provider')
    <3>1. Numbered(service, provider) /\ provider' = provider /\ service.socket = "open"
      BY <1>1, <1>3, <1>4, <2>3 DEF CltuInv
    <3>2. CASE service'.wire = service.wire /\ service'.cltu_id = service.cltu_id
      BY <3>1, <3>2 DEF Numbered
    <3>3. ASSUME NEW r \in Requests, service'.wire = Append(service.wire, r),
                 r.op \in {"start", "transfer"} => r.n = service.cltu_id,
                 service'.cltu_id = IF r.op = "transfer" THEN service.cltu_id + 1 ELSE service.cltu_id
          PROVE  Numbered(service', provider')
      <4>1. service' \in Services
        BY <1>2 DEF Asked
      <4>2. Numbered(service', provider)
        BY <1>1, <3>1, <3>3, <4>1, NumberedAppend
      <4>3. QED  BY <3>1, <4>2
    <3>4. QED  BY <1>2, <3>1, <3>2, <3>3 DEF Asked
  <2>4. QED  BY <2>1, <2>2, <2>3 DEF CltuInv
<1>14. QED  BY <1>7, <1>10, <1>11, <1>12, <1>13 DEF Inv

\* A new connection begins unbound, with what an earlier one left in the queue.
LEMMA ConnectStep ==
  ASSUME Inv, Connect
  PROVE  Inv' /\ UNCHANGED <<offered, service.forwarded>>
<1>1. /\ TypeInv /\ CountInv /\ FrameInv /\ AgreeInv /\ CltuInv
      /\ service \in Services /\ service.raised = "none" /\ provider \in Providers
  BY DEF Inv, TypeInv
<1>2. PICK reachable \in BOOLEAN :
        /\ Call(S!connect(service, reachable), TRUE)
        /\ provider' = IF reachable THEN [NewProvider EXCEPT !.up = TRUE] ELSE provider
        /\ stale' = (queue # <<>> \/ service.state # "unbound")
        /\ saved' = (saved /\ ~reachable)
  BY DEF Connect
<1>3. /\ service.socket \in {"none", "closed"} /\ service.monitor = 0 /\ service.processor = 0
      /\ connections' \in 0 .. MaxConnections
      /\ inbound' = <<>> /\ UNCHANGED <<queue, buffers, offered, faults>>
  BY <1>1, BoundsAssumption DEF Connect, history, TypeInv
<1> DEFINE t == S!connect(service, reachable)
<1>4. /\ service' = S!Handled(t)
      /\ calls \in Nat /\ calls' = calls + 1 /\ calls' \in 0 .. MaxCalls /\ odd' \in 0 .. MaxOdd
  BY <1>1, <1>2, BoundsAssumption, SMTT(30) DEF Call, TypeInv
<1>5. t \in Services /\ t.kind = service.kind /\ t.state = service.state
      /\ t.cltu_id = service.cltu_id /\ t.event_invoc_id = service.event_invoc_id
      /\ t.forwarded = service.forwarded
      /\ t.wire = (IF reachable THEN <<>> ELSE service.wire)
      /\ t.socket = (IF reachable THEN "open" ELSE "none")
  <2>1. CASE reachable
    <3>1. service.monitor + 1 = 1 /\ service.processor + 1 = 1
      BY <1>3
    <3>2. t = [service EXCEPT !.socket = "open", !.wire = <<>>, !.monitor = 1, !.processor = 1]
      BY <2>1, <3>1 DEF S!connect
    <3>3. "open" \in Sockets /\ <<>> \in Seq(Requests) /\ 1 \in 0 .. 1
      BY DEF Sockets
    <3>. HIDE DEF t
    <3>4. t \in Services
      BY <1>1, <3>2, <3>3 DEF Services
    <3>5. QED  BY <1>1, <2>1, <3>2, <3>4 DEF Services
  <2>2. CASE ~reachable
    <3> DEFINE v == [service EXCEPT !.socket = "none"]
    <3>1. v \in Services
      BY <1>1, Updates DEF Sockets
    <3>2. t = [v EXCEPT !.raised = "Exception"]
      BY <2>2 DEF S!connect, S!Raise
    <3>3. /\ v.kind = service.kind /\ v.state = service.state
          /\ v.cltu_id = service.cltu_id /\ v.event_invoc_id = service.event_invoc_id
          /\ v.forwarded = service.forwarded /\ v.wire = service.wire /\ v.socket = "none"
      BY <1>1 DEF Services
    <3>. HIDE DEF t, v
    <3>4. "Exception" \in Errors
      BY DEF Errors
    <3>5. t \in Services
      BY <3>1, <3>2, <3>4, Updates
    <3>6. QED  BY <2>2, <3>1, <3>2, <3>3, <3>5 DEF Services
  <2>3. QED  BY <2>1, <2>2
<1>. HIDE DEF t
<1>6. /\ service' \in Services /\ service'.raised = "none"
      /\ service'.kind = t.kind /\ service'.state = t.state /\ service'.socket = t.socket
      /\ service'.cltu_id = t.cltu_id /\ service'.event_invoc_id = t.event_invoc_id
      /\ service'.wire = t.wire /\ service'.forwarded = t.forwarded
  BY <1>4, <1>5, HandledFields
<1>7. ~provider.up
  BY <1>1, <1>3 DEF TypeInv
<1>8. /\ provider' \in Providers
      /\ reachable => provider'.up /\ provider'.state = "unbound" /\ ~provider'.outOfSequence
      /\ ~reachable => provider' = provider
  BY <1>1, <1>2 DEF NewProvider, Providers, States
<1>9. TypeInv'
  <2>1. inbound' \in Seq(Pdus) /\ stale' \in BOOLEAN /\ saved' \in BOOLEAN
    BY <1>1, <1>2, <1>3 DEF TypeInv
  <2>2. provider'.up => service'.socket = "open"
    BY <1>5, <1>6, <1>7, <1>8
  <2>3. QED  BY <1>1, <1>3, <1>4, <1>6, <1>8, <2>1, <2>2 DEF TypeInv
<1>10. Ahead \in Seq(Pdus) /\ Segment(Ahead, Ahead', 0)
  BY <1>1, <1>3, AheadSeq, QueueSegment DEF Ahead, TypeInv
<1>11. CountInv'
  <2>1. Counted(Ahead', calls')
    <3>1. Counted(Ahead, calls')
      BY <1>1, <1>4, <1>10, CountedMore DEF CountInv
    <3>2. QED  BY <1>10, <3>1, SegmentKeeps
  <2>2. /\ service.cltu_id \in Nat /\ service.event_invoc_id \in Nat
        /\ service.wire \in Seq(Requests)
    BY <1>1 DEF Services
  <2>3. service'.cltu_id <= calls' /\ service'.event_invoc_id <= calls'
    BY <1>1, <1>4, <1>5, <1>6, <2>2 DEF CountInv
  <2>4. ASSUME NEW i \in 1 .. Len(service'.wire), service'.wire[i].op = "throw"
        PROVE  service'.wire[i].n < calls'
    <3>1. CASE reachable
      <4>1. Len(service'.wire) = 0
        BY <1>5, <1>6, <3>1
      <4>2. QED  BY <4>1
    <3>2. CASE ~reachable
      <4>1. service'.wire = service.wire
        BY <1>5, <1>6, <3>2
      <4>2. service.wire[i].n < calls /\ service.wire[i] \in Requests
        BY <1>1, <2>2, <2>4, <4>1, ElementOfSeq DEF CountInv
      <4>3. service.wire[i].n \in Nat
        BY <4>2 DEF Requests
      <4>4. QED  BY <1>4, <4>1, <4>2, <4>3
    <3>3. QED  BY <3>1, <3>2
  <2>5. QED  BY <2>1, <2>3, <2>4 DEF CountInv
<1>12. FrameInv'
  BY <1>1, <1>3, <1>5, <1>6, <1>10, SegmentKeeps DEF FrameInv
<1>13. AgreeInv'
  <2>1. CASE ~reachable
    BY <1>7, <1>8, <2>1 DEF AgreeInv
  <2>2. CASE reachable /\ stale'
    BY <2>2 DEF AgreeInv
  <2>3. CASE reachable /\ ~stale'
    <3>1. Ahead' = <<>> \o <<>> /\ service'.state = "unbound"
      BY <1>2, <1>3, <1>5, <1>6, <2>3 DEF Ahead
    <3>2. <<>> \o <<>> = <<>>
      BY ConcatEmptySeq, EmptySeq
    <3>3. Len(<<>>) = 0 /\ 1 .. 0 = {}
      OBVIOUS
    <3>4. Tells(<<>>, service', provider')
      BY <1>8, <2>3, <3>1, <3>3 DEF Tells
    <3>5. Ahead' = <<>>
      BY <3>1, <3>2
    <3>6. QED  BY <3>4, <3>5 DEF AgreeInv
  <2>4. QED  BY <2>1, <2>2, <2>3
<1>14. CltuInv'
  <2>1. CltusInSequence'
    BY <1>1, <1>2, <1>8 DEF CltuInv, CltusInSequence
  <2>2. service'.kind # "cltu" => service'.cltu_id = 0
    BY <1>1, <1>5, <1>6 DEF CltuInv
  <2>3. reachable => Numbered(service', provider')
    <3> DEFINE id == service'.cltu_id
               f == [i \in 1 .. 1 |-> id]
    <3>1. id \in Nat
      BY <1>6 DEF Services
    <3>2. f \in [1 .. 0 + 1 -> Nat] /\ f[0 + 1] = id
      BY <3>1
    <3>. HIDE DEF f
    <3>3. Numbering(f, <<>>, id)
      <4>1. Len(<<>>) = 0 /\ 1 .. 0 = {}
        OBVIOUS
      <4>2. QED  BY <3>2, <4>1 DEF Numbering
    <3>4. reachable => service'.wire = <<>> /\ provider'.state # "active"
      BY <1>5, <1>6, <1>8
    <3>5. Len(<<>>) = 0
      OBVIOUS
    <3>6. QED  BY <3>2, <3>3, <3>4, <3>5 DEF Numbered
  <2>4. ~reachable => ~provider'.up
    BY <1>7, <1>8
  <2>5. QED  BY <2>1, <2>2, <2>3, <2>4 DEF CltuInv
<1>15. QED  BY <1>3, <1>5, <1>6, <1>9, <1>11, <1>12, <1>13, <1>14 DEF Inv

\* The steps after which the provider is not connected.
LEMMA DownStep ==
  ASSUME Inv, service' \in Services, service'.raised = "none", service'.kind = service.kind,
         service'.cltu_id = service.cltu_id, service'.event_invoc_id = service.event_invoc_id,
         service'.wire = service.wire, service'.forwarded = service.forwarded,
         provider' \in Providers, ~provider'.up, provider'.refused = provider.refused,
         provider'.outOfSequence = provider.outOfSequence, queue' = queue,
         \/ inbound' \in {inbound, <<>>}
         \/ \E x \in Pdus : x.n = 0 /\ ~IsBuffer(x) /\ inbound' = Append(inbound, x),
         calls' \in {calls, calls + 1}, calls' <= MaxCalls, odd' \in 0 .. MaxOdd,
         faults' \in 0 .. MaxFaults, UNCHANGED <<connections, buffers, offered, stale, saved>>
  PROVE  Inv'
<1>1. /\ TypeInv /\ CountInv /\ FrameInv /\ AgreeInv /\ CltuInv
      /\ queue \in Seq(Pdus) /\ inbound \in Seq(Pdus)
  BY DEF Inv, TypeInv
<1>2. calls \in Nat /\ calls' \in 0 .. MaxCalls /\ calls <= calls'
  BY <1>1, BoundsAssumption DEF TypeInv
<1>3. /\ inbound' \in Seq(Pdus) /\ Ahead \in Seq(Pdus)
      /\ Counted(Ahead', calls')
      /\ Framed(Ahead, LastOf(service.forwarded), offered) =>
           Framed(Ahead', LastOf(service.forwarded), offered)
  <2>1. Ahead \in Seq(Pdus) /\ Counted(Ahead, calls')
    <3>1. Ahead \in Seq(Pdus)
      BY <1>1, AheadSeq DEF Ahead
    <3>2. Counted(Ahead, calls) /\ calls' \in Nat
      BY <1>1, <1>2, BoundsAssumption DEF CountInv
    <3>3. QED  BY <1>2, <3>1, <3>2, CountedMore
  <2>2. CASE inbound' = inbound
    BY <1>1, <2>1, <2>2 DEF Ahead
  <2>3. CASE inbound' = <<>>
    <3>1. Segment(Ahead, Ahead', 0) /\ <<>> \in Seq(Pdus)
      BY <1>1, <2>3, QueueSegment DEF Ahead
    <3>2. QED  BY <2>1, <2>3, <3>1, SegmentKeeps
  <2>4. ASSUME NEW x \in Pdus, x.n = 0, ~IsBuffer(x), inbound' = Append(inbound, x)
        PROVE  /\ inbound' \in Seq(Pdus) /\ Counted(Ahead', calls')
               /\ Framed(Ahead, LastOf(service.forwarded), offered) =>
                    Framed(Ahead', LastOf(service.forwarded), offered)
    <3>1. <<x>> \in Seq(Pdus) /\ Len(<<x>>) = 1 /\ <<x>>[1] = x
      OBVIOUS
    <3>2. inbound' = inbound \o <<x>> /\ inbound' \in Seq(Pdus)
      BY <1>1, <2>4, AppendIsConcat
    <3>3. Extended(Ahead, Ahead', <<x>>)
      BY <1>1, <3>1, <3>2, SentExtends DEF Ahead
    <3>4. Counted(<<x>>, calls') /\ \A i \in 1 .. Len(<<x>>) : ~IsBuffer(<<x>>[i])
      <4>1. \A i \in 1 .. 1 : i = 1
        OBVIOUS
      <4>2. QED  BY <1>2, <2>4, <3>1, <4>1 DEF Counted
    <3>5. QED  BY <2>1, <3>1, <3>2, <3>3, <3>4, ExtendKeeps
  <2>5. QED  BY <2>1, <2>2, <2>3, <2>4
<1>4. TypeInv'
  BY <1>1, <1>2, <1>3 DEF TypeInv
<1>5. CountInv'
  <2>1. /\ service.cltu_id \in Nat /\ service.event_invoc_id \in Nat
        /\ service.wire \in Seq(Requests)
    BY <1>1 DEF Services, TypeInv
  <2>2. service'.cltu_id <= calls' /\ service'.event_invoc_id <= calls'
    BY <1>1, <1>2, <2>1 DEF CountInv
  <2>3. ASSUME NEW i \in 1 .. Len(service.wire), service.wire[i].op = "throw"
        PROVE  service.wire[i].n < calls'
    <3>1. service.wire[i].n < calls /\ service.wire[i] \in Requests
      BY <1>1, <2>1, <2>3, ElementOfSeq DEF CountInv
    <3>2. service.wire[i].n \in Nat
      BY <3>1 DEF Requests
    <3>3. QED  BY <1>2, <3>1, <3>2
  <2>4. QED  BY <1>3, <2>2, <2>3 DEF CountInv
<1>6. FrameInv'
  BY <1>1, <1>3 DEF FrameInv
<1>7. AgreeInv'
  BY DEF AgreeInv
<1>8. CltuInv'
  BY <1>1 DEF CltuInv, CltusInSequence
<1>9. QED  BY <1>4, <1>5, <1>6, <1>7, <1>8 DEF Inv

\* The user disconnects.
LEMMA DisconnectStep ==
  ASSUME Inv, Disconnect
  PROVE  Inv' /\ UNCHANGED <<offered, service.forwarded>>
<1>1. /\ TypeInv /\ service \in Services /\ service.raised = "none" /\ provider \in Providers
      /\ service.socket # "none"
  BY DEF Inv, TypeInv, Disconnect
<1> DEFINE t == S!disconnect(service)
<1>2. t = [service EXCEPT !.socket = "closed", !.telem = "closed", !.monitor = 0, !.processor = 0]
  BY <1>1, DisconnectOutcome
<1>3. /\ t \in Services /\ t.kind = service.kind /\ t.cltu_id = service.cltu_id
      /\ t.event_invoc_id = service.event_invoc_id /\ t.wire = service.wire
      /\ t.forwarded = service.forwarded
  <2>1. 0 \in 0 .. 1 /\ "closed" \in Sockets /\ "closed" \in Ends
    BY DEF Sockets, Ends
  <2>. HIDE DEF t
  <2>2. t \in Services
    BY <1>1, <1>2, <2>1 DEF Services
  <2>3. QED  BY <1>1, <1>2, <2>2 DEF Services
<1>4. /\ service' = S!Handled(t)
      /\ calls' = calls + 1 /\ calls' <= MaxCalls /\ odd' \in 0 .. MaxOdd
  BY <1>1, BoundsAssumption DEF Disconnect, Call, TypeInv
<1>5. /\ provider' = Aborted(provider) /\ inbound' = <<>>
      /\ UNCHANGED <<queue, connections, buffers, offered, faults, stale, saved>>
  BY DEF Disconnect, history
<1>. HIDE DEF t
<1>6. /\ service' \in Services /\ service'.raised = "none" /\ service'.kind = t.kind
      /\ service'.cltu_id = t.cltu_id /\ service'.event_invoc_id = t.event_invoc_id
      /\ service'.wire = t.wire /\ service'.forwarded = t.forwarded
  BY <1>3, <1>4, HandledFields
<1>7. /\ provider' \in Providers /\ ~provider'.up /\ provider'.refused = provider.refused
      /\ provider'.outOfSequence = provider.outOfSequence
  BY <1>1, <1>5, ProviderUpdates
<1>8. faults' \in 0 .. MaxFaults
  BY <1>1, <1>5 DEF TypeInv
<1>9. Inv'
  BY <1>3, <1>4, <1>5, <1>6, <1>7, <1>8, DownStep
<1>10. QED  BY <1>3, <1>5, <1>6, <1>9

\* A heartbeat that cannot be sent.
LEMMA HeartbeatStep ==
  ASSUME Inv, Heartbeat
  PROVE  Inv' /\ UNCHANGED <<offered, service.forwarded>>
<1>1. /\ TypeInv /\ service \in Services /\ service.raised = "none" /\ provider \in Providers
      /\ service.socket # "open" /\ ~provider.up
      /\ service' = S!send_heartbeat(service)
      /\ UNCHANGED <<provider, inbound, queue, calls, odd, connections, buffers, offered, faults,
                     stale, saved>>
  BY DEF Inv, TypeInv, Heartbeat, network, counts, history
<1> DEFINE sent == S!send(service, S!Request("heartbeat"))
           v == [sent EXCEPT !.wire = service.wire]
           m == S!Less(sent.monitor)
           w == [sent EXCEPT !.monitor = m]
<1>2. /\ sent \in Services /\ sent.kind = service.kind /\ sent.cltu_id = service.cltu_id
      /\ sent.event_invoc_id = service.event_invoc_id /\ sent.wire = service.wire
      /\ sent.forwarded = service.forwarded
  <2>1. CASE service.socket = "reset"
    <3>1. sent = [service EXCEPT !.socket = "closed"]
      BY <2>1 DEF S!send
    <3>2. sent \in Services
      BY <1>1, <3>1, Updates DEF Sockets
    <3>. HIDE DEF sent
    <3>3. QED  BY <1>1, <3>1, <3>2 DEF Services
  <2>2. CASE service.socket \in {"none", "broken", "closed"}
    <3>1. PICK e \in {"socket.error", "ValueError", "AttributeError"} :
            sent = [service EXCEPT !.raised = e]
      BY <2>2 DEF S!send, S!Raise
    <3>2. e \in Errors
      BY DEF Errors
    <3>. HIDE DEF sent
    <3>3. sent \in Services
      BY <1>1, <3>1, <3>2, Updates
    <3>4. QED  BY <1>1, <3>1, <3>3 DEF Services
  <2>3. QED  BY <1>1, <2>1, <2>2 DEF Services, Sockets
<1>3. service' = IF sent.raised = "none" THEN v ELSE S!Handled(w)
  BY <1>1 DEF S!send_heartbeat, S!NoError
<1>. HIDE DEF sent
<1>4. m \in 0 .. 1
  BY <1>2 DEF Services, S!Less
<1>5. v = sent
  BY <1>2 DEF Services
<1>6. /\ w \in Services /\ w.kind = sent.kind /\ w.cltu_id = sent.cltu_id
      /\ w.event_invoc_id = sent.event_invoc_id /\ w.wire = sent.wire
      /\ w.forwarded = sent.forwarded
  <2>. HIDE DEF m
  <2>1. w \in Services
    BY <1>2, <1>4 DEF Services
  <2>2. QED  BY <1>2, <2>1 DEF Services
<1>. HIDE DEF v, w
<1>7. LET u == S!Handled(w)
      IN  /\ u \in Services /\ u.raised = "none" /\ u.kind = w.kind /\ u.cltu_id = w.cltu_id
          /\ u.event_invoc_id = w.event_invoc_id /\ u.wire = w.wire /\ u.forwarded = w.forwarded
  BY <1>6, HandledFields
<1>8. /\ service' \in Services /\ service'.raised = "none" /\ service'.kind = service.kind
      /\ service'.cltu_id = service.cltu_id /\ service'.event_invoc_id = service.event_invoc_id
      /\ service'.wire = service.wire /\ service'.forwarded = service.forwarded
  BY <1>2, <1>3, <1>5, <1>6, <1>7
<1>9. /\ calls' \in {calls, calls + 1} /\ calls' <= MaxCalls /\ odd' \in 0 .. MaxOdd
      /\ faults' \in 0 .. MaxFaults
  BY <1>1, BoundsAssumption DEF TypeInv
<1>10. Inv'
  BY <1>1, <1>8, <1>9, DownStep
<1>11. QED  BY <1>1, <1>8, <1>10

\* The provider aborts.
LEMMA AbortStep ==
  ASSUME Inv, Abort
  PROVE  Inv' /\ UNCHANGED <<offered, service.forwarded>>
<1>1. /\ TypeInv /\ service \in Services /\ service.raised = "none" /\ provider \in Providers
      /\ provider' = Aborted(provider)
      /\ UNCHANGED <<service, queue, calls, odd, connections, buffers, offered, stale, saved>>
  BY DEF Inv, TypeInv, Abort, counts
<1>2. PICK reason \in {"listed", "otherReason"} : inbound' = Append(inbound, Pdu("PeerAbort", reason))
  BY DEF Abort
<1> DEFINE x == Pdu("PeerAbort", reason)
<1>3. x \in Pdus /\ x.n = 0 /\ ~IsBuffer(x)
  <2>1. "PeerAbort" \in PduTypes \ {"TransferBuffer"} /\ reason \in Results
    BY DEF PduTypes, Results
  <2>2. QED  BY <2>1, PduType
<1>4. /\ provider' \in Providers /\ ~provider'.up /\ provider'.refused = provider.refused
      /\ provider'.outOfSequence = provider.outOfSequence
  BY <1>1, ProviderUpdates
<1>5. /\ calls' \in {calls, calls + 1} /\ calls' <= MaxCalls /\ odd' \in 0 .. MaxOdd
      /\ faults' \in 0 .. MaxFaults
  BY <1>1, BoundsAssumption DEF TypeInv, Abort, Fault
<1>. HIDE DEF x
<1>6. \E y \in Pdus : y.n = 0 /\ ~IsBuffer(y) /\ inbound' = Append(inbound, y)
  BY <1>2, <1>3 DEF x
<1>7. Inv'
  BY <1>1, <1>4, <1>5, <1>6, DownStep
<1>8. QED  BY <1>1, <1>7

\* The connection is lost.
LEMMA LoseStep ==
  ASSUME Inv, Lose
  PROVE  Inv' /\ UNCHANGED <<offered, service.forwarded>>
<1>1. /\ TypeInv /\ service \in Services /\ service.raised = "none" /\ provider \in Providers
      /\ provider' = Aborted(provider)
      /\ UNCHANGED <<queue, calls, odd, connections, buffers, offered, stale, saved>>
  BY DEF Inv, TypeInv, Lose, counts
<1>2. PICK how \in {"reset", "broken"} :
        /\ service' = [service EXCEPT !.socket = how]
        /\ inbound' = IF how = "reset" THEN <<>> ELSE inbound
  BY DEF Lose
<1>3. how \in Sockets
  BY DEF Sockets
<1>4. service' \in Services
  BY <1>1, <1>2, <1>3, Updates
<1>5. /\ service'.raised = "none" /\ service'.kind = service.kind
      /\ service'.cltu_id = service.cltu_id /\ service'.event_invoc_id = service.event_invoc_id
      /\ service'.wire = service.wire /\ service'.forwarded = service.forwarded
  BY <1>1, <1>2 DEF Services
<1>6. /\ provider' \in Providers /\ ~provider'.up /\ provider'.refused = provider.refused
      /\ provider'.outOfSequence = provider.outOfSequence
  BY <1>1, ProviderUpdates
<1>7. /\ calls' \in {calls, calls + 1} /\ calls' <= MaxCalls /\ odd' \in 0 .. MaxOdd
      /\ faults' \in 0 .. MaxFaults
  BY <1>1, BoundsAssumption DEF TypeInv, Lose, Fault
<1>8. Inv'
  BY <1>1, <1>2, <1>4, <1>5, <1>6, <1>7, DownStep
<1>9. QED  BY <1>1, <1>5, <1>8

\* A CLTU saved to a file takes a number that no request will have.
LEMMA SaveStep ==
  ASSUME Inv, SaveToFile
  PROVE  Inv' /\ UNCHANGED <<offered, service.forwarded>>
<1>1. /\ TypeInv /\ CountInv /\ FrameInv /\ AgreeInv /\ CltuInv
      /\ service \in Services /\ service.raised = "none" /\ service.kind = "cltu"
      /\ UNCHANGED <<provider, inbound, queue, connections, buffers, offered, faults, stale>>
      /\ saved' = TRUE
  BY DEF Inv, TypeInv, SaveToFile, IsCltu, network, history
<1> DEFINE n == service.cltu_id + 1
           t == [service EXCEPT !.cltu_id = n]
<1>2. CLTU!save_to_file(service) = t
  BY DEF CLTU!save_to_file, CLTU!prepare_cltu_pdu
<1>3. /\ service' = S!Handled(t)
      /\ calls \in Nat /\ calls' = calls + 1 /\ calls' \in 0 .. MaxCalls /\ odd' \in 0 .. MaxOdd
  BY <1>1, <1>2, BoundsAssumption, SMTT(30) DEF SaveToFile, Call, TypeInv
<1>4. n \in Nat /\ service.cltu_id \in Nat /\ service.event_invoc_id \in Nat
      /\ service.wire \in Seq(Requests)
  BY <1>1 DEF Services
<1>5. t \in Services
  BY <1>1, <1>4, Updates
<1>6. /\ t.kind = service.kind /\ t.cltu_id = n /\ t.event_invoc_id = service.event_invoc_id
      /\ t.wire = service.wire /\ t.forwarded = service.forwarded /\ t.state = service.state
      /\ t.socket = service.socket /\ t.processor = service.processor
  BY <1>1 DEF Services
<1>. HIDE DEF t
<1>7. /\ service' \in Services /\ service'.raised = "none" /\ service'.kind = t.kind
      /\ service'.cltu_id = t.cltu_id /\ service'.event_invoc_id = t.event_invoc_id
      /\ service'.wire = t.wire /\ service'.forwarded = t.forwarded
      /\ service'.state = t.state /\ service'.socket = t.socket
      /\ service'.processor = t.processor
  BY <1>3, <1>5, HandledFields
<1>8. Ahead' = Ahead /\ Ahead \in Seq(Pdus)
  BY <1>1, AheadSeq DEF Ahead, TypeInv
<1>9. TypeInv'
  BY <1>1, <1>3, <1>6, <1>7 DEF TypeInv
<1>10. CountInv'
  <2>1. service'.cltu_id <= calls' /\ service'.event_invoc_id <= calls'
    BY <1>1, <1>3, <1>4, <1>6, <1>7 DEF CountInv
  <2>2. Counted(Ahead', calls')
    BY <1>1, <1>3, <1>8, CountedMore DEF CountInv
  <2>3. ASSUME NEW i \in 1 .. Len(service.wire), service.wire[i].op = "throw"
        PROVE  service.wire[i].n < calls'
    <3>1. service.wire[i].n < calls /\ service.wire[i] \in Requests
      BY <1>1, <1>4, <2>3, ElementOfSeq DEF CountInv
    <3>2. service.wire[i].n \in Nat
      BY <3>1 DEF Requests
    <3>3. QED  BY <1>3, <3>1, <3>2
  <2>4. service'.wire = service.wire
    BY <1>6, <1>7
  <2>5. QED  BY <2>1, <2>2, <2>3, <2>4 DEF CountInv
<1>11. FrameInv'
  BY <1>1, <1>6, <1>7, <1>8 DEF FrameInv
<1>12. AgreeInv'
  BY <1>1, <1>6, <1>7, <1>8 DEF AgreeInv, Aborting, Tells
<1>13. CltuInv'
  BY <1>1, <1>6, <1>7 DEF CltuInv, CltusInSequence
<1>14. QED  BY <1>1, <1>6, <1>7, <1>9, <1>10, <1>11, <1>12, <1>13 DEF Inv

\* The first greenlet reads a PDU.
LEMMA ReadStep ==
  ASSUME Inv, Read
  PROVE  Inv' /\ UNCHANGED <<offered, service.forwarded>>
<1>1. /\ TypeInv /\ CountInv /\ FrameInv /\ AgreeInv /\ CltuInv
      /\ queue \in Seq(Pdus) /\ inbound \in Seq(Pdus) /\ inbound # <<>>
      /\ queue' = Append(queue, Head(inbound)) /\ inbound' = Tail(inbound)
      /\ UNCHANGED <<service, provider, calls, odd, connections, buffers, offered, faults, stale,
                     saved>>
  BY DEF Inv, TypeInv, Read, counts, history
<1>2. Ahead' = Ahead
  BY <1>1, ReadMoves DEF Ahead
<1>3. TypeInv'
  <2>1. queue' \in Seq(Pdus) /\ inbound' \in Seq(Pdus)
    BY <1>1
  <2>2. QED  BY <1>1, <2>1 DEF TypeInv
<1>4. CountInv' /\ FrameInv' /\ AgreeInv' /\ CltuInv'
  BY <1>1, <1>2 DEF CountInv, FrameInv, AgreeInv, Aborting, CltuInv, CltusInSequence
<1>5. QED  BY <1>1, <1>3, <1>4 DEF Inv

\* A relayed frame is followed by later ones.
LEMMA LastOfExtra ==
  ASSUME NEW f \in Seq(Nat), NEW o \in Nat, NEW extra \in Extras(o), NEW g, g = f \o extra,
         LastOf(f) <= o
  PROVE  g \in Seq(Nat) /\ LastOf(g) \in Nat /\ LastOf(g) <= o + 2 /\ LastOf(f) \in Nat
<1>0. LastOf(f) \in Nat
  <2>1. CASE f = <<>>
    BY <2>1 DEF LastOf
  <2>2. CASE f # <<>>
    <3>1. Len(f) \in 1 .. Len(f)
      BY <2>2, EmptySeq
    <3>2. QED  BY <2>2, <3>1, ElementOfSeq DEF LastOf
  <2>3. QED  BY <2>1, <2>2
<1> DEFINE a == o + 1
           b == o + 2
<1>1. a \in Nat /\ b \in Nat /\ a <= b /\ o <= b
  OBVIOUS
<1>2. extra = <<>> \/ extra = <<a>> \/ extra = <<b>> \/ extra = <<a, b>>
  BY DEF Extras
<1>. HIDE DEF a, b
<1>3. /\ <<>> \in Seq(Nat) /\ <<a>> \in Seq(Nat) /\ <<b>> \in Seq(Nat) /\ <<a, b>> \in Seq(Nat)
      /\ Len(<<a>>) = 1 /\ Len(<<b>>) = 1 /\ Len(<<a, b>>) = 2
      /\ <<a>>[1] = a /\ <<b>>[1] = b /\ <<a, b>>[2] = b
  BY <1>1
<1>4. CASE extra = <<>>
  <2>1. g = f
    BY <1>4, ConcatEmptySeq
  <2>2. QED  BY <1>0, <1>1, <2>1 DEF b
<1>5. ASSUME extra # <<>>, NEW m \in 1 .. 2, Len(extra) = m, extra[m] \in {a, b},
             extra \in Seq(Nat)
      PROVE  g \in Seq(Nat) /\ LastOf(g) \in Nat /\ LastOf(g) <= b
  <2>1. Len(f) \in Nat
    OBVIOUS
  <2>2. /\ g \in Seq(Nat) /\ Len(g) = Len(f) + m
        /\ \A i \in 1 .. Len(f) + m : g[i] = IF i <= Len(f) THEN f[i] ELSE extra[i - Len(f)]
    BY <1>5, ConcatProperties
  <2>3. Len(f) + m \in 1 .. Len(f) + m /\ ~(Len(f) + m <= Len(f)) /\ (Len(f) + m) - Len(f) = m
    BY <2>1
  <2>4. g[Len(g)] = extra[m]
    BY <2>2, <2>3
  <2>5. g # <<>>
    BY <2>1, <2>2
  <2>6. LastOf(g) = extra[m]
    BY <2>4, <2>5 DEF LastOf
  <2>7. QED  BY <1>1, <1>5, <2>2, <2>6
<1>6. extra # <<>> => \E m \in 1 .. 2 : Len(extra) = m /\ extra[m] \in {a, b} /\ extra \in Seq(Nat)
  <2>1. 1 \in 1 .. 2 /\ 2 \in 1 .. 2
    OBVIOUS
  <2>2. CASE extra = <<a>> \/ extra = <<b>>
    <3>1. Len(extra) = 1 /\ extra[1] \in {a, b} /\ extra \in Seq(Nat)
      BY <1>3, <2>2
    <3>2. QED  BY <2>1, <3>1
  <2>3. CASE extra = <<a, b>>
    <3>1. Len(extra) = 2 /\ extra[2] \in {a, b} /\ extra \in Seq(Nat)
      BY <1>3, <2>3
    <3>2. QED  BY <2>1, <3>1
  <2>4. QED  BY <1>2, <2>2, <2>3
<1>7. QED  BY <1>0, <1>4, <1>5, <1>6 DEF b

\* The step of the frame port that relays some frames, or none.
Relays ==
  /\ offered' = offered
  /\ \/ service'.forwarded = service.forwarded
     \/ \E f \in LastOf(service.forwarded) + 1 .. offered :
          \/ service'.forwarded = Append(service.forwarded, f)
          \/ \E g \in f + 1 .. offered : service'.forwarded = service.forwarded \o <<f, g>>

\* The second greenlet handles a PDU.
LEMMA ProcessStep ==
  ASSUME Inv, Process
  PROVE  Inv' /\ Relays
<1> DEFINE x == Head(queue)
<1>1. /\ TypeInv /\ CountInv /\ FrameInv /\ AgreeInv /\ CltuInv
      /\ service \in Services /\ service.raised = "none" /\ provider \in Providers
      /\ queue \in Seq(Pdus) /\ inbound \in Seq(Pdus) /\ queue # <<>> /\ queue' = Tail(queue)
      /\ UNCHANGED <<calls, odd, connections, buffers, offered, faults, stale, saved>>
      /\ service' = S!AfterHandler(handle_pdu(service, x))
      /\ inbound' \in {inbound, <<>>}
      /\ \/ provider' = Aborted(provider)
         \/ ~(service'.socket = "closed" /\ service.socket # "closed")
            /\ provider' = provider /\ inbound' = inbound
  BY DEF Inv, TypeInv, Process, counts, history
<1> DEFINE old == queue \o inbound
           new == Tail(queue) \o inbound'
<1>2. /\ Segment(old, new, 1) /\ (inbound' = inbound => Len(old) = Len(new) + 1)
      /\ old[1] = x /\ x \in Pdus /\ Len(old) \in Nat \ {0} /\ old \in Seq(Pdus)
  BY <1>1, TailSegment, AheadSeq
<1>3. Ahead = old /\ Ahead' = new
  BY <1>1 DEF Ahead
<1>4. Effect(service, x, service') /\ service'.raised = "none"
  BY <1>1, <1>2, HandledEffect
<1>. HIDE DEF x
<1>5. /\ x.n \in Nat /\ x.n <= calls /\ calls \in Nat
      /\ service.wire \in Seq(Requests) /\ Len(service.wire) \in Nat
      /\ service.forwarded \in Seq(Nat)
  <2>1. 1 \in 1 .. Len(old)
    BY <1>2
  <2>2. Counted(old, calls)
    BY <1>1, <1>3 DEF CountInv
  <2>3. QED  BY <1>1, <1>2, <2>1, <2>2, BoundsAssumption DEF Counted, TypeInv, Pdus, Services
<1>6. AbortRequest \in Requests /\ AbortRequest.op = "abort"
  BY DEF AbortRequest, Requests, Ops
<1>7. \/ service'.wire = service.wire
      \/ /\ service'.wire = Append(service.wire, AbortRequest)
         /\ Len(service'.wire) = Len(service.wire) + 1
         /\ service'.wire[Len(service.wire) + 1] = AbortRequest
         /\ \A i \in 1 .. Len(service.wire) : service'.wire[i] = service.wire[i]
  <2> DEFINE w == service.wire
             n == Len(w)
             longer == Append(w, AbortRequest)
  <2>1. w \in Seq(Requests) /\ n \in Nat
    BY <1>5
  <2>2. service'.wire = w \/ service'.wire = longer
    BY <1>4 DEF Effect
  <2>3. Len(longer) = n + 1 /\ longer[n + 1] = AbortRequest /\ \A i \in 1 .. n : longer[i] = w[i]
    <3>. HIDE DEF w
    <3>1. QED  BY <1>6, <2>1
  <2>. HIDE DEF w, n, longer
  <2>4. QED  BY <2>2, <2>3 DEF w, n, longer
<1>8. /\ provider' \in Providers /\ (provider'.up => provider' = provider /\ inbound' = inbound)
      /\ provider'.refused = provider.refused
      /\ provider'.outOfSequence = provider.outOfSequence
  <2>1. provider \in Providers
    BY <1>1
  <2>2. provider' = Aborted(provider) \/ (provider' = provider /\ inbound' = inbound)
    BY <1>1
  <2>3. QED  BY ONLY <2>1, <2>2, ProviderUpdates
<1>9. provider'.up => service'.socket = "open" /\ service.socket = "open"
  BY <1>1, <1>4, <1>8, ProviderUpdates DEF TypeInv, Effect
<1>10. TypeInv'
  <2>1. Tail(queue) \in Seq(Pdus) /\ <<>> \in Seq(Pdus)
    BY <1>1
  <2>2. queue' \in Seq(Pdus) /\ inbound' \in Seq(Pdus)
    BY <1>1, <2>1
  <2>3. QED  BY <1>1, <1>4, <1>8, <1>9, <2>2 DEF TypeInv, Effect
<1>11. CountInv'
  <2>1. Counted(Ahead', calls')
    BY <1>1, <1>2, <1>3, SegmentKeeps DEF CountInv
  <2>2. service'.cltu_id <= calls' /\ service'.event_invoc_id <= calls'
    BY <1>1, <1>4, <1>5 DEF CountInv, Effect
  <2>3. ASSUME NEW i \in 1 .. Len(service'.wire), service'.wire[i].op = "throw"
        PROVE  service'.wire[i].n < calls'
    <3>1. i \in 1 .. Len(service.wire) /\ service'.wire[i] = service.wire[i]
      BY <1>5, <1>6, <1>7, <2>3
    <3>2. QED  BY <1>1, <2>3, <3>1 DEF CountInv
  <2>4. QED  BY <2>1, <2>2, <2>3 DEF CountInv
<1>12. FrameInv' /\ Relays
  <2>1. Framed(old, LastOf(service.forwarded), offered)
    BY <1>1, <1>3 DEF FrameInv
  <2>2. CASE service'.forwarded = service.forwarded
    <3>1. Framed(new, LastOf(service.forwarded), offered)
      BY <1>2, <2>1, SegmentKeeps
    <3>2. QED  BY <1>1, <1>3, <2>2, <3>1 DEF FrameInv, Relays
  <2>3. ASSUME IsBuffer(x), NEW extra \in Extras(Base(x)),
               service'.forwarded = service.forwarded \o extra
        PROVE  FrameInv' /\ Relays
    <3> DEFINE o == Base(x)
               f == service.forwarded
               g == service'.forwarded
    <3>1. o \in Nat /\ offered \in Nat
      BY <1>1, <1>2, <2>3, BoundsAssumption DEF Pdus, PduOK, TypeInv
    <3>2. LastOf(f) <= o /\ o + 2 <= offered
      <4>1. 1 \in 1 .. Len(old) /\ IsBuffer(old[1])
        BY <1>2, <2>3
      <4>2. QED  BY <1>2, <2>1, <4>1 DEF Framed
    <3>3. f \in Seq(Nat) /\ g = f \o extra /\ extra \in Extras(o)
      BY <1>5, <2>3
    <3>4. \A i \in 1 .. Len(new) : IsBuffer(new[i]) =>
            o + 2 <= Base(new[i]) /\ Base(new[i]) + 2 <= offered /\ Base(new[i]) \in Nat
      <4>1. TAKE i \in 1 .. Len(new)
      <4>2. i + 1 \in 1 .. Len(old) /\ new[i] = old[i + 1] /\ 1 \in 1 .. Len(old) /\ 1 < i + 1
        BY <1>2 DEF Segment
      <4>3. old[i + 1] \in Pdus
        BY <1>2, <4>2, ElementOfSeq
      <4>4. IsBuffer(new[i]) => o + 2 <= Base(new[i]) /\ Base(new[i]) + 2 <= offered
        BY <1>2, <2>1, <2>3, <4>2 DEF Framed
      <4>5. IsBuffer(new[i]) => Base(new[i]) \in Nat
        BY <4>2, <4>3 DEF Pdus, PduOK
      <4>6. QED  BY <4>4, <4>5
    <3>. HIDE DEF o, f, g
    <3>5. LastOf(g) \in Nat /\ LastOf(g) <= o + 2 /\ LastOf(f) \in Nat
      BY <3>1, <3>2, <3>3, LastOfExtra
    <3>6. Framed(new, LastOf(g), offered)
      <4>1. LastOf(g) <= offered
        BY <3>1, <3>2, <3>5
      <4>2. \A i \in 1 .. Len(new) : IsBuffer(new[i]) =>
              LastOf(g) <= Base(new[i]) /\ Base(new[i]) + 2 <= offered
        <5>1. ASSUME NEW c \in Nat, o + 2 <= c PROVE LastOf(g) <= c
          BY <3>1, <3>5, <5>1
        <5>2. QED  BY <3>4, <5>1
      <4>3. Framed(new, LastOf(f), offered)
        BY <1>2, <2>1, SegmentKeeps DEF f
      <4>4. QED  BY <4>1, <4>2, <4>3 DEF Framed
    <3>7. Relays
      <4> DEFINE a == o + 1
                 b == o + 2
      <4>1. /\ a \in LastOf(f) + 1 .. offered /\ b \in LastOf(f) + 1 .. offered
            /\ b \in a + 1 .. offered
        BY <3>1, <3>2, <3>5
      <4>2. extra = <<>> \/ extra = <<a>> \/ extra = <<b>> \/ extra = <<a, b>>
        BY <3>3 DEF Extras
      <4>. HIDE DEF a, b
      <4>3. a \in Nat /\ b \in Nat
        BY <3>1 DEF a, b
      <4>4. Append(f, a) = f \o <<a>> /\ Append(f, b) = f \o <<b>> /\ f \o <<>> = f
        BY <3>3, <4>3, AppendIsConcat, ConcatEmptySeq
      <4>5. \/ g = f
            \/ \E c \in LastOf(f) + 1 .. offered :
                 \/ g = Append(f, c)
                 \/ \E d \in c + 1 .. offered : g = f \o <<c, d>>
        BY <3>3, <4>1, <4>2, <4>4
      <4>6. QED  BY <1>1, <4>5 DEF Relays, f, g
    <3>8. QED  BY <1>1, <1>3, <3>6, <3>7 DEF FrameInv, g
  <2>4. QED  BY <1>4, <2>2, <2>3 DEF Effect
<1>13. AgreeInv'
  <2>1. ASSUME provider'.up, service'.processor # 0, ~stale, ~Aborting',
               ~\E i \in 1 .. Len(new) : Stranger(new[i])
        PROVE  Tells(new, service', provider')
    <3>1. /\ provider' = provider /\ provider.up /\ inbound' = inbound
          /\ service'.socket = "open" /\ service.processor # 0
      BY <1>1, <1>8, <1>9, <2>1 DEF Process
    <3>2. service'.wire = service.wire /\ ~Aborting
      BY <1>5, <1>6, <1>7, <2>1 DEF Aborting
    <3>3. service'.wire # Append(service.wire, AbortRequest)
      <4>1. Len(Append(service.wire, AbortRequest)) = Len(service.wire) + 1
        BY <1>5, <1>6
      <4>2. QED  BY <1>5, <3>2, <4>1
    <3>4. \/ x.type \in Telling /\ ~Stranger(x) /\ service'.state = Told(x)
          \/ x.type \notin Telling /\ service'.state = service.state
      BY <1>4, <2>1, <3>1, <3>3 DEF Effect
    <3>5. ~\E i \in 1 .. Len(old) : Stranger(old[i])
      <4>1. ~Stranger(x)
        BY <3>4 DEF Stranger, Telling
      <4>2. \A i \in 1 .. Len(old) : i = 1 \/ (i - 1 \in 1 .. Len(new) /\ new[i - 1] = old[i])
        BY <1>2, <3>1 DEF Segment
      <4>3. QED  BY <1>2, <2>1, <4>1, <4>2
    <3>6. Tells(old, service, provider)
      BY <1>1, <1>3, <2>1, <3>1, <3>2, <3>5 DEF AgreeInv
    <3>7. service'.state = IF old[1].type \in Telling THEN Told(old[1]) ELSE service.state
      BY <1>2, <3>4
    <3>. HIDE DEF old, new
    <3>8. Tells(new, service', provider)
      BY <1>2, <3>1, <3>6, <3>7, TailTells
    <3>9. QED  BY <3>1, <3>8
  <2>2. QED  BY <1>1, <1>3, <2>1 DEF AgreeInv
<1>14. CltuInv'
  <2>1. CltusInSequence' /\ (service'.kind # "cltu" => service'.cltu_id = 0)
    BY <1>1, <1>4, <1>8 DEF CltuInv, CltusInSequence, Effect
  <2>2. ASSUME provider'.up, ~saved' PROVE Numbered(service', provider')
    <3>1. Numbered(service, provider) /\ provider' = provider /\ service'.cltu_id = service.cltu_id
          /\ service' \in Services
      BY <1>1, <1>4, <1>8, <2>2 DEF CltuInv, Effect
    <3>2. CASE service'.wire = service.wire
      BY <3>1, <3>2 DEF Numbered
    <3>3. CASE service'.wire = Append(service.wire, AbortRequest)
      <4>1. Numbered(service', provider)
        BY <1>1, <1>6, <3>1, <3>3, NumberedAppend
      <4>2. QED  BY <3>1, <4>1
    <3>4. QED  BY <1>7, <3>2, <3>3
  <2>3. QED  BY <2>1, <2>2 DEF CltuInv
<1>15. QED  BY <1>10, <1>11, <1>12, <1>13, <1>14 DEF Inv

\* The provider answers a request.
LEMMA ReplyStep ==
  ASSUME Inv, Reply
  PROVE  Inv' /\ UNCHANGED <<offered, service.forwarded>>
<1> DEFINE r == Head(service.wire)
<1>1. /\ TypeInv /\ CountInv /\ FrameInv /\ AgreeInv /\ CltuInv
      /\ service \in Services /\ service.raised = "none" /\ provider \in Providers
      /\ queue \in Seq(Pdus) /\ inbound \in Seq(Pdus)
      /\ provider.up /\ service.wire # <<>>
      /\ service' = [service EXCEPT !.wire = Tail(service.wire)]
      /\ UNCHANGED <<queue, calls, odd, connections, buffers, offered, faults, stale, saved>>
  BY DEF Inv, TypeInv, Reply, counts, history
<1>2. PICK a \in Answers(provider, r, Locks) :
        provider' = a.provider /\ inbound' = inbound \o a.pdus
  BY DEF Reply
<1>3. /\ service.wire \in Seq(Requests) /\ r \in Requests /\ r = service.wire[1]
      /\ Tail(service.wire) \in Seq(Requests) /\ Len(service.wire) \in Nat \ {0}
      /\ Len(Tail(service.wire)) = Len(service.wire) - 1
      /\ \A i \in 1 .. Len(Tail(service.wire)) : Tail(service.wire)[i] = service.wire[i + 1]
  <2>1. service.wire \in Seq(Requests)
    BY <1>1 DEF Services
  <2>2. QED  BY <1>1, <2>1
<1>4. Answered(provider, r, a)
  BY <1>1, <1>2, <1>3, AnswersOutcome
<1>5. /\ service' \in Services /\ service'.wire = Tail(service.wire)
      /\ service'.raised = "none" /\ service'.kind = service.kind
      /\ service'.cltu_id = service.cltu_id /\ service'.event_invoc_id = service.event_invoc_id
      /\ service'.forwarded = service.forwarded /\ service'.state = service.state
      /\ service'.socket = service.socket /\ service'.processor = service.processor
  <2>1. service' \in Services
    BY <1>1, <1>3, Updates
  <2>2. QED  BY <1>1, <2>1 DEF Services
<1> DEFINE extra == a.pdus
           old == Ahead
           new == Ahead'
<1>6. /\ extra \in Seq(Pdus) /\ old \in Seq(Pdus) /\ inbound' \in Seq(Pdus)
      /\ Extended(old, new, extra)
  <2>1. extra \in Seq(Pdus)
    BY <1>4 DEF Answered
  <2>2. inbound' = inbound \o extra /\ inbound \o extra \in Seq(Pdus)
    BY <1>1, <1>2, <2>1, ConcatProperties
  <2>3. QED  BY <1>1, <2>1, <2>2, SentExtends, AheadSeq DEF Ahead
<1>7. provider' \in Providers /\ Expects(provider, r, provider')
  BY <1>2, <1>4 DEF Answered
<1>. HIDE DEF r, old, new, extra
<1>8. calls \in Nat /\ r.n \in Nat
  <2>1. calls \in Nat
    BY <1>1, BoundsAssumption DEF TypeInv
  <2>2. r.n \in Nat
    BY <1>3 DEF Requests
  <2>3. QED  BY <2>1, <2>2
<1>9. TypeInv'
  BY <1>1, <1>5, <1>6, <1>7 DEF TypeInv
<1>10. CountInv'
  <2>1. \A i \in 1 .. Len(extra) :
          extra[i].n = 0 \/ (r.op = "throw" /\ extra[i].n = r.n + 1)
    BY <1>4 DEF Answered, extra
  <2>2. r.op = "throw" => r.n < calls
    <3>1. 1 \in 1 .. Len(service.wire)
      BY <1>3
    <3>2. QED  BY <1>1, <1>3, <3>1 DEF CountInv
  <2>3. Counted(extra, calls)
    BY <1>8, <2>1, <2>2 DEF Counted
  <2>4. Counted(old, calls)
    BY <1>1 DEF CountInv, old
  <2>5. Counted(new, calls)
    BY <1>6, <2>3, <2>4, ExtendKeeps
  <2>6. ASSUME NEW i \in 1 .. Len(service'.wire), service'.wire[i].op = "throw"
        PROVE  service'.wire[i].n < calls'
    <3>1. i + 1 \in 1 .. Len(service.wire) /\ service'.wire[i] = service.wire[i + 1]
      BY <1>3, <1>5
    <3>2. QED  BY <1>1, <2>6, <3>1 DEF CountInv
  <2>7. QED  BY <1>1, <1>5, <2>5, <2>6 DEF CountInv, new
<1>11. FrameInv'
  <2>1. \A i \in 1 .. Len(extra) : ~IsBuffer(extra[i])
    BY <1>4 DEF Answered, extra
  <2>2. Framed(old, LastOf(service.forwarded), offered)
    BY <1>1 DEF FrameInv, old
  <2>3. Framed(new, LastOf(service.forwarded), offered)
    BY <1>6, <2>1, <2>2, ExtendKeeps
  <2>4. QED  BY <1>1, <1>5, <2>3 DEF FrameInv, new
<1>12. AgreeInv'
  <2>1. ASSUME provider'.up, service.processor # 0, ~stale, ~Aborting',
               ~\E i \in 1 .. Len(new) : Stranger(new[i])
        PROVE  Tells(new, service', provider')
    <3>1. r.op # "abort"
      BY <1>2, <1>4, <2>1 DEF Answered
    <3>2. ~Aborting
      <4>1. \A i \in 1 .. Len(service.wire) :
              i = 1 \/ (i - 1 \in 1 .. Len(service'.wire) /\ service'.wire[i - 1] = service.wire[i])
        BY <1>3, <1>5
      <4>2. QED  BY <1>3, <2>1, <3>1, <4>1 DEF Aborting
    <3>3. ~\E i \in 1 .. Len(old) : Stranger(old[i])
      <4>1. \A i \in 1 .. Len(old) : i \in 1 .. Len(new) /\ new[i] = old[i]
        BY <1>6 DEF Extended
      <4>2. QED  BY <2>1, <4>1
    <3>4. Tells(old, service, provider)
      BY <1>1, <2>1, <3>2, <3>3 DEF AgreeInv, old
    <3>5. CASE (\A i \in 1 .. Len(extra) : extra[i].type \notin Telling) /\ provider'.state = provider.state
      BY <1>5, <1>6, <3>4, <3>5, SilentTells
    <3>6. ASSUME NEW y \in Pdus, extra = <<y>>, y.type \in Telling,
                 Stranger(y) \/ Told(y) = provider'.state
          PROVE  Tells(new, service', provider')
      <4>1. ~Stranger(y)
        <5>1. Len(old) + 1 \in 1 .. Len(new) /\ new[Len(old) + 1] = y
          <6>1. Len(<<y>>) = 1 /\ <<y>>[1] = y /\ Len(old) \in Nat /\ 1 \in 1 .. Len(<<y>>)
            BY <1>6
          <6>2. QED  BY <1>6, <3>6, <6>1 DEF Extended
        <5>2. QED  BY <2>1, <5>1
      <4>2. QED  BY <1>6, <3>6, <4>1, ToldTells
    <3>7. QED  BY <1>2, <1>4, <2>1, <3>5, <3>6 DEF Answered, extra
  <2>2. QED  BY <1>1, <1>5, <2>1 DEF AgreeInv, new
<1>13. CltuInv'
  <2>1. service'.kind # "cltu" => service'.cltu_id = 0
    BY <1>1, <1>5 DEF CltuInv
  <2>2. CASE saved
    BY <1>1, <2>1, <2>2 DEF CltuInv, CltusInSequence
  <2>3. CASE ~saved
    <3>1. Numbered(service, provider)
      BY <1>1, <2>3 DEF CltuInv
    <3>2. /\ Numbered(service', provider')
          /\ provider'.outOfSequence => provider.outOfSequence \/ provider'.refused
      BY <1>1, <1>5, <1>7, <3>1, NumberedTail DEF r
    <3>3. provider.outOfSequence => provider.refused
      BY <1>1, <2>3 DEF CltuInv, CltusInSequence
    <3>4. provider.outOfSequence /\ provider'.outOfSequence => provider'.refused
      <4>1. CASE r.op = "start"
        BY <1>7, <4>1 DEF Expects
      <4>2. CASE r.op = "transfer"
        BY <1>7, <3>3, <4>2 DEF Expects
      <4>3. CASE r.op \notin {"start", "transfer"}
        BY <1>7, <3>3, <4>3 DEF Expects
      <4>4. QED  BY <4>1, <4>2, <4>3
    <3>5. QED  BY <1>1, <2>1, <2>3, <3>2, <3>4 DEF CltuInv, CltusInSequence
  <2>4. QED  BY <1>1, <2>2, <2>3 DEF TypeInv
<1>14. QED  BY <1>1, <1>5, <1>9, <1>10, <1>11, <1>12, <1>13 DEF Inv

\* The provider sends the next two frames.
LEMMA SendBufferStep ==
  ASSUME Inv, SendBuffer
  PROVE  Inv' /\ offered' = offered + 2 /\ service'.forwarded = service.forwarded
<1>1. /\ TypeInv /\ CountInv /\ FrameInv /\ AgreeInv /\ CltuInv
      /\ service \in Services /\ service.raised = "none" /\ provider \in Providers
      /\ queue \in Seq(Pdus) /\ inbound \in Seq(Pdus)
      /\ offered \in Nat /\ calls \in Nat
      /\ buffers' = buffers + 1 /\ buffers' \in 0 .. MaxBuffers /\ offered = 2 * buffers
      /\ faults' \in 0 .. MaxFaults
      /\ UNCHANGED <<service, provider, queue, calls, odd, connections, stale, saved>>
  BY BoundsAssumption DEF Inv, TypeInv, SendBuffer, counts
<1>2. PICK items \in Buffers :
        /\ inbound' = Append(inbound, [Pdu("TransferBuffer", "frames") EXCEPT !.items = items])
        /\ offered' = offered + FramesIn(items)
  BY DEF SendBuffer
<1>3. Buffers = BuffersAfter(offered)
  <2>1. offered + 0 = offered
    BY <1>1
  <2>2. QED  BY <2>1 DEF Buffers, BuffersAfter
<1>4. FramesIn(items) = 2
  <2>1. Cardinality(1 .. 2) = 2 /\ Cardinality(2 .. 3) = 2
    <3>1. \A a, b \in Int : Cardinality(a .. b) = IF a > b THEN 0 ELSE b - a + 1
      BY FS_Interval
    <3>2. 1 \in Int /\ 2 \in Int /\ 3 \in Int
      OBVIOUS
    <3>3. /\ Cardinality(1 .. 2) = IF 1 > 2 THEN 0 ELSE 2 - 1 + 1
          /\ Cardinality(2 .. 3) = IF 2 > 3 THEN 0 ELSE 3 - 2 + 1
      BY <3>1, <3>2, Zenon
    <3>4. ~(1 > 2) /\ ~(2 > 3) /\ 2 - 1 + 1 = 2 /\ 3 - 2 + 1 = 2
      OBVIOUS
    <3>5. QED  BY <3>3, <3>4
  <2>2. \/ Len(items) = 2 /\ items[1].of \notin S!Notifications /\ items[2].of \notin S!Notifications
        \/ Len(items) = 3 /\ items[1].of \in S!Notifications /\ items[2].of \notin S!Notifications /\ items[3].of \notin S!Notifications
    <3>1. Len(items) \in {2, 3}
      BY <1>1, <1>3, BufferShape, Zenon
    <3>2. CASE Len(items) = 2
      <4>1. /\ items[1] = [of |-> "frame", n |-> offered + 1]
            /\ items[2] = [of |-> "idle", n |-> offered + 2]
        BY <1>1, <1>3, <3>2, BufferShape, Zenon
      <4>2. QED  BY <3>2, <4>1 DEF S!Notifications
    <3>3. CASE Len(items) = 3
      <4>1. /\ items[1].of \in S!Notifications
            /\ items[2] = [of |-> "empty", n |-> offered + 1]
            /\ items[3] = [of |-> "frame", n |-> offered + 2]
        BY <1>1, <1>3, <3>3, BufferShape, Zenon
      <4>2. QED  BY <3>3, <4>1 DEF S!Notifications
    <3>4. QED  BY <3>1, <3>2, <3>3
  <2>3. \/ {i \in 1 .. Len(items) : items[i].of \notin S!Notifications} = 1 .. 2
        \/ {i \in 1 .. Len(items) : items[i].of \notin S!Notifications} = 2 .. 3
    <3>1. CASE Len(items) = 2 /\ \A i \in 1 .. 2 : items[i].of \notin S!Notifications
      <4>1. \A i \in 1 .. 2 : i = 1 \/ i = 2
        OBVIOUS
      <4>2. QED  BY <3>1, <4>1
    <3>2. CASE Len(items) = 3 /\ items[1].of \in S!Notifications /\ items[2].of \notin S!Notifications /\ items[3].of \notin S!Notifications
      <4>1. (\A i \in 1 .. 3 : i = 1 \/ i \in 2 .. 3) /\ (\A i \in 2 .. 3 : i \in 1 .. 3 /\ (i = 2 \/ i = 3))
            /\ 1 \notin 2 .. 3
        OBVIOUS
      <4>2. QED  BY <3>2, <4>1
    <3>3. QED  BY <2>2, <3>1, <3>2
  <2>4. QED  BY <2>1, <2>3 DEF FramesIn
<1> DEFINE x == [Pdu("TransferBuffer", "frames") EXCEPT !.items = items]
<1>5. x = [type |-> "TransferBuffer", result |-> "frames", n |-> 0, items |-> items]
  BY DEF Pdu
<1>. HIDE DEF x
<1>6. x.type = "TransferBuffer" /\ x.n = 0 /\ x.items = items /\ IsBuffer(x) /\ Base(x) = offered
  <2>1. x.type = "TransferBuffer" /\ x.n = 0 /\ x.items = items
    BY <1>5
  <2>2. \/ Len(items) = 2 /\ items[1].n = offered + 1
        \/ Len(items) = 3 /\ items[1].n = offered
    BY <1>3 DEF BuffersAfter
  <2>3. IsBuffer(x)
    BY <2>1 DEF IsBuffer
  <2>. HIDE DEF x
  <2>4. Base(x) = IF Len(items) = 2 THEN items[1].n - 1 ELSE items[1].n
    BY <2>1 DEF Base
  <2>5. (offered + 1) - 1 = offered
    BY <1>1
  <2>6. Base(x) = offered
    BY <2>2, <2>4, <2>5
  <2>7. QED  BY <2>1, <2>3, <2>6
<1>7. x \in Pdus
  <2>1. items \in Items /\ "TransferBuffer" \in PduTypes /\ "frames" \in Results
    BY <1>1, <1>3 DEF Items, PduTypes, Results
  <2>2. x \in [type : PduTypes, result : Results, n : Nat, items : Items]
    BY <1>5, <2>1
  <2>3. PduOK(x)
    BY <1>1, <1>3, <1>6 DEF PduOK
  <2>4. QED  BY <2>2, <2>3 DEF Pdus
<1>8. <<x>> \in Seq(Pdus) /\ Len(<<x>>) = 1 /\ <<x>>[1] = x /\ \A i \in 1 .. 1 : i = 1
  BY <1>7
<1>9. inbound' = inbound \o <<x>> /\ inbound' \in Seq(Pdus)
  <2>1. inbound' = Append(inbound, x)
    BY <1>2 DEF x
  <2>2. QED  BY <1>1, <1>7, <2>1, AppendIsConcat
<1> DEFINE old == Ahead
           new == Ahead'
           extra == <<x>>
<1>10. old \in Seq(Pdus) /\ extra \in Seq(Pdus) /\ Extended(old, new, extra)
  BY <1>1, <1>8, <1>9, SentExtends, AheadSeq DEF Ahead
<1>11. /\ Len(extra) = 1 /\ extra[1] = x
       /\ \A i \in 1 .. Len(extra) : extra[i].type \notin Telling /\ extra[i].n = 0
  BY <1>6, <1>8 DEF Telling
<1>. HIDE DEF old, new
<1>12. offered' = offered + 2 /\ buffers \in Nat
  BY <1>1, <1>2, <1>4, BoundsAssumption DEF TypeInv
<1>13. TypeInv'
  <2>1. offered' = 2 * buffers'
    BY <1>1, <1>12
  <2>2. QED  BY <1>1, <1>9, <2>1 DEF TypeInv
<1>14. FrameInv'
  <2>1. Framed(old, LastOf(service.forwarded), offered)
    BY <1>1 DEF FrameInv, old
  <2>2. LastOf(service.forwarded) \in Nat
    <3>1. service.forwarded \in Seq(Nat)
      BY <1>1 DEF Services
    <3>2. CASE service.forwarded = <<>>
      BY <3>2 DEF LastOf
    <3>3. CASE service.forwarded # <<>>
      <4>1. Len(service.forwarded) \in 1 .. Len(service.forwarded)
        BY <3>1, <3>3, EmptySeq
      <4>2. QED  BY <3>1, <3>3, <4>1, ElementOfSeq DEF LastOf
    <3>4. QED  BY <3>2, <3>3
  <2>3. Framed(new, LastOf(service.forwarded), offered + 2)
    BY <1>1, <1>6, <1>7, <1>10, <2>1, <2>2, ExtendBuffer
  <2>4. QED  BY <1>1, <1>12, <2>3 DEF FrameInv, new
<1>. HIDE DEF extra
<1>15. CountInv'
  <2>1. Counted(extra, calls) /\ Counted(old, calls)
    BY <1>1, <1>11 DEF Counted, CountInv, old
  <2>2. Counted(new, calls)
    BY <1>10, <2>1, ExtendKeeps
  <2>3. QED  BY <1>1, <2>2 DEF CountInv, new
<1>16. AgreeInv'
  <2>1. Tells(old, service, provider) => Tells(new, service, provider)
    BY <1>10, <1>11, SilentTells
  <2>2. (\E i \in 1 .. Len(old) : Stranger(old[i])) => \E i \in 1 .. Len(new) : Stranger(new[i])
    <3>1. \A i \in 1 .. Len(old) : i \in 1 .. Len(new) /\ new[i] = old[i]
      BY <1>10, <1>11 DEF Extended
    <3>2. QED  BY <3>1
  <2>3. QED  BY <1>1, <2>1, <2>2 DEF AgreeInv, Aborting, old, new
<1>17. CltuInv'
  BY <1>1 DEF CltuInv, CltusInSequence
<1>18. QED  BY <1>1, <1>12, <1>13, <1>14, <1>15, <1>16, <1>17 DEF Inv

----------------------------------------------------------------------------
(* The theorems. *)

\* The invariant holds at first.
LEMMA InitInv ==
  ASSUME Init
  PROVE  Inv
<1>1. PICK kind \in Kinds, auth \in AuthLevels, type \in FrameTypes, plugin \in BOOLEAN :
        service = S!NewService(kind, auth, type, plugin)
  BY DEF Init
<1>2. /\ provider = NewProvider /\ inbound = <<>> /\ queue = <<>>
      /\ calls = 0 /\ odd = 0 /\ connections = 0 /\ buffers = 0 /\ offered = 0 /\ faults = 0
      /\ stale = FALSE /\ saved = FALSE
  BY DEF Init
<1>3. /\ "unbound" \in States /\ "none" \in Sockets /\ "open" \in Ends /\ "none" \in Errors
      /\ 0 \in 0 .. 1 /\ <<>> \in Seq(Requests) /\ <<>> \in Seq(Nat) /\ <<>> \in Seq(Pdus)
  BY DEF States, Sockets, Ends, Errors
<1>4. service \in Services /\ service.raised = "none" /\ service.cltu_id = 0
      /\ service.event_invoc_id = 0 /\ service.wire = <<>> /\ service.forwarded = <<>>
  BY <1>1, <1>3 DEF S!NewService, S!NoError, Services
<1>5. provider \in Providers /\ ~provider.up /\ ~provider.outOfSequence
  BY <1>2, <1>3 DEF NewProvider, Providers
<1>6. Ahead = <<>> /\ Len(<<>>) = 0 /\ 1 .. 0 = {}
  <2>1. <<>> \o <<>> = <<>>
    BY ConcatEmptySeq, EmptySeq
  <2>2. QED  BY <1>2, <2>1 DEF Ahead
<1>7. TypeInv
  <2>1. /\ calls \in 0 .. MaxCalls /\ odd \in 0 .. MaxOdd /\ connections \in 0 .. MaxConnections
        /\ buffers \in 0 .. MaxBuffers /\ faults \in 0 .. MaxFaults
    BY <1>2, BoundsAssumption
  <2>2. offered = 2 * buffers
    BY <1>2
  <2>3. queue \in Seq(Pdus) /\ inbound \in Seq(Pdus)
    BY <1>2, <1>3
  <2>4. QED  BY <1>2, <1>4, <1>5, <2>1, <2>2, <2>3 DEF TypeInv
<1>8. CountInv /\ FrameInv
  BY <1>2, <1>4, <1>6 DEF CountInv, FrameInv, Counted, Framed, LastOf
<1>9. AgreeInv /\ CltuInv
  BY <1>4, <1>5 DEF AgreeInv, CltuInv, CltusInSequence
<1>10. QED  BY <1>7, <1>8, <1>9 DEF Inv

\* Every step preserves the invariant, and offers or relays frames as FrameRelay
\* does, or neither.
LEMMA NextInv ==
  ASSUME Inv, [Next]_vars
  PROVE  Inv' /\ [Relay!Next]_(Relay!vars)
<1>1. ASSUME UNCHANGED <<offered, service.forwarded>> PROVE [Relay!Next]_(Relay!vars)
  BY <1>1 DEF Relay!vars
<1>2. CASE Requesting
  <2>1. Inv'
    BY <1>2, RequestStep
  <2>2. Calling /\ Asked(service, service')
    BY <1>2, RequestAsked DEF Inv, TypeInv, CltuInv
  <2>3. UNCHANGED <<offered, service.forwarded>>
    BY <2>2 DEF Calling, Asked, history
  <2>4. QED  BY <1>1, <2>1, <2>3
<1>3. CASE Connect
  BY <1>1, <1>3, ConnectStep
<1>4. CASE Disconnect
  BY <1>1, <1>4, DisconnectStep
<1>5. CASE SaveToFile
  BY <1>1, <1>5, SaveStep
<1>6. CASE Read
  BY <1>1, <1>6, ReadStep
<1>7. CASE Heartbeat
  BY <1>1, <1>7, HeartbeatStep
<1>8. CASE Process
  <2>1. Inv' /\ Relays
    BY <1>8, ProcessStep
  <2>2. LastOf(service.forwarded) = Relay!Last
    BY DEF LastOf, Relay!Last
  <2>3. CASE service'.forwarded = service.forwarded
    BY <1>1, <2>1, <2>3 DEF Relays
  <2>4. CASE service'.forwarded # service.forwarded
    <3>1. Relay!Relay
      BY <2>1, <2>2, <2>4 DEF Relays, Relay!Relay
    <3>2. QED  BY <2>1, <3>1 DEF Relay!Next
  <2>5. QED  BY <2>1, <2>3, <2>4
<1>9. CASE Reply
  BY <1>1, <1>9, ReplyStep
<1>10. CASE SendBuffer
  <2>1. Inv' /\ offered' = offered + 2 /\ service'.forwarded = service.forwarded
    BY <1>10, SendBufferStep
  <2>2. Relay!Offer
    BY <2>1 DEF Relay!Offer
  <2>3. QED  BY <2>1, <2>2 DEF Relay!Next
<1>11. CASE Abort
  BY <1>1, <1>11, AbortStep
<1>12. CASE Lose
  BY <1>1, <1>12, LoseStep
<1>13. CASE UNCHANGED vars
  <2>1. Inv'
    BY <1>13 DEF vars, Inv, TypeInv, CountInv, FrameInv, AgreeInv, CltuInv, CltusInSequence,
       Ahead, Aborting
  <2>2. QED  BY <1>1, <1>13, <2>1 DEF vars
<1>14. QED  BY <1>2, <1>3, <1>4, <1>5, <1>6, <1>7, <1>8, <1>9, <1>10, <1>11, <1>12, <1>13
            DEF Next, User, Requesting

\* The inductive invariant holds throughout.
THEOREM Invariance == Spec => []Inv
<1>1. Init => Inv
  BY InitInv
<1>2. Inv /\ [Next]_vars => Inv'
  BY NextInv
<1>3. QED  BY <1>1, <1>2, PTL DEF Spec

\* Whatever is called, answered, aborted or lost, every variable of a service
\* holds what the code can put there, and no exception stays unhandled.
THEOREM TypeOKHolds == Spec => []TypeOK
<1>1. Inv => TypeOK
  <2>1. SUFFICES ASSUME Inv PROVE TypeOK
    OBVIOUS
  <2>2. TypeInv /\ CountInv
    BY <2>1 DEF Inv
  <2>3. /\ service.kind \in Kinds /\ service.auth_level \in AuthLevels
        /\ service.state \in {"unbound", "ready", "active"}
        /\ service.socket \in {"none", "open", "reset", "broken", "closed"}
        /\ service.telem \in {"open", "closed"}
        /\ service.monitor \in 0 .. 1 /\ service.processor \in 0 .. 1
        /\ service.cltu_id \in Nat /\ service.event_invoc_id \in Nat
    BY <2>2 DEF TypeInv, Services, States, Sockets, Ends
  <2>4. service.cltu_id \in 0 .. MaxCalls /\ service.event_invoc_id \in 0 .. MaxCalls
    BY <2>2, <2>3, BoundsAssumption DEF TypeInv, CountInv
  <2>5. provider.state \in {"unbound", "ready", "active"} /\ provider.up \in BOOLEAN
    BY <2>2 DEF TypeInv, Providers, States
  <2>6. \A pdus \in {inbound, queue} : \A i \in 1 .. Len(pdus) : pdus[i].type \in PduTypes
    BY <2>2, ElementOfSeq DEF TypeInv, Pdus
  <2>7. offered \in 0 .. 2 * MaxBuffers
    BY <2>2, BoundsAssumption DEF TypeInv
  <2>8. QED  BY <2>2, <2>3, <2>4, <2>5, <2>6, <2>7 DEF TypeOK, TypeInv, S!NoError
<1>2. QED  BY <1>1, Invariance, PTL

\* When nothing is on its way between them, service and provider agree on the
\* state of the association, in a connection that began with neither a PDU nor
\* a state of an earlier one, while the greenlet that handles PDUs lives.
THEOREM AgreesWhenQuietHolds == Spec => []AgreesWhenQuiet
<1>1. Inv => AgreesWhenQuiet
  <2>1. SUFFICES ASSUME Inv, Quiet, provider.up, service.socket = "open", service.processor > 0,
                        ~stale
                 PROVE  service.state = provider.state
    BY DEF AgreesWhenQuiet
  <2>2. Ahead = <<>> /\ service.wire = <<>> /\ Len(<<>>) = 0 /\ 1 .. 0 = {}
    <3>1. <<>> \o <<>> = <<>>
      BY ConcatEmptySeq, EmptySeq
    <3>2. QED  BY <2>1, <3>1 DEF Quiet, Ahead
  <2>3. service.processor # 0
    BY <2>1
  <2>4. QED  BY <2>1, <2>2, <2>3 DEF Inv, AgreeInv, Aborting, Tells
<1>2. QED  BY <1>1, Invariance, PTL

\* A CLTU is refused for its number only after one was saved to a file or
\* refused for another reason.
THEOREM CltusInSequenceHolds == Spec => []CltusInSequence
<1>1. Inv => CltusInSequence
  BY DEF Inv, CltuInv
<1>2. QED  BY <1>1, Invariance, PTL

\* A service implements FrameRelay: the frames reach the frame port in the
\* order of the provider's buffers, each at most once.
THEOREM RelaysInOrderHolds == Spec => RelaysInOrder
<1>1. Init => Relay!Init
  BY DEF Init, Relay!Init, S!NewService
<1>2. Inv /\ [Next]_vars => [Relay!Next]_(Relay!vars)
  BY NextInv
<1>3. QED  BY <1>1, <1>2, Invariance, PTL DEF Spec, RelaysInOrder, Relay!Spec
=============================================================================
