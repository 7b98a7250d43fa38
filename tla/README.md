# A TLA+ model of AIT-DSN

AIT-DSN is NASA-AMMOS's Python library for talking to the Deep Space Network: file
transfer (CFDP), the SLE services, and what lies between frames and packets. This
directory holds TLA+ modules translated from that code, TLC configurations that check them
on small instances, and TLAPS proofs. `PROJECT.json` says for every definition which lines
it models, for every property which change of the code would break it, and lists the
hazards the properties are for.

Definitions keep the names of the methods, fields and constants they translate
(`send_file_directive`, `recv_file_size`, `add_packet`); names in CamelCase are ours.

## The system

### Inventory

| Component | State | Operations | Modelled |
|---|---|---|---|
| CFDP sending entity (`cfdp/cfdp.py`, `cfdp/machines/sender1.py`, `machine.py`) | per transaction: a machine with state S1/S2, flags (metadata outgoing, EOF outgoing, EOF sent, suspended, cancelled, ...), the open file and its position; per entity: outgoing queue, socket, greenlets | `connect`, `disconnect`, `put`, `cancel`, `suspend`, `resume`; transaction handler, sending handler | yes, one transaction |
| CFDP receiving entity (`cfdp/cfdp.py`, `receiver1.py`, `timer.py`) | machine, temporary file, received size, inactivity timer; registered machines | reading and routing of PDUs, metadata, file data, EOF, timer, cancel | yes, one transaction |
| PDU encoding and checksum (`cfdp/pdu/*`, `cfdp/util.py`) | none | encode, decode, split a datagram, `calc_checksum` | what a PDU carries, length field, checksum of words |
| MIB (`cfdp/mib.py`) | local and remote settings | get, set, `dump`, `load` | settings as parameters |
| Deframing processor (`proc/deframe_packet_processor.py`) | per APID: last count sent, counts waiting (two lists), packets, pending reset; partials waiting and their history; frame queue | frame arrival, frame and packet handling, reset, cleanup | ordering of one APID; joining on one virtual channel |
| SLE services (`sle/common.py`, `raf.py`, `rcf.py`, `cltu.py`) | association state, sockets, the two greenlets of a connection, next CLTU and event identifiers; the data queue, shared by the class | `connect`, `disconnect`, bind, start, stop, unbind, status reports, upload, throw event, peer abort; a handler for each return, invocation and notification | all operations of one service; contents of reports and credentials are not |
| SLE interface manager (`sle/util/*`) | its own state and a list of commands per service; the server's progress | the REST handlers, `append_cltu_data`, bring-up, upload, tear-down | yes |
| SLE frames (`sle/frames.py`, `sle/tctf.py`) | none | AOS and TM frame decoding, telecommand frame encoding and decoding | AOS to the data field, telecommand frame |
| Plugins (`plugins/*`) | octets left from a frame; frame sequence number | `process` of each | packet extraction, the uplink chain, CLTU upload, frame publication |
| BCH code (`bch/bch.py`) | none | encode a block | yes |
| Encryption (`encrypt/*`), ASN.1 declarations (`sle/pdu/*`), tools and examples (`bin/*`) | connection to a library; none | configure, connect, encrypt; declarations, scripts | no |

### How they interact

* A CFDP entity is a set of greenlets that share memory: the user's calls change the
  machines; the *transaction handler* polls every machine every 0.2 s and lets it queue
  PDUs; the *sending handler* takes them to a UDP socket; a reader and the *receiving
  handler* turn datagrams into events of machines. Two entities meet only through UDP.
* The SLE services get frames from the DSN and send them by UDP to the deframing
  processor's `Frame_Service`, whose greenlet fills a bounded queue; `run` empties it,
  divides frames into packets, joins divided ones, and orders the packets of each APID.
* A service's user calls it from one greenlet; a second reads the socket into the data
  queue and a third handles the PDUs of the queue. Requests check no state: it is the
  provider that refuses or aborts.
* The interface manager drives one service of each kind by REST requests of its clients
  and keeps a state of its own; `sle_interface_mgr_server.py` is such a client, which
  brings the services up, uploads, and tears them down.
* Plugins are called by the message bus, one message at a time: commands go through
  `TCTF_Manager`, `BCHPlugin` and `CreateCLTU`; frames through `AOS_to_CCSDS`.

### What is hard

* **Interleaving.** A cancel or suspend request can come between any two rounds of the
  transaction handler, in any phase, and before or after a fault has been declared.
* **An unreliable network.** UDP loses, duplicates and reorders; class 1 CFDP does not
  repeat anything. Only sizes and a checksum protect the destination file.
* **Partial failure.** The source or temporary file may fail to open, the copy to the
  destination may fail, a greenlet may die of an exception nobody catches.
* **Timeouts.** The inactivity timer races PDUs still on their way.
* **Counters that wrap, restart and arrive out of order** in the deframing processor, and
  its loops, which end only if its two records of what waits agree.
* **Class-level state and states kept twice** in the SLE code: the manager believes what it
  sent, the service what was answered, and any service may take any service's PDUs.
* **A switch of greenlets inside a handler**: between reading the first command and
  deleting it the manager waits for a socket, and commands, faults and other requests come.

### What makes each component correct

* Sender: metadata once and first, file data without gap or overlap, one EOF and last; a
  successful EOF only after the whole file and with its size and checksum; silence while
  suspended; no data after a cancellation; nothing after the end; an end for every put.
* Receiver: the destination is untouched or the whole offered file, as far as sizes and a checksum
  can tell, or after a copy that failed a part of it; success is reported only of a delivered
  file; the size is checked.
* Both: a text file is delivered when nothing fails.
* Packet ordering: packets leave in the order sent; nothing is skipped in the mode without
  gaps; bounded queue otherwise; a reset first sends what waits; handling a packet ends;
  nothing waits for ever; rollover is survived.
* Joining: halves of one packet only; every pair is joined; in whatever order frames come; the
  cleanup's history agrees with what waits. (The code keeps the first two only in part: see
  the exceptions below.)
* SLE service: it and the provider agree on the association once nothing is on its way;
  frames are relayed in order and at most once; every PDU read is handled; an abort ends
  the greenlet; CLTUs are numbered as the provider expects.
* Interface manager: what it believes agrees with the services; no command is lost,
  repeated or overtaken; bringing up and tearing down end.
* Downlink plugin: packets come out whole, in order, and again after a loss.
* Uplink chain: what the spacecraft extracts from a CLTU is the command; every block is a
  codeword.

## The modules

`Machine`  <-  `Sender1`, `Receiver1`  <-  `SendingEntity`, `ReceivingEntity`  <-
`FileTransfer`, which extends the two entities, joins them and refines `FileDelivery`.
`Pdus` is used by all of these. `ModuloList` <- `PacketOrder`. `Partials` stands alone.
`Sle` <- `Raf`, `Rcf`, `Cltu`, all three used by `SleService` and `SleManager`, with the provider
of `SleProvider`; `SleService` refines `FrameRelay`. `AosFrame` <- `AosPackets`. `Tctf` <- `Bch` <-
`Uplink`. The `MC...` modules give constants their values, the `...Proofs` modules hold the
theorems.

### CFDP

* **`Machine`** - `Transaction`/`Machine` of `machine.py`: a record of the fields that
  matter, and `fault_handler`, `cancel`, `suspend`, `abandon`, `shutdown`,
  `finish_transaction` and `notify_partner_of_cancel` as functions from record to record,
  since each runs without a switch of greenlets. A fault handler that is not set does what
  IGNORE does.
* **`Pdus`** - what Metadata, File Data and EOF PDUs carry, `make_fd_pdu`'s segments, the
  receiver's seek-and-write, and `calc_checksum` (addition of words modulo 2^32, `Modulus`).
  Files are sequences of words. The recursion of the checksum is a recursive function.
* **`Sender1`** - `update_state`, one operator per event. One round of the transaction
  handler is `send_file_directive` and then `send_file_data` for every machine.
* **`SendingEntity`** - the entity with one transaction. `outgoing` is the history of the
  queue and `transmitted` how far the sending handler got, so that the properties can speak
  of what was sent. `SendToSocket(accepted)` covers a closed or missing socket, a refused
  datagram, and what is not a PDU (`make_fd_pdu` at the end of a file that was cut short):
  the error message reads `e.message`, which Python 3 lacks, and the greenlet dies.
  `SourceChanges` is another program that rewrites the source between put and reading.
* **`Receiver1`**, **`ReceivingEntity`** - `update_state` of the receiver and the receiving
  handler. `Cut` is what `split_multiple_pdu_byte_array` makes of a datagram when the length
  in the header is decoded wrongly (`DecodedLength`); `Readable` is the decoding of file
  data to text, which fails for octets of 128 and more and makes the reader drop the PDU.
  `CopyToDestination` is `shutil.copy`: when it fails, the destination is as it was, or holds
  any beginning of the file, even none of it.
* **`FileTransfer`** - both joined by `net`, a sequence of datagrams. `Deliver(i, ...)` takes
  any of them (reordering), `Duplicate` copies one, and a lost datagram is one that is never
  delivered. `adverse` is chosen at the beginning: without it the network keeps order,
  delivers, and the files can be opened and copied.
  `Receipt` and `SuccessInv` are its inductive invariant, which the proofs need. The names that
  begin with `Transfer` are the transfer's, `Spec`, `Next` and `TypeOK` the sending entity's.
* **`FileDelivery`** - the promise: nothing, or what passes for the offered file, or what a
  failed delivery left of it. `FileTransfer` says what
  passes (`PassesFor`): each word is the file's at its place or missing, and the checksum is the
  file's. For a file that the checksum tells from these, that is exactly the file, which then
  does not change again.

### Deframing processor

* **`ModuloList`** - the two lists that keep counts in order across the rollover.
* **`PacketOrder`** - `ApidInfo` and the methods of `Processor` that work on it. One packet
  is handled in several steps, one for each turn of the two loops (`PurgeOne`, `EmitOne`),
  because it is a question whether they end. `Die` is the uncaught `TypeError` of
  `get_ready_seq_count`. The spacecraft numbers its packets, may restart its counter, and
  the way down loses, duplicates, and lets packets overtake each other up to `Window`.
  `should_skip_packet` tells some copies from new packets and not others; `repeats` keeps
  which of those came: one taken for a reset, one whose count still waits, or one of a packet
  already sent (the last one, or any when gaps are not allowed).
* **`Partials`** - `PartialsLookup`, `handle_partial_packet`, `handle_aos_frame`, the queue
  that drops its oldest frame when full, and the cleanup. A frame is the piece its first
  header pointer skips and the pieces after that. Frames are laid out by `Send`: a divided
  packet ends in the next frame, unless `Spans` allows it to fill frames in between, and may
  overtake each other up to `Window`. `overtaken` keeps which frames were handled late, and
  after which. The cleanup counts its turns against a history that each turn shortens, as the code does.

### SLE

* **`Sle`** - what the services share: `send` with the errors it swallows and raises,
  `connect`, `disconnect`, the greenlets. A service is a record; an exception that leaves a
  method is kept in its field `raised`, for the caller to look at.
* **`Raf`**, **`Rcf`**, **`Cltu`** - the requests and handlers of each service, with the
  exceptions their handlers raise, and the plugins that replace one of them. Of the notifications
  `sync_notify_handler` reports, a loss of frame synchronisation raises: the handlers of RAF and
  RCF ask for `symbolSynclockStatus`, the declared name is `symbolSyncLockStatus`.
* **`SleProvider`** - the provider, external: drawn from the requests the services send and
  the results their handlers tell apart. It answers in order and aborts what does not fit.
* **`SleService`** - one service of any kind with user, greenlets, provider and a connection
  that may be lost. The user may call anything at any time; `MaxOdd` bounds the calls that a
  careful user would not make. Reconnections meet the queue and the state left behind.
* **`FrameRelay`** - the promise: the frames relayed are some of those offered, in order.
* **`SleManager`** - the manager with its services, their providers, the server
  (`ServerRequest` to `kill_servers`) and an operator. `Begin` is a handler up to the point
  where it waits for a writable socket, `Finish` the rest. `happened` records the failures
  that the properties except, each by its name.

### Plugins, frames and codes

* **`AosFrame`** - where the fields of a frame are, with Python's slices, and what decoding
  yields. An octet is a record of what it belongs to and its place.
* **`AosPackets`** - the plugin, and a spacecraft that lays packets into the zones of its
  channels. The length field read where no header is gives any length of `Garbage`.
* **`Tctf`** - the telecommand frame: `format` pads to a width and never cuts. The CRC
  (`binascii.crc_hqx`, external) goes octet by octet through a table.
* **`Bch`** - the shift register, and independently of it division by the generator.
* **`Uplink`** - the three plugins with their queues, and what a receiver extracts: it uses
  `decode` of the code for the frame and cuts the filler off by the frame's length.

## The runs

| Run | Shows | Distinct states |
|---|---|---|
| `sender` | everything listed for the sender above, on files of 0 to 3 words in segments of 2, all four fault handlers, one rewriting of the file | 33,260 |
| `transfer` | the composition refines `FileDelivery`; success means delivered; text is delivered when nothing fails | 415,180 |
| `transfer_large` | *violated*: a data field of 256 octets or more is cut, and its file never delivered | |
| `packets` | everything listed for packet ordering, with a packet that may come twice, except that the rollover is survived | 291,491 |
| `packets_rollover` | *violated*: the first packet after the rollover ends the processor | |
| `partials` | halves are joined rightly, except as named, over frames in any order with losses | 1,260,977 |
| `service` | everything listed for an SLE service, for each kind, with and without authentication | 698,874 |
| `service_plugin` | *violated*: the plugin uploads nothing while the CLTU service is started | |
| `manager` | everything listed for the interface manager, with its exceptions named | 473,122 |
| `manager_states` | *violated*: with two services the manager's state is wrong for ever though nothing failed | |
| `downlink` | packets stay in step with the frames, and come into step again after a loss | 38,650 |
| `uplink` | commands survive the chain; every block is a codeword | 561 |

Each violated property is an intention quoted in PROJECT.json's findings; the run is the
shortest story in which the code does otherwise. `EventuallyDelivered` holds in `transfer`
and fails in `transfer_large`: what differs is only the size at which the high octet of the
length field comes into play. `AgreesUnlessFailed` (`manager`) and `TracksStates`
(`manager_states`) differ by one exception, a PDU that another service took.

The exceptions of a property are part of what it says. `AgreesWhenQuiet` excepts a
connection that began with a queue or a state left by an earlier one; `EventuallyHandled`
names the PDUs whose handlers raise (`Fatal`), which are the ways in which a service
goes deaf; `CltusInSequence` says that a saved or a refused CLTU is the only way to leave
the sequence; `UploadsInOrder` that two overlapping uploads, or a reset connection, are the
only ways to lose or repeat a command.

Some exceptions are where the code does otherwise than it is meant to, and name just that:

* *Copies of packets.* `should_skip_packet` compares with `<`, so it lets a copy of the last
  packet sent pass: it waits, and is sent again when the next gap is given up
  (`EmittedInOrder` excepts `repeats`). A copy of a packet that waits puts its count into the
  list twice; after the packet is sent a count is left without one, and the processor loops for ever
  (`WaitingHavePackets`, `EventuallyIdle`). With `MaxDuplicates` 1 TLC meets both, and refutes
  each property without its exception.
* *Frames out of order.* The guide says that the lookup will "create whole packets from complementary
  pairs" (`deframer_packet_processor.rst:73`). `get_complement_fields` always goes to the next id: an end
  finds the start that came before it, a start never the end, and if what the third frame after it
  begins with waits, that is joined to it (`IsMistaken`). A packet over three frames is sent on after
  two (`IsCutShort`). `JoinedAreWhole` says that nothing else is joined, `NoPairMissed` that a pair
  is missed for these reasons only (`IsMissed`), or when the cleanup threw the start away.
* *The frame sequence number.* The guide names CCSDS 232.0-B
  (`telecommand_transfer_frames.rst:8`), which counts in the eight bits of the field;
  `TCTF_Manager` counts modulo 255. `CommandsSurvive` holds the numbers against the standard's
  count, and excepts the one number passed over at the wrap (`InSequence`).
* *A copy that fails.* A repeated EOF makes the receiver copy again, over a file already
  delivered; if that copy fails the file is cut short and still called a success
  (`SuccessMeansDelivered`).
* *A loss of frame synchronisation.* Its notification is one of the PDUs that end a service's greenlet
  (`Fatal`).

### Bounds, and why they are enough

* Files of three words in segments of two give an empty file, a file of one short segment,
  one that ends with a segment, and one with a full and a partial segment; more segments
  repeat the same step. One of the files is not text. The checksum tells three of the files from
  themselves with words missing (`ChecksumTells`, which an assumption of `MCFileTransfer` checks): of
  these nothing but the file may be delivered, and a wrong file has a wrong checksum unless
  the code fails to look. A 32-bit sum can of course collide: the fourth, `<<4, 0, 0>>`, ends in zeros,
  which add nothing, and the receiver does accept `<<4, 0>>` for it, when the last segment is lost
  and a duplicate makes up for its size.
* `LengthBase` is how many words the low octet of the length field can count, 64 in the
  code, and `LengthShift` what a unit of the high octet is taken for, 4 in the code. 4 and
  2 keep every segment within the low octet; 3 (`transfer_large`) puts one beyond.
* `MaxQueue` 6 is more than the PDUs of any transaction here, so it never stops one;
  `MaxDuplicates` 1 suffices to make up for one lost segment; `MaxChanges` 1 rewrites the
  file at any moment.
* `packets`: `Modulo` 9 has thirds of 3 counts and a reset window of 2; 8 packets from
  count 0 or 4 cross two thirds and, from 4, the rollover. `Window` 2 is less than a third,
  as `ModuloList` assumes; two losses exceed `max_gap` 2 and fill `max_gap` 3; one restart; one
  packet may come twice, at any time and after any others.
  After a restart packets stay in order: no processor could tell a successor that overtakes
  the reset packet from the successor of the packet before the restart.
* `partials`: `FrameModulo` 8 from count 5 wraps within 5 frames. `Window` 4 lets a frame come
  after the third from its own, which is the one a late start is held against. Five frames
  hold two divided packets, or one over up to five frames. No more than
  `FrameModulo - 3` frames: a half left over by a loss is taken for another's a whole cycle of
  2^24 frames later, unless a cleanup came, and idle data shifts that by two; with a sixth frame
  TLC finds a start joined with the idle data of a frame of the next cycle. (The proofs need just this
  bound.) Two losses, a queue of 2, a history of 2 cleaned by 50 percent.

* `service`: five calls reach an active service with one request in it or beside it, or two
  associations; one call that does not wait or fit, one abort or loss, of the connection or of
  frame synchronisation. Two connections show
  what an earlier one leaves; two buffers of one or two frames, their order.
* `manager`: the CLTU service alone with an operator's request and two commands, the same
  with a fault and no operator, and RAF and CLTU with a fault. Two uploads can
  overlap; two commands can change places.
* `downlink`: a zone of 4 octets with packets of 3 and 6 whose headers take 2: packets and
  headers are cut at every place, a packet spans two or three frames, two fit in one. Four
  configurations use every optional field and a second channel of packets or bits. `Garbage`
  is a short and a long length. Four frames with one loss: one before, the loss, two after.
* `uplink`: `LengthBits` 5 puts the limit of the length field at 32 octets; commands of 1 to
  28 octets end at, before and beyond a code block and the limit, with every option.
  The first numbers 0, 254 and 255 lie on all sides of the wrap.

### Fairness

Only what the scheduling gives: the transaction handler and the sending handler loop for
ever (`gevent.sleep(0.2)` in each), so their steps are weakly fair while enabled; in
`FileTransfer` a delivery over a network that does not fail is weakly fair; in `PacketOrder`
the processor's own steps, the production of packets and their arrival (not their loss).
In `SleService` the two greenlets are weakly fair: both loop with `gevent.sleep(0)`. In
`SleManager` the server's steps are, and the end of each handler that waits for its socket:
an error counts as writable. Providers, networks, users and operators owe nothing, and no
timer or failure is fair. `partials`, `downlink` and `uplink` check safety only.
Deadlock is not checked where a system really stops: the deframer runs, when all frames
were sent or the processor died; the SLE runs, when the bounds on calls are used up or the
server has ended; the plugins, when all frames or commands were given. The CFDP entities
always have a request left to make.

## The proofs

`SendingEntityProofs` proves about `SendingEntity`, for all files, all segment lengths,
checksum moduli, fault handlers and bounds (assumptions: `Files` are sequences of naturals,
the segment length and the modulus are positive, the fault handlers are those of the code):

* `TypeCorrect` - `Spec => []TypeOK`. One lemma per event of the machine, from lemmas on
  `fault_handler` and the other methods.
* `AgreementHolds` - `Spec => []Agreement`, the inductive invariant, checked in `sender`
  too. Wire order is not inductive: whether the next file data fits depends on the
  machine's flags and on the position in the file. `Agreement` says how they agree with the
  queue: `QueueInv` (every PDU is in place; no EOF while in S2), `MachineInv` (which flags
  go together; a file is open only in an undisturbed S2) and `PositionInv` (with the file
  open, the queue reaches just to where it is read next). What is queued after something
  that is not a PDU does not count, since the sending handler dies there (`Clean`).
* `WireOrderHolds`, `EofAfterWholeFileHolds` - `Agreement` restricted to what was sent.
* `SuspendedIsSilentHolds`, `FinishedIsFinalHolds`, `NoDataAfterCancelHolds` - action
  properties, from the same invariant.
* `EofDescribesDataHolds` - `Spec => []EofDescribesData`. While the file is open and nobody
  rewrote it, size and checksum are the file's and the file data queued so far is the file
  up to where it is read next (`DataInv`); a segment is never empty before the end
  (`SegmentFollows`), so the read that fails cannot happen. `FileDataGathered` and `FileDataAdded`
  say what the recursive `FileDataOf` computes: the theorems of induction the library has
  cannot be used (they take an operator), so `NaturalFacts` derives induction over the naturals for
  sets from the well-foundedness of finite subsets, and with it that a
  recursive function exists (`IterationExists`) and is determined (`IterationsAgree`). The
  checksum itself may be any function of the data.

`FileTransferProofs` proves about `FileTransfer`, for every set of files, segment length, modulus,
length field, fault handlers, settings of the receiver and number of duplicates (assumptions:
those of `SendingEntity`, that the length field's constants are positive, and that no file is
taken for its absence):

* `SenderInTransfer` - `TransferSpec => Spec`: the receiver and the network do not disturb
  the sender, so what `SendingEntityProofs` shows is true of the transfer.
* `ReceiptHolds` - the inductive invariant. What is delivered depends on everything before it,
  so it has a part for each place. `SourceInv`: the machine knows size and checksum of the file, and
  what it queued is true of the file (`Truthful`). What is in flight was sent. `ReceiptInv`: the
  temporary file is an excerpt of the source, each word at its place or zero, whichever
  segments arrive, twice, late, or cut (`WriteAtExcerpt`, `CutFacts`), also when a late one
  empties it; and complete data is reported only after an EOF without error was sent.
* `TransferTypeOKHolds` - type correctness, a consequence.
* `DeliversOrNotHolds` - `TransferSpec => DeliversOrNot`, the refinement: a step that copies the
  temporary file is a `Deliver`, one that fails to a `Fail`, which leaves an excerpt of the
  source at most (`CopyToDestination`'s beginnings of what passes for it are excerpts), a put an `Offer`, and
  no other changes either file.
* `SuccessMeansDeliveredHolds` - `SuccessInv` is the invariant: a transaction succeeds by delivering, or
  by the EOF of a cancelled one; since only one kind of EOF is ever sent (`OneEof`), complete
  data with the latter is impossible. A later copy may have failed.
* `ToldFileDelivered` - a source that the checksum tells (`ChecksumTells`) is delivered exactly or not at
  all, unless the last copy failed. `SmallSumsTell`: those are, for every modulus, at least the files without zeros
  whose words add up to less than the modulus (`ExcerptAddsLess`).

`SleManagerProofs` proves about `SleManager`, for every set of services, every number of
uploads, and any bounds on requests, commands and faults (assumption: each setup is a
record of a set of the three services and three naturals):

* `UploadsInOrderHolds` - `Spec => []UploadsInOrder`. The property is not inductive: what is
  deleted after an upload is the first command waiting then, not the one that was sent.
  `UploadInv` says that without an overlap only one client uploads, and what it sends is the
  first that waits. `TypeInv` holds what is needed to know that an exception is raised when
  the socket is neither open nor reset: the fields of a service, the requests
  on the wire, the PDUs in the queue. Lemmas on `send`, `connect`, `disconnect` and the handlers of
  each service, and on the provider's answers, carry the types; one lemma per action
  carries the invariant; most actions are `QuietStep`s, which touch no command.
* `AgreesUnlessFailedHolds` - `Spec => []AgreesUnlessFailed`. Three states of a service move
  apart and together again: the manager's, the service's own and the provider's.
  `Tracked` says how far apart they may be without a failure: the requests on the wire are
  a path (`Asks`) from the provider's state to the manager's, the returns in the data
  queue a path (`Returns`) from the service's state to the provider's, where what other services
  sent moves nothing. The connection is open just while the manager is not DISCONNECTED.
  When wire and queue are empty, both paths are, and the three states are the same. `SlotInv`
  says what each handler is about to send. `LongerPath` and `ShorterPath` are what a send, an
  answer and a handled return do to a path; `AnswersFit` and `GreenletLearns` say that
  providers answer, and services learn, what the path has.
* `TypeOKHolds` - `Spec => []TypeOK`. `ServerCount`: what the server has started and what it
  has still to try are never more than it was given. `DataCount`: what waits, is being
  sent or was sent are commands that arrived.

`SleServiceProofs` proves about `SleService`, for any of the three kinds of service, any
levels of authentication and frame types, and any bounds on calls, connections, buffers and
faults (assumption: the bounds are naturals):

* `Invariance` - an inductive invariant of five parts, from which the rest follows.
  `TypeInv`: the types. `CountInv`: no identifier exceeds the number of calls. `FrameInv`:
  the buffers on their way (the data queue, then what the provider's side still holds) follow each
  other and the last frame relayed. `AgreeInv`: while the connection is up, the last
  return on its way that tells a state tells the provider's, and without one the service is in the
  provider's state already; unless the service aborts, carries something over from an earlier
  connection, or lost its greenlet. `CltuInv`: the requests on the wire are numbered on
  from what the provider expects (`Numbering`), up to the number of the next CLTU.
* `TypeOKHolds`, `AgreesWhenQuietHolds`, `CltusInSequenceHolds` - three consequences.
* `RelaysInOrderHolds` - `Spec => RelaysInOrder`, that the service implements `FrameRelay`:
  a buffer that the provider sends is an `Offer`, one that the greenlet handles a `Relay`
  (or nothing, if it holds no frame that is relayed), and every other step leaves
  offered and relayed frames as they were.

`PartialsProofs` proves about `Partials`, in two parts. For every modulus, history bound,
ratio, queue length, window and number of frames and losses, with packets over any number
of frames (assumption: those of `Partials`, that sizes are positive and bounds naturals):

* `TypeOKHolds`, `HistoryAgreesHolds` - `Spec => []TypeOK`, `Spec => []HistoryAgrees`. Every
  method takes proper states of the processor to proper states (`AddEffect`,
  `RemoveEffect`, `ProperPartial`); the loops over a frame's packets and over the oldest
  entries do so turn by turn (`FrameTurns`, `CleanupEffect`, from `NaturalFacts`).

If there are at most `FrameModulo - 3` frames in a session (`Separate`), and otherwise as before: frames
in any order, lost or dropped, packets over any number of frames:

* `JoinedAreWholeHolds`, `NoPairMissedHolds` - neither is inductive, as neither says what
  waits. `LaidInv`: how the frames sent are laid out, so that the next frame goes on with what
  one breaks off. `SentInv`: queue and transit hold frames as they were sent. `JoinInv` (`Ready`): what waits is the start that a handled frame ended with, or stands
  where what a handled frame began with would (`Explained`); what was completed is whole, or
  one of the two wrong packets the properties name (`Sound`); and the start of a handled
  frame was joined or cleaned away, or waits and the next frame was not handled, or came after
  that (`Paired`).
  `Complements` says in terms of frames what `get_complement_fields` looks for: an end the start
  of the frame before, a start what the third frame after begins with. Counts of frames less
  than a cycle apart differ (`ModEqual`), so an entry tells which frame it is of
  (`EntriesDiffer`).

`PacketOrderProofs` proves about `PacketOrder`, for every modulus, any settings of `max_gap`
and any number of packets, losses, duplicates and restarts (assumption: those of `PacketOrder`
and `ModuloList`):

* `TypeOKHolds`, `QueueBoundedHolds`, `ResetPurgesHolds` - the two lists stay sorted, so that
  `get_next_value` is what comes next and `remove_value` takes away just that (`InsertedSorted`,
  `RemovedHead`). `PhaseInv`: during a purge the next packet is always due (`LinedUp`), so
  the purge ends only with nothing waiting; and when as many packets wait as `max_gap` says, the
  next one is due too, so the loop that sends cannot end before fewer wait.
* `NoGapAllowedHolds` - `Spec => []NoGapAllowed`, if there are fewer packets than counts. `FlowInv`
  (for all parameters): between restarts the counts of the packets follow their
  numbers. `GapInv`: without a reset the last count is that of the last packet sent. What is sent next has
  the next count, and a number less than a cycle away: it is the next packet (`CountTells`).

`PacketSequenceProofs` adds what depends on the order in which packets arrive, if there are no
more packets than counts. Packets may come any number of times:

* `WaitingHavePacketsHolds` - that every count that waits has its packet speaks only of states in
  which every restart was noticed and no copy of a packet that waits came, so it is no
  inductive invariant. `Hopeful` is: a packet was taken for a reset only if it was one, no copy
  was, and no reset has arrived without being taken for one; it holds as long as it can still be true
  later. `WayInv`: packets overtake each other within the window, and after a restart none
  does. `WaitInv`: the packets that wait came after the last reset, so a packet that arrives for
  the first time is of their era and its count does not wait yet (`CountsDiffer`, `NewCount`);
  a copy is let pass only in one of the three ways of `repeats`.
* `InOrderUntilRestart`, `EmittedInOrderHolds` - the order downstream, across rollovers. A
  packet that `should_skip_packet` lets pass when it first comes is later than the last one sent
  (`NotSkippedLater`);
  this is where the window must not exceed `alpha_value`. `OrderInv` for `max_gap # 0`: what
  waits in the alpha list is of one cycle and follows what was sent (`Tidy`); between two packets
  the last count is that of the last packet sent, and the beta list is there from the first high
  count on (`Settled`); while packets are sent the first may be due instead, after a gap was
  given up (`Due`). So `add_value` puts nothing where it does not belong: a low count finds no beta
  list unless a high one was sent, for the packets that wait are less than a third of the modulus
  ahead of it (`LaterToAlpha`). It may still drop high counts that wait when a middle count
  comes, which leaves those that are sent in order. Without gaps the order follows from `GapInv`, up to the first
  restart. With restarts and `max_gap = 0` a straggler from before the restart can be sent late,
  and TLC refutes `EmittedInOrder` with `Window` 3.

Only model-checked:

* liveness (`EventuallyHandled`, `LifecycleEnds`, `EventuallyDelivered`, ...), which needs
  ENABLED;
* `downlink` and `uplink`: recursive operators over octets and bits, so that what a theorem would
  say of frames or codewords is induction over data;
* in `PacketOrder`, `EmittedInOrder` after a restart when gaps are not allowed (`packets` checks
  it with `Window` 2).

## Not modelled, and where the models stop

* Several transactions or entities at once: machines are found by the transaction number
  alone and the queues are attributes of the class; both are listed as hazards.
* Freeze and thaw (nothing calls them), acknowledged mode (not implemented), indications,
  progress reports, logging.
* Files whose length is 1 or 2 modulo 4: `checksum_of_word` raises `IndexError` and `put`
  fails before it registers a transaction. Encoding of ids. Several PDUs in a datagram.
  Metadata with paths so long that its data field needs the high octet; `recvfrom`'s limit
  of 4096 octets, which cuts a datagram as `Cut` does.
* What is left of a cut datagram is parsed as another PDU; it is assumed not to pass for
  one of this transaction. File data is read through a buffer; the rewriting of a file is
  seen at the granularity of segments.
* The receiver's role is never set (`UNDEFINED`), so branches of `machine.py` that ask for
  a receiver are not reachable and not modelled; nor are requests the receiver ignores.
* SLE: invocation identifiers, which nothing compares; the contents of credentials and
  reports; `get_parameter` and its return, which are stubs; a `connect` before the former
  connection was closed, and two at once, which leave a greenlet that nothing ends.
  A return handler with authentication always raises (`check_return_credentials`).
* The contents of `B_PDU` and `VCA_SDU`, which no plugin reads; the operational control field's
  content (`get_operational_control_field_indices` is called by nothing modelled).
* Plugins that only pass on: `TCP.py` is sockets of AIT, `vcid_routing.py` looks a channel up in
  a table read from a file, `EncrypterPlugin.py` calls the encryption library. `encrypt/*` is a
  lifecycle around that library, whose behaviour nothing in the repository defines. The
  examples and scripts call what is modelled; the ASN.1 declarations have no behaviour.
* TM frames, whose packets `frames.py` extracts and the processor hands on as they are;
  several APIDs or virtual channels, which share no state but the history; the composition
  of `Partials` with `PacketOrder`. Settings: the guide names `max_gap`, the code reads
  `gap_max`; the setting is a parameter here.

## Plan

1. Deframing: compose `Partials` and `PacketOrder`; TM frames.
2. CFDP: `PduHeader` (id codec, several PDUs in a datagram, as pure functions against a
   reference) and `CfdpEntity` (several transactions and entities, their routing).

A later run takes the place of a narrower one where both ask about the same code.
