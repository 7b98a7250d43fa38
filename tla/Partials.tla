------------------------------ MODULE Partials ------------------------------
(***************************************************************************)
(* How the deframing processor joins packets that were divided between     *)
(* AOS transfer frames: PartialsLookup, and handle_aos_frame and           *)
(* handle_partial_packet of Processor, for one virtual channel.            *)
(*                                                                         *)
(* A frame carries pieces of packets. Its count, modulo FrameModulo, is    *)
(* all the processor knows of its place; the number it was sent as is kept *)
(* for the properties.                                                     *)
(***************************************************************************)
EXTENDS Integers, Sequences, FiniteSets, SequencesExt

CONSTANTS
  FrameModulo,            \* AOS_FRAMECOUNT_MODULO, 16777216 in the code
  HISTORY_MAX,            \* 1500 in the code
  HISTORY_RATIO_CLEANUP,  \* in percent, 25 in the code
  QueueLength,            \* of the frame queue, 1000 in the code
  FirstCount,             \* the count of the first frame
  Spans,                  \* whether packets may be divided between three frames
  Window,                 \* how many frames may overtake each other on their way
  MaxFrames, MaxLosses

ASSUME PartialsAssumption ==
  /\ FrameModulo \in Nat \ {0} /\ HISTORY_MAX \in Nat \ {0} /\ QueueLength \in Nat \ {0}
  /\ HISTORY_RATIO_CLEANUP \in 0 .. 100
  /\ FirstCount \in Nat
  /\ Spans \in BOOLEAN
  /\ Window \in Nat \ {0} /\ MaxFrames \in Nat /\ MaxLosses \in Nat

VARIABLES
  lookup,       \* PartialsLookup: the partials that wait
  history,      \* the ids and types of the partials in the order they were added
  frame_queue,
  full_packets, \* what was given to handle_full_packet, a sequence of pieces each
  handled,      \* the numbers of the frames handled
  overtaken,    \* of the frames handled, those that a later one was handled before, with it
  cleaned,      \* the pieces that were cleaned away
  sent,         \* the frames the spacecraft sent, in order
  transit,      \* those on their way
  lost

processorVars == <<lookup, history, full_packets, handled, overtaken, cleaned>>
vars == <<processorVars, frame_queue, sent, transit, lost>>

\* A packet is known by the frame it begins in; of those that begin in a frame the last may
\* be divided. Its pieces are its start, what fills a whole frame, and its end. Idle data
\* fills a whole frame, and is skipped by the first header pointer too.
Parts == {"whole", "start", "middle", "end", "idle"}
Piece(packet, part) == [packet |-> packet, part |-> part]

\* A frame's packet zone: the piece the first header pointer skips, if it is not zero, and
\* the pieces after that.
Frame(number, before, after) ==
  [ number |-> number,
    count |-> (number + FirstCount) % FrameModulo,
    before |-> before,
    after |-> after ]

Numbers == 0 .. MaxFrames - 1
Pieces == [packet : Numbers, part : Parts]
Types == {"starts", "ends"}
PartialIds == 0 .. FrameModulo - 1
Entries == [id : PartialIds, type : Types]

Init ==
  /\ lookup = {}
  /\ history = <<>>
  /\ frame_queue = <<>>
  /\ full_packets = <<>>
  /\ handled = {}
  /\ overtaken = {}
  /\ cleaned = {}
  /\ sent = <<>>
  /\ transit = {}
  /\ lost = 0

----------------------------------------------------------------------------
(* PartialsLookup, as a record of the lookup, its history and the packets    *)
(* that were completed. At most one partial waits for an id and type.        *)

\* As it would be if ids were plain integers.
noMod(value) == value

mod(value) == value % FrameModulo

Entry(id, type) == [id |-> id, type |-> type]

Found(state, entry) == {p \in state.lookup : p.entry = entry}

add_partial(state, entry, piece) ==
  [state EXCEPT !.lookup = (@ \ Found(state, entry)) \cup {[entry |-> entry, piece |-> piece]},
                !.history = Append(@, entry)]

\* As it would be without the history.
removeFromLookup(state, entry) == [state EXCEPT !.lookup = @ \ Found(state, entry)]

\* The history without an entry.
Without(entries, entry) ==
  LET kept[n \in 0 .. Len(entries)] ==
        IF n = 0 THEN <<>>
        ELSE IF entries[n] = entry THEN kept[n - 1]
        ELSE Append(kept[n - 1], entries[n])
  IN  kept[Len(entries)]

remove_partial(state, entry) ==
  IF Found(state, entry) = {} THEN state
  ELSE [state EXCEPT !.lookup = @ \ Found(state, entry),
                     !.history = Without(@, entry)]

\* As it would be without the modulus.
complementUnbounded(entry) ==
  Entry(entry.id + 1, IF entry.type = "ends" THEN "starts" ELSE "ends")

\* As it would be if both ways were mistaken.
complementBefore(entry) ==
  Entry(mod(entry.id - 1), IF entry.type = "ends" THEN "starts" ELSE "ends")

\* The method means to go back from one type and forth from the other, but compares the id
\* with the name of a type, so it always goes forth.
get_complement_fields(entry) ==
  Entry(mod(entry.id + 1), IF entry.type = "ends" THEN "starts" ELSE "ends")

handle_full_packet(state, pieces) == [state EXCEPT !.full_packets = Append(@, pieces)]

handle_partial_packet(state, entry, piece) ==
  LET wanted == get_complement_fields(entry)
      found == Found(state, wanted)
  IN  IF found = {} THEN add_partial(state, entry, piece)
      ELSE LET complement == (CHOOSE p \in found : TRUE).piece
           IN  handle_full_packet(remove_partial(state, wanted),
                 IF entry.type = "starts" THEN <<piece, complement>> ELSE <<complement, piece>>)

----------------------------------------------------------------------------
(* The processor. *)

HandlePiece(state, count, piece) ==
  IF piece.part = "start" THEN handle_partial_packet(state, Entry(mod(count + 1), "starts"), piece)
  ELSE handle_full_packet(state, <<piece>>)

\* The first header pointer skips the piece before it,
HandleSkipped(state, frame) ==
  IF frame.before = <<>> THEN state
  ELSE handle_partial_packet(state, Entry(mod(frame.count - 1), "ends"), Head(frame.before))

\* then follow the packets that begin in the frame.
handle_aos_frame(state, frame) ==
  LET after[n \in 0 .. Len(frame.after)] ==
        IF n = 0 THEN HandleSkipped(state, frame)
        ELSE HandlePiece(after[n - 1], frame.count, frame.after[n])
  IN  after[Len(frame.after)]

Processor == [lookup |-> lookup, history |-> history, full_packets |-> full_packets]

Becomes(state) ==
  /\ lookup' = state.lookup
  /\ history' = state.history
  /\ full_packets' = state.full_packets

\* Those a frame is handled after though they were sent after it.
Overtakers(number) == {<<number, later>> : later \in {n \in handled : n > number}}

\* A frame left the queue in run.
HandleFrame ==
  /\ frame_queue # <<>>
  /\ frame_queue' = Tail(frame_queue)
  /\ handled' = handled \cup {Head(frame_queue).number}
  /\ overtaken' = overtaken \cup Overtakers(Head(frame_queue).number)
  /\ Becomes(handle_aos_frame(Processor, Head(frame_queue)))
  /\ UNCHANGED <<cleaned, sent, transit, lost>>

CleanupCount == (HISTORY_MAX * HISTORY_RATIO_CLEANUP) \div 100

\* The turns of the loop are counted against a history that gets shorter with each.
RemoveOldest(state, turn) ==
  IF turn - 1 < Len(state.history) THEN remove_partial(state, Head(state.history)) ELSE state

perform_cleanup(state) ==
  LET after[n \in 0 .. CleanupCount] ==
        IF n = 0 THEN state ELSE RemoveOldest(after[n - 1], n)
  IN  after[CleanupCount]

\* perform_cleanup_check: no frame came for a while. The oldest entries go, if there are many.
Cleanup ==
  /\ frame_queue = <<>>
  /\ Len(history) >= HISTORY_MAX
  /\ LET after == perform_cleanup(Processor)
     IN  /\ Becomes(after)
         /\ cleaned' = cleaned \cup {p.piece : p \in lookup \ after.lookup}
  /\ UNCHANGED <<handled, overtaken, frame_queue, sent, transit, lost>>

\* Frame_Service puts a frame into the queue; a full queue drops its oldest.
Arrive(frame) ==
  /\ transit' = transit \ {frame}
  /\ frame_queue' = Append(IF Len(frame_queue) = QueueLength THEN Tail(frame_queue)
                           ELSE frame_queue, frame)
  /\ UNCHANGED <<processorVars, sent, lost>>

----------------------------------------------------------------------------
(* The spacecraft and the way to the processor. *)

\* The packet that is not complete yet, if any.
Unfinished ==
  IF sent = <<>> THEN {}
  ELSE LET last == Last(sent)
           pieces == last.before \o last.after
       IN  IF pieces # <<>> /\ Last(pieces).part \in {"start", "middle"}
           THEN {Last(pieces).packet} ELSE {}

\* What a frame may begin with, and what may follow.
Befores(number) ==
  IF Unfinished = {} THEN {<<>>, <<Piece(number, "idle")>>}
  ELSE {<<Piece(p, part)>> : p \in Unfinished,
                             part \in IF Spans THEN {"middle", "end"} ELSE {"end"}}

Afters(number, before) ==
  IF before # <<>> /\ Head(before).part \in {"middle", "idle"} THEN {<<>>}
  ELSE {<<Piece(number, "whole")>>, <<Piece(number, "start")>>}

Send ==
  LET number == Len(sent)
  IN  /\ number < MaxFrames
      /\ \A frame \in transit : number < frame.number + Window
      /\ \E before \in Befores(number) : \E after \in Afters(number, before) :
           LET frame == Frame(number, before, after)
           IN  /\ sent' = Append(sent, frame)
               /\ transit' = transit \cup {frame}
      /\ UNCHANGED <<processorVars, frame_queue, lost>>

Lose(frame) ==
  /\ lost < MaxLosses
  /\ lost' = lost + 1
  /\ transit' = transit \ {frame}
  /\ UNCHANGED <<processorVars, frame_queue, sent>>

Next ==
  \/ HandleFrame
  \/ Cleanup
  \/ \E frame \in transit : Arrive(frame)
  \/ Send
  \/ \E frame \in transit : Lose(frame)

Spec == Init /\ [][Next]_vars

----------------------------------------------------------------------------
(* Properties. *)

TypeOK ==
  /\ lookup \in SUBSET [entry : Entries, piece : Pieces]
  /\ history \in Seq(Entries)
  /\ \A i \in DOMAIN full_packets : full_packets[i] \in Seq(Pieces)
  /\ handled \cup {frame.number : frame \in transit} \subseteq Numbers
  /\ overtaken \subseteq handled \X handled
  /\ Len(frame_queue) <= QueueLength
  /\ cleaned \in SUBSET Pieces

BeginsWith(number, piece) ==
  number < Len(sent) /\ sent[number + 1].before = <<piece>>

\* A packet that fits in a frame, or its start and the end that the next frame begins with.
IsWhole(pieces) ==
  \/ Len(pieces) = 1 /\ pieces[1].part = "whole"
  \/ \E packet \in Numbers :
       /\ pieces = <<Piece(packet, "start"), Piece(packet, "end")>>
       /\ BeginsWith(packet + 1, Piece(packet, "end"))

\* Of a packet over three frames or more, the first two pieces.
IsCutShort(pieces) ==
  \E packet \in Numbers :
    /\ pieces = <<Piece(packet, "start"), Piece(packet, "middle")>>
    /\ BeginsWith(packet + 1, Piece(packet, "middle"))

\* A start that arrived late, with what the third frame after its own begins with: it is
\* there that get_complement_fields has it look for its end.
IsMistaken(pieces) ==
  \E packet \in Numbers :
    /\ <<packet, packet + 3>> \in overtaken
    /\ Len(pieces) = 2 /\ pieces[1] = Piece(packet, "start")
    /\ BeginsWith(packet + 3, pieces[2])

\* Packets are joined from the two halves of one packet, whatever frames are missing and in
\* whatever order they came; except that a packet over three frames is cut short, and that a
\* start handled after the third frame from its own takes what that frame begins with.
JoinedAreWhole ==
  \A i \in DOMAIN full_packets :
    IsWhole(full_packets[i]) \/ IsCutShort(full_packets[i]) \/ IsMistaken(full_packets[i])

PiecesIn(numbers) ==
  UNION {ToSet(sent[n + 1].before \o sent[n + 1].after) : n \in numbers}

WasJoined(packet) ==
  \E i \in DOMAIN full_packets :
    /\ full_packets[i] = <<Piece(packet, "start"), Piece(packet, "end")>>
    /\ IsWhole(full_packets[i])

\* Why the halves of a packet miss each other: its start was cleaned away, or came after its
\* end, or was joined to what is not its end; or the packet is over three frames or more.
IsMissed(packet) ==
  \/ Piece(packet, "start") \in cleaned
  \/ <<packet, packet + 1>> \in overtaken
  \/ \E i \in DOMAIN full_packets :
       IsMistaken(full_packets[i]) /\ full_packets[i][1] = Piece(packet, "start")
  \/ Piece(packet, "middle") \in PiecesIn(0 .. Len(sent) - 1)

\* A packet both halves of which were handled was put together, but for these reasons.
NoPairMissed ==
  \A packet \in Numbers :
    {Piece(packet, "start"), Piece(packet, "end")} \subseteq PiecesIn(handled)
      => WasJoined(packet) \/ IsMissed(packet)

\* The history names just what waits, so that the cleanup, which stops at an entry that does
\* not wait, finds the oldest.
HistoryAgrees == ToSet(history) = {p.entry : p \in lookup}
============================================================================
