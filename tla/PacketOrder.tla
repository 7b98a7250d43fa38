----------------------------- MODULE PacketOrder -----------------------------
(***************************************************************************)
(* How the deframing processor puts the packets of one application back in *)
(* order: ApidInfo and the Processor methods that work on it. A packet is  *)
(* known by the number it was sent as; its sequence count is what the      *)
(* processor sees.                                                         *)
(*                                                                         *)
(* The handling of one packet is several steps, one for each turn of the   *)
(* loops in it; no other packet is handled meanwhile. An exception, which  *)
(* nothing between the methods and the main program catches, ends the      *)
(* processor.                                                              *)
(***************************************************************************)
EXTENDS ModuloList

CONSTANTS
  RESET_FUZZY_DELTA,  \* 100 in the code
  Gaps,               \* settings of max_gap
  FirstCounts,        \* sequence counts the reception may begin with
  Window,             \* how many packets may overtake each other on their way
  MaxPackets, MaxLosses, MaxDuplicates, MaxRestarts

ASSUME DeltaAssumption == RESET_FUZZY_DELTA \in 1 .. Modulo
ASSUME PacketBoundsAssumption ==
  /\ Gaps \subseteq Nat /\ FirstCounts \subseteq SeqCounts
  /\ Window \in Nat \ {0} /\ MaxPackets \in Nat \ {0}
  /\ MaxLosses \in Nat /\ MaxDuplicates \in Nat /\ MaxRestarts \in Nat

VARIABLES
  apid_info,   \* the ApidInfo of the application
  max_gap,     \* its setting
  phase,       \* what the processor does: "Idle", "Purging", "Emitting" or "Dead"
  emitted,     \* the packets sent downstream
  resets,      \* the packets taken for a reset of the counter
  counter,     \* of the spacecraft
  produced,    \* number of packets the spacecraft sent
  transit,     \* packets on their way
  copies,      \* those of them that have arrived before
  lost, duplicated,
  restarts,    \* the packets that are the first after a restart
  repeats      \* the ways in which a copy was taken for a new packet

processorVars == <<apid_info, phase, emitted, resets>>
worldVars == <<counter, produced, transit, copies, lost, duplicated, restarts, repeats>>
vars == <<processorVars, max_gap, worldVars>>

RESET_DECISION_VALUE == Modulo - RESET_FUZZY_DELTA

Packet(number, count) == [number |-> number, seqcount |-> count]

Packets == [number : 0 .. MaxPackets - 1, seqcount : SeqCounts]

NewApidInfo ==
  [ has_sent      |-> FALSE,    \* lastSeqCountSent is not None
    lastSeqCountSent |-> 0,
    reset_packet  |-> {},       \* at most one
    seq_counts    |-> EmptyList,
    packet_dict   |-> {} ]      \* at most one packet for a sequence count

Init ==
  /\ apid_info = NewApidInfo
  /\ max_gap \in Gaps
  /\ phase = "Idle"
  /\ emitted = <<>>
  /\ resets = {}
  /\ counter \in FirstCounts
  /\ produced = 0
  /\ transit = {} /\ copies = {}
  /\ lost = 0 /\ duplicated = 0 /\ restarts = {} /\ repeats = {}

----------------------------------------------------------------------------
(* ApidInfo. *)

mod(value) == value % Modulo

\* As it would be without the modulus.
previousInteger(count) == count + Modulo - 1

\* Before `count`, on the cycle of counts.
Previous(count) == mod(count + Modulo - 1)

\* As it would be if packets never were too late.
neverSkip(info, count) == FALSE

should_skip_packet(info, count) ==
  /\ max_gap # 0
  /\ \/ info.lastSeqCountSent < alpha_value /\ count > beta_value
     \/ /\ ~(info.lastSeqCountSent > beta_value /\ count < alpha_value)
        /\ count < info.lastSeqCountSent

\* As it would be if the packet were not kept beside its count.
storeCountOnly(info, packet) ==
  [info EXCEPT !.seq_counts = add_value(@, packet.seqcount)]

store(info, packet) ==
  [info EXCEPT !.seq_counts = add_value(@, packet.seqcount),
               !.packet_dict = {p \in @ : p.seqcount # packet.seqcount} \cup {packet}]

skip_to_next_available(info) ==
  IF HasNext(info.seq_counts)
  THEN [info EXCEPT !.lastSeqCountSent = Previous(get_next_value(info.seq_counts))]
  ELSE info

\* As it would be if it waited for one packet more.
checkGapLate(info) ==
  IF max_gap # 0 /\ get_size(info.seq_counts) > max_gap THEN skip_to_next_available(info)
  ELSE info

\* As it would be if it did not know the mode without gaps.
checkGapAlways(info) ==
  IF get_size(info.seq_counts) >= max_gap THEN skip_to_next_available(info) ELSE info

check_gap(info) ==
  IF max_gap # 0 /\ get_size(info.seq_counts) >= max_gap THEN skip_to_next_available(info)
  ELSE info

\* A count of zero that the rollover does not explain is a reset: the packet is set aside.
IsReset(info, packet) ==
  info.has_sent /\ packet.seqcount = 0 /\ info.lastSeqCountSent < RESET_DECISION_VALUE

add_packet(info, packet) ==
  LET begun == IF info.has_sent THEN info
               ELSE [info EXCEPT !.has_sent = TRUE,
                                 !.lastSeqCountSent = Previous(packet.seqcount)]
  IN  CASE IsReset(info, packet) -> [info EXCEPT !.reset_packet = {packet}]
        [] ~IsReset(info, packet) /\ should_skip_packet(begun, packet.seqcount) -> begun
        [] ~IsReset(info, packet) /\ ~should_skip_packet(begun, packet.seqcount) ->
             check_gap(store(begun, packet))

\* The packet that was set aside joins the others.
clear_reset_state(info) ==
  LET packet == CHOOSE p \in info.reset_packet : TRUE
  IN  [store(info, packet) EXCEPT !.reset_packet = {}]

\* ready_for_emit raises TypeError when packets wait, but none in the alpha list.
Unanswerable(info) == ~HasNext(info.seq_counts) /\ get_size(info.seq_counts) # 0

ready_for_emit(info) ==
  /\ HasNext(info.seq_counts)
  /\ info.lastSeqCountSent = Previous(get_next_value(info.seq_counts))

----------------------------------------------------------------------------
(* The processor. *)

\* As it would be if the count were left in the list and what was sent not remembered.
emitKeepsCount(info) ==
  [info EXCEPT !.packet_dict = {p \in @ : p.seqcount # get_next_value(info.seq_counts)}]

\* As it would be if the count were left in the list.
emitLeavesCount(info) ==
  LET found == {p \in info.packet_dict : p.seqcount = get_next_value(info.seq_counts)}
  IN  IF found = {} THEN info
      ELSE [info EXCEPT !.packet_dict = @ \ found,
                        !.lastSeqCountSent = get_next_value(info.seq_counts)]

\* A count whose packet is gone stays in the list.
EmitNext(info) ==
  LET count == get_next_value(info.seq_counts)
      found == {p \in info.packet_dict : p.seqcount = count}
  IN  IF found = {} THEN info
      ELSE [info EXCEPT !.seq_counts = remove_value(@, count),
                        !.packet_dict = @ \ found,
                        !.lastSeqCountSent = count]

\* The packet EmitNext sends downstream, if any.
NextPackets(info) ==
  LET count == get_next_value(info.seq_counts)
      found == {p \in info.packet_dict : p.seqcount = count}
  IN  IF found = {} THEN <<>> ELSE <<CHOOSE p \in found : TRUE>>

\* handle_full_packet up to its loops.
Receive(packet) ==
  LET added == add_packet(apid_info, packet)
      is_reset == added.reset_packet # {}
  IN  /\ phase = "Idle"
      /\ apid_info' = IF is_reset THEN skip_to_next_available(added) ELSE added
      /\ phase' = IF is_reset THEN "Purging" ELSE "Emitting"
      /\ resets' = IF is_reset THEN resets \cup {packet.number} ELSE resets
      /\ UNCHANGED <<emitted, max_gap>>

\* The sequence counts that wait, in one list or the other.
Waiting == apid_info.seq_counts.alpha \o apid_info.seq_counts.beta

\* should_skip_packet does not know a copy that is taken for a reset, whose count still waits,
\* or that was sent last; when gaps are not allowed it knows none.
Repeated(packet) ==
  IF packet \notin copies THEN {}
  ELSE IF IsReset(apid_info, packet) THEN {"Reset"}
  ELSE IF Contains(Waiting, packet.seqcount) THEN {"Waits"}
  ELSE IF max_gap = 0 \/ packet.seqcount = apid_info.lastSeqCountSent THEN {"Sent"}
  ELSE {}

\* A packet arrives, perhaps not for the last time.
Arrive(packet, again) ==
  /\ again => duplicated < MaxDuplicates
  /\ Receive(packet)
  /\ transit' = IF again THEN transit ELSE transit \ {packet}
  /\ copies' = IF again THEN copies \cup {packet} ELSE copies \ {packet}
  /\ duplicated' = IF again THEN duplicated + 1 ELSE duplicated
  /\ repeats' = repeats \cup Repeated(packet)
  /\ UNCHANGED <<counter, produced, lost, restarts>>

Die ==
  /\ phase \in {"Purging", "Emitting"}
  /\ Unanswerable(apid_info)
  /\ phase' = "Dead"
  /\ UNCHANGED <<apid_info, emitted, resets, max_gap, worldVars>>

\* As it would be if a gap ended the purge.
PurgeUpToGap ==
  /\ phase = "Purging"
  /\ ready_for_emit(apid_info)
  /\ apid_info' = EmitNext(apid_info)
  /\ emitted' = emitted \o NextPackets(apid_info)
  /\ UNCHANGED <<phase, resets, max_gap, worldVars>>

\* A turn of handle_apid_reset's loop, and what follows it.
PurgeOne ==
  /\ phase = "Purging"
  /\ ready_for_emit(apid_info)
  /\ apid_info' = skip_to_next_available(EmitNext(apid_info))
  /\ emitted' = emitted \o NextPackets(apid_info)
  /\ UNCHANGED <<phase, resets, max_gap, worldVars>>

FinishPurge ==
  /\ phase = "Purging"
  /\ ~ready_for_emit(apid_info) /\ ~Unanswerable(apid_info)
  /\ apid_info' = skip_to_next_available(clear_reset_state(apid_info))
  /\ phase' = "Emitting"
  /\ UNCHANGED <<emitted, resets, max_gap, worldVars>>

\* A turn of process_apid_packets' loop, and its end.
EmitOne ==
  /\ phase = "Emitting"
  /\ ready_for_emit(apid_info)
  /\ apid_info' = EmitNext(apid_info)
  /\ emitted' = emitted \o NextPackets(apid_info)
  /\ UNCHANGED <<phase, resets, max_gap, worldVars>>

FinishEmit ==
  /\ phase = "Emitting"
  /\ ~ready_for_emit(apid_info) /\ ~Unanswerable(apid_info)
  /\ phase' = "Idle"
  /\ UNCHANGED <<apid_info, emitted, resets, max_gap, worldVars>>

----------------------------------------------------------------------------
(* The spacecraft and the way to the processor. *)

Produce ==
  /\ produced < MaxPackets
  /\ \A p \in transit : produced < p.number + Window /\ restarts = {}
  /\ produced' = produced + 1
  /\ counter' = mod(counter + 1)
  /\ transit' = transit \cup {Packet(produced, counter)}
  /\ UNCHANGED <<processorVars, max_gap, copies, lost, duplicated, restarts, repeats>>

Lose(packet) ==
  /\ lost < MaxLosses
  /\ lost' = lost + 1
  /\ transit' = transit \ {packet}
  /\ UNCHANGED <<processorVars, max_gap, counter, produced, copies, duplicated, restarts, repeats>>

\* The counter starts anew. A packet that overtakes the first after that is taken for its
\* predecessor's successor, whatever the processor does: from now on none does.
Restart ==
  /\ Cardinality(restarts) < MaxRestarts
  /\ produced \notin restarts
  /\ transit = {}
  /\ restarts' = restarts \cup {produced}
  /\ counter' = 0
  /\ UNCHANGED <<processorVars, max_gap, produced, transit, copies, lost, duplicated, repeats>>

Next ==
  \/ \E packet \in transit, again \in BOOLEAN : Arrive(packet, again)
  \/ Die
  \/ PurgeOne
  \/ FinishPurge
  \/ EmitOne
  \/ FinishEmit
  \/ Produce
  \/ \E packet \in transit \ copies : Lose(packet)
  \/ Restart

Spec == Init /\ [][Next]_vars

\* The processor goes on as long as it can, and what was sent and not lost arrives.
Fairness ==
  /\ WF_vars(Die \/ PurgeOne \/ FinishPurge \/ EmitOne \/ FinishEmit)
  /\ WF_vars(\E packet \in transit : Arrive(packet, FALSE))
  /\ WF_vars(Produce)

FairSpec == Spec /\ Fairness

----------------------------------------------------------------------------
(* Properties. *)

TypeOK ==
  /\ apid_info.has_sent \in BOOLEAN
  /\ apid_info.lastSeqCountSent \in SeqCounts
  /\ apid_info.reset_packet \in SUBSET Packets
  /\ apid_info.seq_counts \in [alpha : Seq(SeqCounts), beta : Seq(SeqCounts), has_beta : BOOLEAN]
  /\ apid_info.packet_dict \in SUBSET Packets
  /\ apid_info.reset_packet # {} => phase \in {"Purging", "Dead"}
  /\ phase \in {"Idle", "Purging", "Emitting", "Dead"}
  /\ emitted \in Seq(Packets)
  /\ transit \in SUBSET Packets /\ copies \in SUBSET transit
  /\ repeats \in SUBSET {"Reset", "Waits", "Sent"}
  /\ resets \cup restarts \subseteq 0 .. MaxPackets

\* Every restart was noticed, and nothing else taken for one, not even a copy.
RestartsNoticed == resets = {n \in restarts : n < produced} /\ "Reset" \notin repeats

\* A packet that came after the reception had begun with a later one: without gaps it is
\* kept, and blocks the others until the next reset.
Straggler(p) == max_gap = 0 /\ emitted # <<>> /\ p.number < emitted[1].number

\* Downstream sees the packets in the order the spacecraft sent them, each at most once, as
\* long as what was taken for a reset is what the spacecraft reset, and no copy was taken for
\* a new packet: a copy of the last packet sent, for one, is sent again. Stragglers excepted.
EmittedInOrder ==
  RestartsNoticed /\ repeats = {} =>
    \A i \in 1 .. Len(emitted), j \in 1 .. Len(emitted) :
      i < j /\ ~Straggler(emitted[j]) => emitted[i].number < emitted[j].number

\* When max_gap is 0 no packet is ever passed over, except at a reset.
NoGapAllowed ==
  max_gap = 0 /\ resets = {} /\ restarts = {} =>
    \A i \in 1 .. Len(emitted) - 1 : emitted[i + 1].number = emitted[i].number + 1

\* When gaps are allowed fewer than max_gap packets wait between two arrivals.
QueueBounded ==
  phase = "Idle" /\ max_gap # 0 => get_size(apid_info.seq_counts) < max_gap

\* Every count that waits has its packet, and waits once: the loops rely on it. Only counts
\* that come again while they wait break this: a copy's, or those of the packets after a
\* restart that was not noticed.
WaitingHavePackets ==
  RestartsNoticed /\ "Waits" \notin repeats =>
    /\ IsInjective(Waiting)
    /\ ToSet(Waiting) \subseteq {p.seqcount : p \in apid_info.packet_dict}

\* The packet of a reset is put in place only after everything that waited has been sent.
ResetPurges == [][phase = "Purging" /\ phase' = "Emitting" => Waiting = <<>>]_vars

\* The handling of a packet comes to an end, as long as no copy comes of a packet that waits,
\* and restarts are noticed: then a count may be left whose packet is gone, and the loops that
\* send what waits go on for ever.
EventuallyIdle ==
  phase # "Idle" ~> phase \in {"Idle", "Dead"} \/ ~RestartsNoticed \/ "Waits" \in repeats

\* A packet whose count no longer waits: the list dropped it.
Forgotten == {p \in apid_info.packet_dict : ~Contains(Waiting, p.seqcount)}

\* A packet that waits is sent downstream in the end. It waits for ever only when a packet
\* was lost on the way, when a late packet was taken for a reset or a copy for a new packet,
\* when a straggler blocks it or the list dropped one, or when the processor died.
NoneWaitsForever ==
  \A n \in 0 .. MaxPackets - 1 :
    (\E p \in apid_info.packet_dict : p.number = n)
      ~> \/ \E i \in 1 .. Len(emitted) : emitted[i].number = n
         \/ lost > 0 \/ resets \ restarts # {} \/ repeats # {}
         \/ (\E p \in apid_info.packet_dict : Straggler(p)) \/ Forgotten # {} \/ phase = "Dead"

\* The intention stated in the documentation: the processor sorts packets across the
\* rollover of the sequence count.
SurvivesRollover == phase # "Dead"
============================================================================
