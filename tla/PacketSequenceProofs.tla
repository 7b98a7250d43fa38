------------------------ MODULE PacketSequenceProofs ------------------------
(***************************************************************************)
(* Proofs about PacketOrder that need the order in which packets arrive:   *)
(* that what waits has its packet, and that what is sent is in order. Both *)
(* hold when there are no more packets than sequence counts, the second    *)
(* only when packets do not overtake each other by more than a third of    *)
(* the modulus; packets may arrive any number of times.                    *)
(***************************************************************************)
EXTENDS PacketOrderProofs

----------------------------------------------------------------------------
(* The way to the processor. *)

\* The packets that have not arrived yet.
Fresh == transit \ copies

\* Nothing was taken for a reset that was none, and no reset can have been overlooked.
Hopeful ==
  /\ resets \subseteq restarts /\ "Reset" \notin repeats
  /\ \A n \in restarts : n \in resets \/ n = produced \/ \E p \in Fresh : p.number = n

\* Packets overtake each other within the window, none after a restart; what has not arrived
\* yet was not taken; a reset's packet is the last that arrived.
WayInv ==
  /\ \A p \in transit : produced <= p.number + Window
  /\ restarts # {} => \A p \in transit : p.number + 1 = produced
  /\ \A n \in resets : n < produced
  /\ \A p \in apid_info.reset_packet : p.seqcount = 0 /\ p.number \in resets
  /\ \A p \in Fresh, q \in Kept : p.number # q.number

\* A number names one packet.
LEMMA NumberTells ==
  ASSUME TypeInv, FlowInv, NEW p \in Known, NEW q \in Known, p.number = q.number
  PROVE  p = q
<1>1. /\ p \in Packets /\ q \in Packets /\ p.number \in Nat
      /\ p.seqcount \in 0 .. Modulo - 1 /\ q.seqcount \in 0 .. Modulo - 1 /\ Modulo \in Nat \ {0}
  BY KnownTyped, Counts DEF SeqCounts
<1>2. SameEra(p.number, q.number) /\ p.number <= q.number
  BY <1>1 DEF SameEra
<1>3. q.seqcount = (p.seqcount + (q.number - p.number)) % Modulo
  BY <1>2 DEF FlowInv, Counted, mod
<1>4. q.seqcount = p.seqcount % Modulo
  <2> DEFINE m == p.number
             s == p.seqcount
  <2>1. q.seqcount = (s + (m - m)) % Modulo /\ m \in Nat /\ s \in 0 .. Modulo - 1
    BY <1>1, <1>3
  <2>. HIDE DEF m, s
  <2>2. QED  BY <2>1 DEF s
<1>5. q.seqcount = p.seqcount
  BY <1>1, <1>4
<1>6. \A r \in Packets : r = [number |-> r.number, seqcount |-> r.seqcount]
  BY DEF Packets
<1>7. QED  BY <1>1, <1>5, <1>6

\* Between restarts, a count names one packet.
LEMMA CountsDiffer ==
  ASSUME TypeInv, FlowInv, MaxPackets <= Modulo, NEW p \in Known, NEW q \in Known,
         SameEra(p.number, q.number), p.number # q.number
  PROVE  p.seqcount # q.seqcount
<1>1. ASSUME NEW m \in 0 .. MaxPackets - 1, NEW n \in 0 .. MaxPackets - 1, m < n,
             NEW s \in 0 .. Modulo - 1, s = (s + (n - m)) % Modulo
      PROVE  FALSE
  <2> DEFINE x == s + (n - m)
  <2>1. x \in Int /\ s \in Int /\ x - s < Modulo /\ s - x < Modulo /\ Modulo \in Nat \ {0}
    BY <1>1, Counts, PacketBoundsAssumption
  <2>2. x % Modulo = s % Modulo
    BY <1>1, Counts
  <2>. HIDE DEF x
  <2>3. x = s
    BY ONLY <2>1, <2>2, ModEqual
  <2>4. QED  BY <1>1, <2>3 DEF x
<1>2. /\ p.number \in 0 .. MaxPackets - 1 /\ q.number \in 0 .. MaxPackets - 1
      /\ p.seqcount \in 0 .. Modulo - 1 /\ q.seqcount \in 0 .. Modulo - 1
  BY KnownTyped DEF Packets, SeqCounts
<1>3. /\ p.number <= q.number => q.seqcount = (p.seqcount + (q.number - p.number)) % Modulo
      /\ q.number <= p.number => p.seqcount = (q.seqcount + (p.number - q.number)) % Modulo
  BY DEF FlowInv, Counted, mod, SameEra
<1>4. QED
  <2>1. CASE p.number < q.number
    BY <1>1, <1>2, <1>3, <2>1
  <2>2. CASE q.number < p.number
    BY <1>1, <1>2, <1>3, <2>2
  <2>3. QED  BY <1>2, <2>1, <2>2

\* What arrives has not arrived before, or it is a copy: then it says whether it was taken.
LEMMA ArriveFresh ==
  ASSUME TypeInv, NEW packet \in transit, NEW again \in BOOLEAN, Arrive(packet, again)
  PROVE  /\ Fresh' \subseteq Fresh \ {packet} /\ transit' \subseteq transit
         /\ UNCHANGED <<produced, restarts>>
         /\ repeats' = repeats \cup Repeated(packet)
         /\ \/ resets' = resets /\ ~IsReset(apid_info, packet)
            \/ resets' = resets \cup {packet.number} /\ IsReset(apid_info, packet)
         /\ IsReset(apid_info, packet) /\ "Reset" \notin repeats' => packet \in Fresh
<1>1. /\ transit' = IF again THEN transit ELSE transit \ {packet}
      /\ copies' = IF again THEN copies \cup {packet} ELSE copies \ {packet}
      /\ UNCHANGED <<produced, restarts>> /\ repeats' = repeats \cup Repeated(packet)
      /\ Receive(packet)
  BY DEF Arrive
<1>2. /\ packet \in Packets /\ ProperInfo(apid_info) /\ apid_info.reset_packet = {}
      /\ max_gap \in Nat
  BY <1>1 DEF TypeInv, Receive
<1>3. \/ resets' = resets /\ ~IsReset(apid_info, packet)
      \/ resets' = resets \cup {packet.number} /\ IsReset(apid_info, packet)
  BY <1>1, <1>2, ReceiveIs
<1>4. IsReset(apid_info, packet) /\ packet \in copies => "Reset" \in Repeated(packet)
  BY DEF Repeated
<1>5. Fresh' \subseteq Fresh \ {packet} /\ transit' \subseteq transit
  BY <1>1 DEF Fresh
<1>6. QED  BY <1>1, <1>3, <1>4, <1>5 DEF Fresh

\* What a reset was overlooked stays overlooked.
LEMMA HopefulBefore ==
  ASSUME TypeInv, PhaseInv, FlowInv, WayInv, [Next]_vars, Hopeful'
  PROVE  Hopeful
<1>1. ASSUME NEW packet \in transit, NEW again \in BOOLEAN, Arrive(packet, again)
      PROVE  Hopeful
  <2>1. /\ resets' = resets \/ (resets' = resets \cup {packet.number} /\ packet \in Fresh)
        /\ Fresh' \subseteq Fresh /\ UNCHANGED <<produced, restarts>>
        /\ repeats \subseteq repeats'
    BY <1>1, ArriveFresh DEF Hopeful
  <2>2. QED  BY <2>1 DEF Hopeful
<1>2. CASE Die \/ PurgeOne \/ FinishPurge \/ EmitOne \/ FinishEmit \/ UNCHANGED vars
  <2>1. UNCHANGED <<resets, restarts, produced, transit, copies, repeats>>
    BY <1>2 DEF Die, PurgeOne, FinishPurge, EmitOne, FinishEmit, vars, processorVars, worldVars
  <2>2. QED  BY <2>1 DEF Hopeful, Fresh
<1>3. CASE Produce
  <2>1. /\ Fresh' \subseteq Fresh \cup {Upcoming} /\ produced' = produced + 1
        /\ UNCHANGED <<restarts, resets, repeats>> /\ restarts \subseteq 0 .. produced
        /\ produced \in Nat /\ Upcoming.number = produced
    BY <1>3, KnownTyped DEF Produce, processorVars, FlowInv, TypeInv, Upcoming, Fresh
  <2>2. ASSUME NEW n \in restarts
        PROVE  n \in resets \/ n = produced \/ \E p \in Fresh : p.number = n
    BY <2>1 DEF Hopeful
  <2>3. QED  BY <2>1, <2>2 DEF Hopeful
<1>4. CASE \E packet \in transit \ copies : Lose(packet)
  <2>1. UNCHANGED <<resets, restarts, produced, repeats>> /\ Fresh' \subseteq Fresh
    BY <1>4 DEF Lose, processorVars, Fresh
  <2>2. QED  BY <2>1 DEF Hopeful
<1>5. CASE Restart
  <2>1. /\ restarts' = restarts \cup {produced} /\ produced' = produced /\ resets' = resets
        /\ Fresh' = Fresh /\ repeats' = repeats
    BY <1>5 DEF Restart, processorVars, Fresh
  <2>2. resets \subseteq restarts
    BY <2>1 DEF Hopeful, WayInv, TypeInv
  <2>3. QED  BY <2>1, <2>2 DEF Hopeful
<1>6. QED  BY <1>1, <1>2, <1>3, <1>4, <1>5 DEF Next

\* Every step keeps the order of the way.
LEMMA NextWay ==
  ASSUME TypeInv, PhaseInv, FlowInv, WayInv, [Next]_vars
  PROVE  WayInv'
<1>1. ASSUME NEW packet \in transit, NEW again \in BOOLEAN, Arrive(packet, again)
      PROVE  WayInv'
  <2>1. /\ transit' \subseteq transit /\ Fresh' \subseteq Fresh \ {packet}
        /\ UNCHANGED <<produced, restarts>>
    BY <1>1, ArriveFresh
  <2>2. packet \in Known /\ packet.number < produced
    BY DEF Known, FlowInv
  <2>3. /\ resets' \subseteq resets \cup {packet.number}
        /\ \A p \in apid_info'.reset_packet : p.seqcount = 0 /\ p.number \in resets'
    <3>1. /\ packet \in Packets /\ Receive(packet) /\ apid_info.reset_packet = {}
          /\ ProperInfo(apid_info) /\ max_gap \in Nat
      BY <1>1 DEF TypeInv, Arrive, Receive
    <3>2. Begun(apid_info, packet).reset_packet = {}
      BY <3>1, BegunEffect
    <3>3. \/ /\ packet.seqcount = 0 /\ apid_info'.reset_packet = {packet}
             /\ resets' = resets \cup {packet.number}
          \/ apid_info'.reset_packet = {} /\ resets' = resets
      BY <3>1, <3>2, ReceiveIs DEF IsReset
    <3>4. QED  BY <3>3
  <2>4. ASSUME NEW p \in Fresh', NEW q \in Kept'
        PROVE  p.number # q.number
    <3>1. p \in Fresh /\ p # packet /\ p \in Known
      BY <2>1 DEF Known, Fresh
    <3>2. q \in Kept \/ q = packet
      BY <1>1, ArriveKept
    <3>3. p.number # packet.number
      BY <2>2, <3>1, NumberTells
    <3>4. QED  BY <3>1, <3>2, <3>3 DEF WayInv
  <2>5. QED  BY <2>1, <2>2, <2>3, <2>4 DEF WayInv
<1>2. CASE Die \/ PurgeOne \/ FinishPurge \/ EmitOne \/ FinishEmit
  <2>1. Kept' \subseteq Kept /\ UNCHANGED <<worldVars, max_gap>>
    BY <1>2, KeptStays
  <2>2. resets' = resets
    BY <1>2 DEF Die, PurgeOne, FinishPurge, EmitOne, FinishEmit
  <2>3. apid_info'.reset_packet \subseteq apid_info.reset_packet
    <3>1. CASE Die \/ FinishEmit
      BY <3>1 DEF Die, FinishEmit
    <3>2. CASE PurgeOne \/ EmitOne
      <4>1. /\ ready_for_emit(apid_info)
            /\ \/ apid_info' = EmitNext(apid_info)
               \/ apid_info' = skip_to_next_available(EmitNext(apid_info))
        BY <3>2 DEF PurgeOne, EmitOne
      <4>2. /\ ProperInfo(EmitNext(apid_info))
            /\ EmitNext(apid_info).reset_packet = apid_info.reset_packet
        BY <4>1, EmitKeeps
      <4>3. QED  BY <4>1, <4>2, SkipKeeps DEF SameButLast
    <3>3. CASE FinishPurge
      <4>1. ProperInfo(apid_info) /\ apid_info.reset_packet # {} /\ LinedUp(apid_info)
        BY <3>3 DEF FinishPurge, TypeInv, PhaseInv
      <4>2. apid_info'.reset_packet = {}
        BY <3>3, <4>1, FinishPurgeIs
      <4>3. QED  BY <4>2
    <3>4. QED  BY <1>2, <3>1, <3>2, <3>3
  <2>4. QED  BY <2>1, <2>2, <2>3 DEF WayInv, worldVars, Fresh
<1>3. CASE Produce
  <2>1. /\ transit' = transit \cup {Upcoming} /\ produced' = produced + 1 /\ produced \in Nat
        /\ \A p \in transit : produced < p.number + Window /\ restarts = {}
        /\ Upcoming.number = produced
        /\ UNCHANGED <<processorVars, restarts, copies>>
    BY <1>3, KnownTyped DEF Produce, TypeInv, Upcoming
  <2>2. \A p \in transit : p.number \in Nat
    BY KnownTyped DEF Known
  <2>3. Kept' = Kept /\ \A q \in Kept : q.number < produced
    BY <2>1 DEF Kept, processorVars, FlowInv, Known
  <2>4. \A q \in Kept : q.number \in Nat
    BY KnownTyped DEF Known
  <2>5. \A p \in transit' : produced' <= p.number + Window
    <3>1. \A p \in transit : produced + 1 <= p.number + Window
      BY <2>1, <2>2, PacketBoundsAssumption
    <3>2. QED  BY <2>1, <3>1, PacketBoundsAssumption
  <2>6. restarts' # {} => \A p \in transit' : p.number + 1 = produced'
    BY <2>1
  <2>7. \A n \in resets' : n < produced'
    BY <2>1 DEF WayInv, TypeInv, processorVars
  <2>8. \A p \in Fresh', q \in Kept' : p.number # q.number
    <3>1. Fresh' \subseteq Fresh \cup {Upcoming}
      BY <2>1 DEF Fresh
    <3>2. QED  BY <2>1, <2>3, <2>4, <3>1 DEF WayInv
  <2>9. QED  BY <2>1, <2>5, <2>6, <2>7, <2>8 DEF WayInv, processorVars
<1>4. CASE \E packet \in transit \ copies : Lose(packet)
  <2>1. /\ transit' \subseteq transit /\ Fresh' \subseteq Fresh
        /\ UNCHANGED <<processorVars, produced, restarts>>
    BY <1>4 DEF Lose, Fresh
  <2>2. QED  BY <2>1 DEF WayInv, Kept, processorVars
<1>5. CASE Restart
  <2>1. transit = {} /\ UNCHANGED <<processorVars, produced, transit, copies>>
    BY <1>5 DEF Restart
  <2>2. QED  BY <2>1 DEF WayInv, Kept, processorVars, Fresh
<1>6. CASE UNCHANGED vars
  BY <1>6 DEF vars, processorVars, worldVars, WayInv, Kept, Fresh
<1>7. QED  BY <1>1, <1>2, <1>3, <1>4, <1>5, <1>6 DEF Next

\* A packet that is not taken for a reset is of the era of those that came since the last.
LEMMA SameEraAs ==
  ASSUME TypeInv, FlowInv, WayInv, NEW packet \in transit, NEW again \in BOOLEAN,
         Arrive(packet, again), Hopeful', resets' = resets,
         NEW q \in Known, \A n \in resets : n <= q.number
  PROVE  SameEra(packet.number, q.number) /\ SameEra(q.number, packet.number)
<1>1. Fresh' \subseteq Fresh \ {packet} /\ produced' = produced /\ restarts' = restarts
  BY ArriveFresh
<1>2. packet \in Known /\ packet.number \in Nat /\ q.number \in Nat /\ q.number < produced
  BY KnownTyped DEF Known, FlowInv
<1>3. ASSUME NEW n \in restarts
      PROVE  n <= packet.number <=> n <= q.number
  <2>1. packet.number + 1 = produced /\ n \in Nat /\ produced \in Nat
    BY <1>3 DEF WayInv, TypeInv
  <2>2. CASE n <= q.number
    BY <1>2, <2>1, <2>2
  <2>3. CASE n <= packet.number
    <3>1. n # produced
      BY <1>2, <2>1, <2>3
    <3>2. ~ \E p \in Fresh' : p.number = n
      <4>1. ASSUME NEW p \in Fresh', p.number = n
            PROVE  FALSE
        <5>1. p \in Known /\ p # packet /\ p.number + 1 = produced
          BY <1>1, <1>3 DEF Known, WayInv, Fresh
        <5>2. p.number = packet.number
          BY <1>2, <2>1, <4>1, <5>1
        <5>3. QED  BY <1>2, <5>1, <5>2, NumberTells
      <4>2. QED  BY <4>1
    <3>3. n \in resets
      BY <1>1, <3>1, <3>2 DEF Hopeful
    <3>4. QED  BY <3>3, <2>3
  <2>4. QED  BY <2>2, <2>3
<1>4. QED  BY <1>3 DEF SameEra

----------------------------------------------------------------------------
(* What waits has its packet. *)

Strict(list) == \A i, j \in DOMAIN list : i < j => list[i] < list[j]

\* A value that is new to a strictly sorted list leaves it so.
LEMMA InsertedStrict ==
  ASSUME NEW list \in Seq(SeqCounts), Strict(list), NEW val \in SeqCounts, val \notin ToSet(list)
  PROVE  Strict(Inserted(list, val))
<1> DEFINE n == Len(list)
           k == Below(list, val)
           r == Inserted(list, val)
<1>1. n \in Nat /\ DOMAIN list = 1 .. n /\ \A i \in 1 .. n : list[i] \in Nat /\ list[i] # val
  <2>1. \A i \in 1 .. n : list[i] \in SeqCounts
    BY ElementOfSeq
  <2>2. QED  BY <2>1, Counts, LenProperties DEF ToSet
<1>2. Sorted(list)
  BY <1>1 DEF Sorted, Strict
<1>3. k \in 0 .. n /\ val \in Nat /\ \A i \in 1 .. n : i <= k <=> list[i] < val
  BY <1>2, BelowSplits, Counts
<1>4. /\ DOMAIN r = 1 .. n + 1
      /\ \A i \in 1 .. n + 1 : r[i] = IF i <= k THEN list[i]
                                      ELSE IF i = k + 1 THEN val ELSE list[i - 1]
  BY <1>2, InsertedIs, LenProperties
<1>. HIDE DEF n, k, r
<1>5. ASSUME NEW i \in 1 .. n + 1, NEW j \in 1 .. n + 1, i < j
      PROVE  r[i] < r[j]
  <2>1. CASE j <= k
    <3>1. r[i] = list[i] /\ r[j] = list[j] /\ i \in 1 .. n /\ j \in 1 .. n
      BY <1>1, <1>3, <1>4, <1>5, <2>1
    <3>2. QED  BY <1>1, <1>5, <3>1 DEF Strict
  <2>2. CASE j = k + 1
    BY <1>1, <1>3, <1>4, <1>5, <2>2
  <2>3. CASE j > k + 1 /\ i <= k
    <3>1. r[i] = list[i] /\ r[j] = list[j - 1] /\ i \in 1 .. n /\ j - 1 \in 1 .. n /\ i < j - 1
      BY <1>1, <1>3, <1>4, <1>5, <2>3
    <3>2. QED  BY <1>1, <3>1 DEF Strict
  <2>4. CASE j > k + 1 /\ i = k + 1
    <3>1. r[i] = val /\ r[j] = list[j - 1] /\ j - 1 \in 1 .. n /\ ~(j - 1 <= k)
      BY <1>1, <1>3, <1>4, <1>5, <2>4
    <3>2. QED  BY <1>1, <1>3, <3>1
  <2>5. CASE i > k + 1
    <3>1. r[i] = list[i - 1] /\ r[j] = list[j - 1] /\ i - 1 \in 1 .. n /\ j - 1 \in 1 .. n
          /\ i - 1 < j - 1
      BY <1>1, <1>3, <1>4, <1>5, <2>5
    <3>2. QED  BY <1>1, <3>1 DEF Strict
  <2>6. QED  BY <1>3, <1>5, <2>1, <2>2, <2>3, <2>4, <2>5
<1>6. QED  BY <1>4, <1>5 DEF Strict, r

\* Without its first value it is strictly sorted, and has the others.
LEMMA TailStrict ==
  ASSUME NEW list \in Seq(SeqCounts), Strict(list), list # <<>>
  PROVE  /\ Strict(Tail(list)) /\ ToSet(Tail(list)) = ToSet(list) \ {Head(list)}
         /\ Head(list) \in ToSet(list)
         /\ \A c \in ToSet(Tail(list)) : Head(list) < c
<1> DEFINE n == Len(list)
           t == Tail(list)
           h == Head(list)
<1>1. /\ n \in Nat \ {0} /\ DOMAIN list = 1 .. n /\ h = list[1]
      /\ \A i \in 1 .. n : list[i] \in Nat
  <2>1. \A i \in 1 .. n : list[i] \in SeqCounts
    BY ElementOfSeq
  <2>2. n \in Nat \ {0} /\ DOMAIN list = 1 .. n
    BY EmptySeq, LenProperties
  <2>3. h = list[1] /\ 1 \in 1 .. n
    BY <2>2
  <2>4. QED  BY <2>1, <2>2, <2>3, Counts
<1>2. Sorted(list)
  BY <1>1 DEF Sorted, Strict
<1>3. /\ DOMAIN t = 1 .. n - 1
      /\ \A i \in 1 .. n - 1 : t[i] = list[i + 1]
  BY <1>2, RemovedHead, LenProperties
<1>. HIDE DEF n, t, h
<1>4. \A i \in 1 .. n - 1 : i + 1 \in 1 .. n /\ 1 < i + 1
  BY <1>1
<1>5. Strict(t)
  <2>1. ASSUME NEW i \in 1 .. n - 1, NEW j \in 1 .. n - 1, i < j
        PROVE  t[i] < t[j]
    <3>1. i + 1 \in 1 .. n /\ j + 1 \in 1 .. n /\ i + 1 < j + 1
      BY <1>1, <2>1
    <3>2. QED  BY <1>1, <1>3, <3>1 DEF Strict
  <2>2. QED  BY <1>3, <2>1 DEF Strict
<1>6. \A i \in 1 .. n - 1 : h < t[i]
  <2>1. ASSUME NEW i \in 1 .. n - 1
        PROVE  list[1] < list[i + 1]
    <3>1. 1 \in 1 .. n /\ i + 1 \in 1 .. n /\ 1 < i + 1
      BY <1>1, <1>4
    <3>2. QED  BY <1>1, <3>1 DEF Strict
  <2>2. QED  BY <1>1, <1>3, <2>1
<1>7. ToSet(list) \subseteq ToSet(t) \cup {h}
  <2>1. ASSUME NEW i \in 1 .. n
        PROVE  list[i] \in ToSet(t) \cup {h}
    <3>1. CASE i = 1
      BY <1>1, <3>1
    <3>2. CASE i # 1
      <4>1. i - 1 \in 1 .. n - 1 /\ t[i - 1] = list[i]
        BY <1>1, <1>3, <3>2
      <4>2. QED  BY <1>3, <4>1 DEF ToSet
    <3>3. QED  BY <3>1, <3>2
  <2>2. QED  BY <1>1, <2>1 DEF ToSet
<1>8. ToSet(t) \subseteq ToSet(list) /\ h \in ToSet(list)
  <2>1. 1 \in 1 .. n
    BY <1>1
  <2>2. QED  BY <1>1, <1>3, <1>4, <2>1 DEF ToSet
<1>9. h \notin ToSet(t) /\ \A c \in ToSet(t) : h < c
  <2>1. \A i \in 1 .. n - 1 : t[i] \in Nat
    BY <1>1, <1>3, <1>4
  <2>2. 1 \in 1 .. n /\ h \in Nat
    BY <1>1
  <2>3. QED  BY <1>3, <1>6, <2>1, <2>2 DEF ToSet
<1>10. QED  BY <1>5, <1>7, <1>8, <1>9 DEF t, h

\* The counts in the two lists, and that each is there once.
Waits(list) == ToSet(list.alpha) \cup ToSet(list.beta)
StrictLists(list) ==
  Strict(list.alpha) /\ Strict(list.beta) /\ ToSet(list.alpha) \cap ToSet(list.beta) = {}

\* A count that is new to both leaves them so.
LEMMA AddValueWaits ==
  ASSUME NEW list, ProperList(list), StrictLists(list), NEW val \in SeqCounts, val \notin Waits(list)
  PROVE  LET new == add_value(list, val)
         IN  /\ StrictLists(new)
             /\ val \in Waits(new) /\ Waits(new) \subseteq Waits(list) \cup {val}
<1> DEFINE new == add_value(list, val)
           a == list.alpha
           b == list.beta
           moved == IF list.has_beta THEN b ELSE a
<1>1. /\ a \in Seq(SeqCounts) /\ Sorted(a) /\ Strict(a) /\ val \notin ToSet(a)
      /\ b \in Seq(SeqCounts) /\ Sorted(b) /\ Strict(b) /\ val \notin ToSet(b)
      /\ ToSet(a) \cap ToSet(b) = {}
  BY DEF ProperList, Lists, StrictLists, Waits
<1>2. Waits(list) = ToSet(a) \cup ToSet(b)
  BY DEF Waits
<1>3. moved = a \/ moved = b
  OBVIOUS
<1>4. \/ new = Listed(a, Inserted(b, val), TRUE)
      \/ new = Listed(Inserted(a, val), <<>>, FALSE)
      \/ new = Listed(Inserted(moved, val), <<>>, FALSE)
      \/ new = Listed(Inserted(a, val), b, TRUE)
  BY AddValueIs
<1>. HIDE DEF new, a, b, moved
<1>5. /\ Strict(Inserted(a, val)) /\ ToSet(Inserted(a, val)) = ToSet(a) \cup {val}
      /\ Strict(Inserted(b, val)) /\ ToSet(Inserted(b, val)) = ToSet(b) \cup {val}
  BY <1>1, InsertedStrict, InsertedSorted
<1>6. Strict(<<>>) /\ ToSet(<<>>) = {}
  BY DEF Strict, ToSet
<1> DEFINE ia == Inserted(a, val)
           ib == Inserted(b, val)
<1>. HIDE DEF ia, ib
<1>7. \/ new.alpha = a /\ new.beta = ib
      \/ new.alpha = ia /\ new.beta = <<>>
      \/ new.alpha = ib /\ new.beta = <<>>
      \/ new.alpha = ia /\ new.beta = b
  <2>1. \/ new = Listed(a, ib, TRUE)
        \/ new = Listed(ia, <<>>, FALSE)
        \/ new = Listed(ib, <<>>, FALSE)
        \/ new = Listed(ia, b, TRUE)
    BY <1>3, <1>4 DEF ia, ib
  <2>2. QED  BY <2>1 DEF Listed
<1>8. /\ StrictLists(new)
      /\ val \in Waits(new) /\ Waits(new) \subseteq Waits(list) \cup {val}
  <2>1. /\ Strict(ia) /\ ToSet(ia) = ToSet(a) \cup {val}
        /\ Strict(ib) /\ ToSet(ib) = ToSet(b) \cup {val}
    BY <1>5 DEF ia, ib
  <2>2. QED  BY <1>1, <1>2, <1>6, <1>7, <2>1 DEF StrictLists, Waits
<1>9. QED  BY <1>8 DEF new

\* Every count that waits has its packet, and waits once.
Complete(info) ==
  /\ StrictLists(info.seq_counts)
  /\ Waits(info.seq_counts) \subseteq {p.seqcount : p \in info.packet_dict}

\* The packets whose counts wait.
WaitingPackets(info) == {p \in info.packet_dict : p.seqcount \in Waits(info.seq_counts)}

\* A new count comes with its packet.
LEMMA StoreCompletes ==
  ASSUME NEW info, ProperInfo(info), Complete(info), NEW packet \in Packets,
         packet.seqcount \notin Waits(info.seq_counts)
  PROVE  LET new == store(info, packet)
         IN  /\ Complete(new)
             /\ WaitingPackets(new) \subseteq WaitingPackets(info) \cup {packet}
<1> DEFINE new == store(info, packet)
           c == packet.seqcount
           list == info.seq_counts
<1>1. /\ new.seq_counts = add_value(list, c)
      /\ new.packet_dict = {p \in info.packet_dict : p.seqcount # c} \cup {packet}
  BY StoreEffect
<1>2. c \in SeqCounts /\ ProperList(list) /\ StrictLists(list) /\ c \notin Waits(list)
  BY DEF Packets, ProperInfo, Complete
<1>. HIDE DEF new
<1>3. /\ StrictLists(new.seq_counts)
      /\ c \in Waits(new.seq_counts) /\ Waits(new.seq_counts) \subseteq Waits(list) \cup {c}
  BY <1>1, <1>2, AddValueWaits
<1>4. Waits(list) \subseteq {p.seqcount : p \in info.packet_dict}
  BY DEF Complete
<1>. HIDE DEF list
<1>5. \A x \in Waits(new.seq_counts) : \E p \in new.packet_dict : p.seqcount = x
  <2>1. ASSUME NEW x \in Waits(new.seq_counts), x # c
        PROVE  \E p \in new.packet_dict : p.seqcount = x
    <3>1. PICK p \in info.packet_dict : p.seqcount = x
      BY <1>3, <1>4, <2>1
    <3>2. QED  BY <1>1, <2>1, <3>1
  <2>2. packet \in new.packet_dict /\ packet.seqcount = c
    BY <1>1
  <2>3. QED  BY <2>1, <2>2
<1>6. \A p \in WaitingPackets(new) : p \in WaitingPackets(info) \/ p = packet
  BY <1>1, <1>3 DEF WaitingPackets, list
<1>7. QED  BY <1>3, <1>5, <1>6 DEF Complete, new

\* A count goes with its packet.
LEMMA EmitCompletes ==
  ASSUME TypeInv, Complete(apid_info), ready_for_emit(apid_info)
  PROVE  LET new == EmitNext(apid_info)
         IN  /\ Complete(new)
             /\ WaitingPackets(new) \subseteq WaitingPackets(apid_info)
<1> DEFINE new == EmitNext(apid_info)
           list == apid_info.seq_counts
           next == get_next_value(list)
           left == Listed(Tail(list.alpha), list.beta, list.has_beta)
<1>1. CASE new = apid_info
  BY <1>1
<1>2. CASE /\ new.seq_counts = left
           /\ new.packet_dict = {r \in apid_info.packet_dict : r.seqcount # next}
  <2>1. /\ ProperList(list) /\ list.alpha \in Seq(SeqCounts) /\ list.alpha # <<>>
        /\ next = Head(list.alpha)
    BY NextIs DEF TypeInv, ProperInfo, ProperList, Lists, ready_for_emit, HasNext
  <2>2. /\ Strict(list.alpha) /\ Strict(list.beta) /\ ToSet(list.alpha) \cap ToSet(list.beta) = {}
        /\ Waits(list) \subseteq {p.seqcount : p \in apid_info.packet_dict}
    BY DEF Complete, StrictLists
  <2>3. /\ Strict(Tail(list.alpha)) /\ ToSet(Tail(list.alpha)) = ToSet(list.alpha) \ {next}
        /\ next \in ToSet(list.alpha)
    BY <2>1, <2>2, TailStrict
  <2>4. left.alpha = Tail(list.alpha) /\ left.beta = list.beta
    BY DEF Listed
  <2>. HIDE DEF new, list, next, left
  <2>5. StrictLists(left) /\ Waits(left) = Waits(list) \ {next}
    BY <2>2, <2>3, <2>4 DEF StrictLists, Waits
  <2>6. \A x \in Waits(left) : \E p \in new.packet_dict : p.seqcount = x
    BY <1>2, <2>2, <2>5
  <2>7. WaitingPackets(new) \subseteq WaitingPackets(apid_info)
    BY <1>2, <2>5 DEF WaitingPackets, list
  <2>8. QED  BY <1>2, <2>5, <2>6, <2>7 DEF Complete, new
<1>3. QED
  <2>1. \/ new = apid_info
        \/ /\ new.seq_counts = left
           /\ new.packet_dict = {r \in apid_info.packet_dict : r.seqcount # next}
    BY EmitMoves
  <2>2. QED  BY ONLY <1>1, <1>2, <2>1

\* Neither depends on the last count.
LEMMA LastDoesNotCount ==
  ASSUME NEW new, NEW info, SameButLast(new, info)
  PROVE  /\ Complete(new) = Complete(info)
         /\ WaitingPackets(new) = WaitingPackets(info)
BY DEF SameButLast, Complete, WaitingPackets

\* Two lists with nothing in common, one after the other.
LEMMA StrictTogether ==
  ASSUME NEW a \in Seq(SeqCounts), NEW b \in Seq(SeqCounts), Strict(a), Strict(b),
         ToSet(a) \cap ToSet(b) = {}
  PROVE  IsInjective(a \o b) /\ ToSet(a \o b) = ToSet(a) \cup ToSet(b)
<1> DEFINE m == Len(a)
           n == Len(b)
           c == a \o b
<1>1. /\ m \in Nat /\ n \in Nat /\ DOMAIN a = 1 .. m /\ DOMAIN b = 1 .. n
      /\ DOMAIN c = 1 .. m + n
      /\ \A i \in 1 .. m + n : c[i] = IF i <= m THEN a[i] ELSE b[i - m]
  <2>1. c \in Seq(SeqCounts) /\ Len(c) = m + n
    BY ConcatProperties
  <2>2. QED  BY <2>1, ConcatProperties, LenProperties
<1>2. /\ \A i \in 1 .. m : a[i] \in Nat /\ a[i] \in ToSet(a)
      /\ \A i \in 1 .. n : b[i] \in Nat /\ b[i] \in ToSet(b)
  <2>1. /\ \A i \in 1 .. m : a[i] \in SeqCounts
        /\ \A i \in 1 .. n : b[i] \in SeqCounts
    BY ElementOfSeq
  <2>2. QED  BY <1>1, <2>1, Counts DEF ToSet
<1>. HIDE DEF m, n, c
<1>3. \A i \in 1 .. m + n : i \in 1 .. m \/ i - m \in 1 .. n
  BY <1>1
<1>4. ASSUME NEW i \in 1 .. m + n, NEW j \in 1 .. m + n, i < j
      PROVE  c[i] # c[j]
  <2>1. CASE j <= m
    <3>1. i \in 1 .. m /\ j \in 1 .. m /\ c[i] = a[i] /\ c[j] = a[j]
      BY <1>1, <1>4, <2>1
    <3>2. a[i] < a[j]
      BY <1>1, <1>4, <3>1 DEF Strict
    <3>3. QED  BY <1>2, <3>1, <3>2
  <2>2. CASE m < i
    <3>1. i - m \in 1 .. n /\ j - m \in 1 .. n /\ i - m < j - m /\ c[i] = b[i - m] /\ c[j] = b[j - m]
      BY <1>1, <1>4, <2>2
    <3>2. b[i - m] < b[j - m]
      BY <1>1, <3>1 DEF Strict
    <3>3. b[i - m] \in Nat /\ b[j - m] \in Nat
      BY <1>2, <3>1
    <3>4. QED  BY <3>1, <3>2, <3>3
  <2>3. CASE i <= m /\ m < j
    <3>1. i \in 1 .. m /\ j - m \in 1 .. n /\ c[i] = a[i] /\ c[j] = b[j - m]
      BY <1>1, <1>4, <2>3
    <3>2. QED  BY <1>2, <3>1
  <2>4. QED  BY <1>1, <1>4, <2>1, <2>2, <2>3
<1>5. IsInjective(c)
  <2>1. \A i, j \in 1 .. m + n : i < j \/ j < i \/ i = j
    BY <1>1
  <2>2. QED  BY <1>1, <1>4, <2>1 DEF IsInjective
<1>6. ToSet(c) \subseteq ToSet(a) \cup ToSet(b)
  <2>1. \A i \in 1 .. m + n : c[i] \in ToSet(a) \cup ToSet(b)
    BY <1>1, <1>2, <1>3
  <2>2. QED  BY <1>1, <2>1 DEF ToSet
<1>7. ToSet(a) \subseteq ToSet(c)
  <2>1. \A i \in 1 .. m : i \in 1 .. m + n /\ c[i] = a[i]
    BY <1>1
  <2>2. QED  BY <1>1, <2>1 DEF ToSet
<1>8. ToSet(b) \subseteq ToSet(c)
  <2>1. \A i \in 1 .. n : i + m \in 1 .. m + n /\ c[i + m] = b[i]
    BY <1>1
  <2>2. \A i \in 1 .. n : b[i] \in ToSet(c)
    <3>1. \A j \in 1 .. m + n : c[j] \in ToSet(c)
      BY <1>1 DEF ToSet
    <3>2. QED  BY <2>1, <3>1
  <2>3. QED  BY <1>1, <2>2 DEF ToSet
<1>9. QED  BY <1>5, <1>6, <1>7, <1>8 DEF c

\* What waits, as the model sees it.
LEMMA WaitingIs ==
  ASSUME TypeInv, Complete(apid_info)
  PROVE  IsInjective(Waiting) /\ ToSet(Waiting) = Waits(apid_info.seq_counts)
<1> DEFINE a == apid_info.seq_counts.alpha
           b == apid_info.seq_counts.beta
<1>1. a \in Seq(SeqCounts) /\ b \in Seq(SeqCounts)
  BY DEF TypeInv, ProperInfo, ProperList, Lists
<1>2. Strict(a) /\ Strict(b) /\ ToSet(a) \cap ToSet(b) = {}
  BY DEF Complete, StrictLists
<1>3. Waiting = a \o b /\ Waits(apid_info.seq_counts) = ToSet(a) \cup ToSet(b)
  BY DEF Waiting, Waits
<1>. HIDE DEF a, b
<1>4. QED  BY <1>1, <1>2, <1>3, StrictTogether

\* A copy whose count waits is known as one.
LEMMA CopyWaits ==
  ASSUME TypeInv, Complete(apid_info), NEW packet \in copies, ~IsReset(apid_info, packet),
         packet.seqcount \in Waits(apid_info.seq_counts)
  PROVE  Repeated(packet) = {"Waits"}
<1>1. Waiting \in Seq(SeqCounts) /\ packet.seqcount \in ToSet(Waiting)
  <2>1. apid_info.seq_counts.alpha \in Seq(SeqCounts) /\ apid_info.seq_counts.beta \in Seq(SeqCounts)
    BY DEF TypeInv, ProperInfo, ProperList, Lists
  <2>2. QED  BY <2>1, WaitingIs, ConcatProperties DEF Waiting
<1>2. Contains(Waiting, packet.seqcount)
  BY <1>1, LenProperties DEF Contains, ToSet
<1>3. QED  BY <1>2 DEF Repeated

\* While no reset was overlooked, and no copy came of a packet that waits, every count that waits
\* has its packet, and waits once; the packets that wait came after the last reset, except during the purge that follows it.
WaitInv ==
  Hopeful /\ "Waits" \notin repeats =>
    /\ Complete(apid_info)
    /\ \A p \in WaitingPackets(apid_info), n \in resets :
         n <= p.number \/ \E q \in apid_info.reset_packet : n = q.number
    /\ \A p \in apid_info.reset_packet, n \in resets : n <= p.number

\* A packet that is not taken for a reset has a count that does not wait.
LEMMA NewCount ==
  ASSUME MaxPackets <= Modulo, TypeInv, FlowInv, WayInv, WaitInv,
         NEW packet \in transit, NEW again \in BOOLEAN, Arrive(packet, again),
         Hopeful, Hopeful', "Waits" \notin repeats', ~IsReset(apid_info, packet)
  PROVE  packet.seqcount \notin Waits(apid_info.seq_counts)
<1>0. /\ Complete(apid_info) /\ resets' = resets /\ repeats' = repeats \cup Repeated(packet)
      /\ "Waits" \notin repeats
  BY ArriveFresh DEF WaitInv
<1>1. SUFFICES ASSUME packet.seqcount \in Waits(apid_info.seq_counts) PROVE FALSE
  OBVIOUS
<1>2. PICK q \in apid_info.packet_dict : q.seqcount = packet.seqcount
  BY <1>0, <1>1 DEF Complete
<1>3. q \in WaitingPackets(apid_info)
  BY <1>1, <1>2 DEF WaitingPackets
<1>4. apid_info.reset_packet = {}
  BY DEF Arrive, Receive, TypeInv
<1>5. \A n \in resets : n <= q.number
  BY <1>0, <1>3, <1>4 DEF WaitInv
<1>6. q \in Kept /\ q \in Known /\ packet \in Known
  BY DEF Kept, Known
<1>7. packet \in Fresh
  BY <1>0, <1>1, CopyWaits DEF Fresh
<1>8. SameEra(packet.number, q.number) /\ packet.number # q.number
  BY <1>0, <1>5, <1>6, <1>7, SameEraAs DEF WayInv
<1>9. QED  BY <1>2, <1>6, <1>8, CountsDiffer

\* Nothing arrives after the packet of a reset, and before its number nothing is unsettled.
LEMMA ArrivesLast ==
  ASSUME WayInv, FlowInv, TypeInv, resets' \subseteq restarts, NEW packet \in transit,
         NEW n \in resets', resets' \subseteq resets \cup {packet.number}
  PROVE  n <= packet.number
<1>1. packet.number + 1 = produced /\ packet.number \in Nat /\ produced \in Nat
  BY KnownTyped DEF WayInv, Known, TypeInv
<1>2. n \in resets => n < produced /\ n \in Nat
  BY DEF WayInv, TypeInv
<1>3. QED  BY <1>1, <1>2

\* An arrival keeps that.
LEMMA ArriveWait ==
  ASSUME MaxPackets <= Modulo, TypeInv, FlowInv, WayInv, WaitInv,
         NEW packet \in transit, NEW again \in BOOLEAN, Arrive(packet, again),
         Hopeful, Hopeful', "Waits" \notin repeats'
  PROVE  WaitInv'
<1>0. "Waits" \notin repeats
  BY ArriveFresh
<1>1. /\ packet \in Packets /\ ProperInfo(apid_info) /\ max_gap \in Nat
      /\ Receive(packet) /\ apid_info.reset_packet = {} /\ restarts' = restarts
  BY DEF TypeInv, Arrive, Receive
<1>2. Complete(apid_info) /\ \A p \in WaitingPackets(apid_info), n \in resets : n <= p.number
  BY <1>0, <1>1 DEF WaitInv
<1>3. resets' \subseteq restarts
  BY <1>1 DEF Hopeful
<1>4. resets' \subseteq resets \cup {packet.number} => \A n \in resets' : n <= packet.number
  BY <1>3, ArrivesLast
<1> DEFINE begun == Begun(apid_info, packet)
           stored == store(begun, packet)
<1>5. /\ ProperInfo(begun) /\ begun.reset_packet = {}
      /\ begun.seq_counts = apid_info.seq_counts /\ begun.packet_dict = apid_info.packet_dict
  BY <1>1, BegunEffect
<1>6. Complete(begun) /\ WaitingPackets(begun) = WaitingPackets(apid_info)
  BY <1>2, <1>5 DEF Complete, WaitingPackets
<1>7. CASE /\ apid_info'.reset_packet = {packet}
           /\ apid_info'.seq_counts = apid_info.seq_counts
           /\ apid_info'.packet_dict = apid_info.packet_dict
           /\ resets' = resets \cup {packet.number}
  <2>1. Complete(apid_info') /\ WaitingPackets(apid_info') = WaitingPackets(apid_info)
    BY <1>2, <1>7 DEF Complete, WaitingPackets
  <2>2. QED  BY <1>2, <1>4, <1>7, <2>1 DEF WaitInv
<1>8. CASE apid_info' = begun /\ resets' = resets
  <2>. HIDE DEF begun
  <2>1. QED  BY <1>2, <1>5, <1>6, <1>8 DEF WaitInv
<1>9. CASE /\ ~IsReset(apid_info, packet)
           /\ ProperInfo(stored) /\ apid_info' = check_gap(stored)
           /\ apid_info'.reset_packet = {} /\ resets' = resets
  <2>1. packet.seqcount \notin Waits(begun.seq_counts)
    BY <1>5, <1>9, NewCount
  <2>. HIDE DEF begun
  <2>2. Complete(stored) /\ WaitingPackets(stored) \subseteq WaitingPackets(begun) \cup {packet}
    BY <1>1, <1>5, <1>6, <2>1, StoreCompletes
  <2>. HIDE DEF stored
  <2>3. SameButLast(apid_info', stored)
    BY <1>1, <1>9, CheckGapKeeps
  <2>4. /\ Complete(apid_info')
        /\ WaitingPackets(apid_info') \subseteq WaitingPackets(apid_info) \cup {packet}
    BY <1>6, <2>2, <2>3, LastDoesNotCount
  <2>5. QED  BY <1>2, <1>4, <1>9, <2>4 DEF WaitInv
<1>10. QED
  <2>1. \/ /\ apid_info'.reset_packet = {packet}
           /\ apid_info'.seq_counts = apid_info.seq_counts
           /\ apid_info'.packet_dict = apid_info.packet_dict
           /\ resets' = resets \cup {packet.number}
        \/ apid_info' = begun /\ resets' = resets
        \/ /\ ~IsReset(apid_info, packet)
           /\ ProperInfo(stored) /\ apid_info' = check_gap(stored)
           /\ apid_info'.reset_packet = {} /\ resets' = resets
    BY <1>1, ReceiveIs
  <2>2. QED  BY ONLY <1>7, <1>8, <1>9, <2>1

\* Nothing is forgotten of how copies came.
LEMMA RepeatsStay ==
  ASSUME TypeInv, [Next]_vars
  PROVE  repeats \subseteq repeats'
<1>1. ASSUME NEW packet \in transit, NEW again \in BOOLEAN, Arrive(packet, again)
      PROVE  repeats \subseteq repeats'
  BY <1>1, ArriveFresh
<1>2. QED  BY <1>1 DEF Next, Die, PurgeOne, FinishPurge, EmitOne, FinishEmit, Produce, Lose,
                       Restart, vars, worldVars

\* So does every step.
LEMMA NextWait ==
  ASSUME MaxPackets <= Modulo, TypeInv, PhaseInv, FlowInv, WayInv, WaitInv,
         [Next]_vars
  PROVE  WaitInv'
<1> SUFFICES ASSUME Hopeful', "Waits" \notin repeats' PROVE WaitInv'
  BY DEF WaitInv
<1>0. /\ Hopeful /\ "Waits" \notin repeats /\ ProperInfo(apid_info) /\ Complete(apid_info)
      /\ \A p \in WaitingPackets(apid_info), n \in resets :
           n <= p.number \/ \E q \in apid_info.reset_packet : n = q.number
      /\ \A p \in apid_info.reset_packet, n \in resets : n <= p.number
  BY HopefulBefore, RepeatsStay DEF WaitInv, TypeInv
<1>1. ASSUME NEW packet \in transit, NEW again \in BOOLEAN, Arrive(packet, again)
      PROVE  WaitInv'
  BY <1>0, <1>1, ArriveWait
<1>2. CASE PurgeOne \/ EmitOne
  <2>1. /\ ready_for_emit(apid_info) /\ resets' = resets
        /\ \/ apid_info' = EmitNext(apid_info)
           \/ apid_info' = skip_to_next_available(EmitNext(apid_info))
    BY <1>2 DEF PurgeOne, EmitOne
  <2> DEFINE new == EmitNext(apid_info)
  <2>2. ProperInfo(new) /\ new.reset_packet = apid_info.reset_packet
    BY <2>1, EmitKeeps
  <2>3. Complete(new) /\ WaitingPackets(new) \subseteq WaitingPackets(apid_info)
    BY <1>0, <2>1, EmitCompletes
  <2>. HIDE DEF new
  <2>4. apid_info' = new \/ SameButLast(apid_info', new)
    BY <2>1, <2>2, SkipKeeps DEF new
  <2>5. /\ Complete(apid_info') /\ WaitingPackets(apid_info') \subseteq WaitingPackets(apid_info)
        /\ apid_info'.reset_packet = apid_info.reset_packet
    BY <2>2, <2>3, <2>4, LastDoesNotCount DEF SameButLast
  <2>6. QED  BY <1>0, <2>1, <2>5 DEF WaitInv
<1>3. CASE FinishPurge
  <2>1. apid_info.reset_packet # {} /\ LinedUp(apid_info) /\ resets' = resets
    BY <1>3 DEF FinishPurge, TypeInv, PhaseInv
  <2> DEFINE cleared == clear_reset_state(apid_info)
  <2>2. /\ apid_info.seq_counts.alpha = <<>> /\ apid_info.seq_counts.beta = <<>>
        /\ ProperInfo(cleared) /\ apid_info' = skip_to_next_available(cleared)
        /\ apid_info'.reset_packet = {}
    BY <1>0, <1>3, <2>1, FinishPurgeIs
  <2>3. PICK packet \in apid_info.reset_packet :
          /\ packet \in Packets
          /\ cleared.seq_counts = store(apid_info, packet).seq_counts
          /\ cleared.packet_dict = store(apid_info, packet).packet_dict
    <3>1. PICK packet \in apid_info.reset_packet :
            /\ packet \in Packets
            /\ cleared.seq_counts = add_value(apid_info.seq_counts, packet.seqcount)
            /\ cleared.packet_dict =
                 {p \in apid_info.packet_dict : p.seqcount # packet.seqcount} \cup {packet}
      BY <1>0, <2>1, ClearEffect
    <3>. HIDE DEF cleared
    <3>2. QED  BY <1>0, <3>1, StoreEffect
  <2>4. Waits(apid_info.seq_counts) = {}
    BY <2>2 DEF Waits, ToSet
  <2>5. WaitingPackets(apid_info) = {}
    BY <2>4 DEF WaitingPackets
  <2>6. /\ Complete(store(apid_info, packet))
        /\ WaitingPackets(store(apid_info, packet)) \subseteq {packet}
    BY <1>0, <2>3, <2>4, <2>5, StoreCompletes
  <2>. HIDE DEF cleared
  <2>7. Complete(cleared) /\ WaitingPackets(cleared) \subseteq {packet}
    BY <2>3, <2>6 DEF Complete, WaitingPackets
  <2>8. Complete(apid_info') /\ WaitingPackets(apid_info') \subseteq {packet}
    BY <2>2, <2>7, SkipKeeps, LastDoesNotCount
  <2>9. QED  BY <1>0, <2>1, <2>2, <2>3, <2>8 DEF WaitInv
<1>4. CASE \/ Die \/ FinishEmit \/ Produce \/ Restart \/ UNCHANGED vars
           \/ \E packet \in transit \ copies : Lose(packet)
  <2>1. apid_info' = apid_info /\ resets' = resets
    BY <1>4 DEF Die, FinishEmit, Produce, Restart, Lose, vars, processorVars, worldVars
  <2>2. QED  BY <1>0, <2>1 DEF WaitInv
<1>5. QED  BY <1>1, <1>2, <1>3, <1>4 DEF Next

\* Initially nothing waits.
LEMMA InitWait ==
  ASSUME Init
  PROVE  WayInv /\ WaitInv
<1>1. /\ apid_info.seq_counts = EmptyList /\ apid_info.packet_dict = {}
      /\ apid_info.reset_packet = {}
      /\ transit = {} /\ resets = {} /\ restarts = {}
  BY DEF Init, NewApidInfo
<1>2. WayInv
  BY <1>1 DEF WayInv, Fresh
<1>3. Waits(EmptyList) = {} /\ StrictLists(EmptyList)
  BY DEF Waits, EmptyList, ToSet, StrictLists, Strict
<1>4. WaitInv
  BY <1>1, <1>3 DEF WaitInv, Complete
<1>5. QED  BY <1>2, <1>4

\* All of these hold in every reachable state.
LEMMA AlwaysWait ==
  ASSUME MaxPackets <= Modulo
  PROVE  Spec => [](TypeInv /\ PhaseInv /\ FlowInv /\ WayInv /\ WaitInv)
<1> DEFINE Inv == TypeInv /\ PhaseInv /\ FlowInv
<1>1. Init => WayInv /\ WaitInv
  BY InitWait
<1>2. Inv /\ (WayInv /\ WaitInv) /\ [Next]_vars => (WayInv /\ WaitInv)'
  BY NextWay, NextWait
<1>3. Spec => []Inv
  BY AlwaysFlow
<1>. HIDE DEF Inv
<1>4. Spec => [](Inv /\ WayInv /\ WaitInv)
  BY <1>1, <1>2, <1>3, PTL DEF Spec
<1>5. QED  BY <1>4 DEF Inv

\* As long as resets are noticed none was overlooked.
LEMMA NoticedHopeful ==
  ASSUME TypeInv, FlowInv, RestartsNoticed
  PROVE  Hopeful
<1>1. restarts \subseteq 0 .. produced /\ produced \in Nat
  BY DEF FlowInv, TypeInv
<1>2. QED  BY <1>1 DEF RestartsNoticed, Hopeful

\* Every count that waits has its packet, and waits once, unless a copy came of a packet that
\* waits, if there are no more packets than counts: however often packets arrive otherwise.
THEOREM WaitingHavePacketsHolds ==
  ASSUME MaxPackets <= Modulo
  PROVE  Spec => []WaitingHavePackets
<1>1. ASSUME TypeInv, FlowInv, WaitInv, RestartsNoticed, "Waits" \notin repeats
      PROVE  /\ IsInjective(Waiting)
             /\ ToSet(Waiting) \subseteq {p.seqcount : p \in apid_info.packet_dict}
  <2>1. Complete(apid_info)
    BY <1>1, NoticedHopeful DEF WaitInv
  <2>2. QED  BY <1>1, <2>1, WaitingIs DEF Complete
<1>2. TypeInv /\ PhaseInv /\ FlowInv /\ WayInv /\ WaitInv => WaitingHavePackets
  BY <1>1 DEF WaitingHavePackets
<1>3. QED  BY <1>2, AlwaysWait, PTL

----------------------------------------------------------------------------
(* The order of what is sent, when gaps are allowed. *)

\* The packets that wait in the alpha list, and whether a high count does.
AlphaPackets(info) == {p \in info.packet_dict : p.seqcount \in ToSet(info.seq_counts.alpha)}
HighWaits(info) == \E c \in ToSet(info.seq_counts.alpha) : beta_value <= c

\* No rollover is between two packets.
OneCycle(p, q) == p.number - p.seqcount = q.number - q.seqcount

Increasing(sent) == \A i, j \in 1 .. Len(sent) : i < j => sent[i].number < sent[j].number

\* What waits in the alpha list follows what was sent; it is of one cycle; with a high count
\* there is a beta list.
Tidy(info, sent) ==
  /\ \A e \in ToSet(sent), p \in AlphaPackets(info) : e.number < p.number
  /\ \A p, q \in AlphaPackets(info) : OneCycle(p, q)
  /\ HighWaits(info) => info.seq_counts.has_beta

\* The last count is that of the last packet sent, and before what waits. There is a beta list
\* from the first high count on; something in it is of the next cycle.
Settled(info, sent, past) ==
  /\ sent # <<>>
  /\ info.lastSeqCountSent = sent[Len(sent)].seqcount
  /\ \A p \in AlphaPackets(info) :
       sent[Len(sent)].seqcount < p.seqcount /\ OneCycle(p, sent[Len(sent)])
  /\ \A n \in past : n <= sent[Len(sent)].number
  /\ beta_value < info.lastSeqCountSent => info.seq_counts.has_beta
  /\ info.seq_counts.has_beta => beta_value <= info.lastSeqCountSent \/ HighWaits(info)
  /\ info.seq_counts.beta # <<>> => beta_value < info.lastSeqCountSent

\* The same without the last packet sent: the first that waits may be sent.
Open(info, past) ==
  /\ info.seq_counts.has_beta => HighWaits(info)
  /\ info.seq_counts.beta # <<>> => \A c \in ToSet(info.seq_counts.alpha) : beta_value < c
  /\ \A p \in AlphaPackets(info), n \in past : n <= p.number

Due(info, past) == info.seq_counts.alpha # <<>> /\ LinedUp(info) /\ Open(info, past)

\* When gaps are allowed, and neither a reset was overlooked nor a copy taken for a new packet,
\* what is sent is in order.
OrderInv ==
  max_gap # 0 /\ Hopeful /\ repeats = {} =>
    /\ Increasing(emitted)
    /\ phase # "Dead" => Tidy(apid_info, emitted)
    /\ phase = "Purging" =>
         \A p \in apid_info.reset_packet, q \in ToSet(emitted) \cup AlphaPackets(apid_info) :
           q.number < p.number
    /\ phase = "Idle" =>
         IF apid_info.has_sent THEN Settled(apid_info, emitted, resets)
         ELSE emitted = <<>> /\ apid_info.seq_counts = EmptyList
    /\ phase \in {"Purging", "Emitting"} => apid_info.has_sent
    /\ phase = "Emitting" =>
         \/ Settled(apid_info, emitted, resets)
         \/ Due(apid_info, resets)
         \/ Unanswerable(apid_info)

\* The last of an increasing sequence is its greatest.
LEMMA LastGreatest ==
  ASSUME NEW sent \in Seq(Packets), Increasing(sent), sent # <<>>
  PROVE  /\ sent[Len(sent)] \in ToSet(sent) /\ sent[Len(sent)] \in Packets
         /\ \A e \in ToSet(sent) : e.number <= sent[Len(sent)].number
<1> DEFINE n == Len(sent)
<1>1. n \in Nat \ {0} /\ DOMAIN sent = 1 .. n
  BY EmptySeq, LenProperties
<1>2. \A i \in 1 .. n : sent[i] \in Packets /\ sent[i].number \in Nat
  <2>1. \A i \in 1 .. n : sent[i] \in Packets
    BY ElementOfSeq
  <2>2. QED  BY <2>1 DEF Packets
<1>3. \A i \in 1 .. n, j \in 1 .. n : i < j => sent[i].number < sent[j].number
  BY DEF Increasing
<1>. HIDE DEF n
<1>4. n \in 1 .. n
  BY <1>1
<1>5. \A i \in 1 .. n : sent[i].number <= sent[n].number
  <2>1. ASSUME NEW i \in 1 .. n
        PROVE  sent[i].number <= sent[n].number
    <3>1. i = n \/ i < n
      BY <1>1
    <3>2. QED  BY <1>2, <1>3, <1>4, <3>1
  <2>2. QED  BY <2>1
<1>6. /\ sent[n] \in ToSet(sent) /\ sent[n] \in Packets
      /\ \A e \in ToSet(sent) : e.number <= sent[n].number
  BY <1>1, <1>2, <1>4, <1>5 DEF ToSet
<1>7. QED  BY <1>6 DEF n

\* A greater one may follow.
LEMMA IncreasingAppend ==
  ASSUME NEW sent \in Seq(Packets), Increasing(sent), NEW p \in Packets,
         \A e \in ToSet(sent) : e.number < p.number
  PROVE  Increasing(sent \o <<p>>)
<1> DEFINE t == sent \o <<p>>
           n == Len(sent)
<1>1. /\ Len(t) = n + 1 /\ n \in Nat /\ DOMAIN sent = 1 .. n
      /\ \A i \in 1 .. n : t[i] = sent[i]
      /\ t[n + 1] = p
  BY ToSetAppend, LenProperties
<1>. HIDE DEF t, n
<1>2. \A i \in 1 .. n : t[i].number < p.number
  BY <1>1 DEF ToSet
<1>3. ASSUME NEW i \in 1 .. n + 1, NEW j \in 1 .. n + 1, i < j
      PROVE  t[i].number < t[j].number
  <2>1. CASE j = n + 1
    <3>1. i \in 1 .. n
      BY <1>1, <1>3, <2>1
    <3>2. QED  BY <1>1, <1>2, <2>1, <3>1
  <2>2. CASE j # n + 1
    <3>1. i \in 1 .. n /\ j \in 1 .. n
      BY <1>1, <1>3, <2>2
    <3>2. QED  BY <1>1, <1>3, <3>1 DEF Increasing, n
  <2>3. QED  BY <2>1, <2>2
<1>4. QED  BY <1>1, <1>3 DEF Increasing, t

\* What waits in the alpha list are numbers and counts.
LEMMA AlphaTyped ==
  ASSUME NEW info, ProperInfo(info)
  PROVE  /\ \A p \in AlphaPackets(info) :
              /\ p \in info.packet_dict /\ p \in Packets /\ p.number \in Nat /\ p.seqcount \in Nat
              /\ p.seqcount \in ToSet(info.seq_counts.alpha)
         /\ ToSet(info.seq_counts.alpha) \subseteq Nat
         /\ info.lastSeqCountSent \in Nat /\ info.seq_counts.has_beta \in BOOLEAN
<1>1. info.packet_dict \subseteq Packets /\ info.lastSeqCountSent \in SeqCounts
  BY DEF ProperInfo, Infos
<1>2. info.seq_counts.alpha \in Seq(SeqCounts) /\ info.seq_counts.has_beta \in BOOLEAN
  BY DEF ProperInfo, ProperList, Lists
<1>3. ToSet(info.seq_counts.alpha) \subseteq SeqCounts
  BY <1>2 DEF ToSet
<1>4. \A p \in Packets : p.number \in Nat /\ p.seqcount \in SeqCounts
  BY DEF Packets
<1>5. QED  BY <1>1, <1>2, <1>3, <1>4, Counts DEF AlphaPackets

\* What waits has its packet.
LEMMA AlphaComplete ==
  ASSUME NEW info, Complete(info), NEW c \in ToSet(info.seq_counts.alpha)
  PROVE  \E p \in AlphaPackets(info) : p.seqcount = c
BY DEF Complete, Waits, AlphaPackets

\* From the last packet sent to the first that waits.
LEMMA SettledOpens ==
  ASSUME NEW info, ProperInfo(info), Complete(info), NEW sent \in Seq(Packets), Increasing(sent),
         NEW past, past \subseteq Nat, Tidy(info, sent), Settled(info, sent, past),
         info.seq_counts.alpha # <<>>
  PROVE  Open(info, past)
<1> DEFINE last == sent[Len(sent)]
           alpha == ToSet(info.seq_counts.alpha)
<1>1. /\ last \in ToSet(sent) /\ last.number \in Nat /\ last.seqcount \in Nat
      /\ info.lastSeqCountSent = last.seqcount
  <2>1. last \in ToSet(sent) /\ last \in Packets /\ info.lastSeqCountSent = last.seqcount
    BY LastGreatest DEF Settled
  <2>. HIDE DEF last
  <2>2. last.number \in Nat /\ last.seqcount \in SeqCounts
    BY <2>1 DEF Packets
  <2>3. QED  BY <2>1, <2>2, Counts
<1>2. \A c \in alpha : c \in Nat /\ last.seqcount < c
  <2>1. \A p \in AlphaPackets(info) : p.seqcount \in Nat /\ last.seqcount < p.seqcount
    BY AlphaTyped DEF Settled
  <2>2. \A c \in alpha : \E p \in AlphaPackets(info) : p.seqcount = c
    BY AlphaComplete
  <2>. HIDE DEF last, alpha
  <2>3. QED  BY <2>1, <2>2
<1>3. \E c \in alpha : TRUE
  <2>1. info.seq_counts.alpha \in Seq(SeqCounts)
    BY DEF ProperInfo, ProperList, Lists
  <2>2. Len(info.seq_counts.alpha) \in Nat \ {0} /\ 1 \in DOMAIN info.seq_counts.alpha
    BY <2>1, EmptySeq, LenProperties
  <2>3. QED  BY <2>2 DEF ToSet
<1>4. info.seq_counts.has_beta => HighWaits(info)
  <2>1. beta_value \in Nat
    BY Counts
  <2>2. beta_value <= last.seqcount => HighWaits(info)
    BY <1>1, <1>2, <1>3, <2>1 DEF HighWaits
  <2>3. QED  BY <1>1, <2>2 DEF Settled
<1>5. info.seq_counts.beta # <<>> => \A c \in alpha : beta_value < c
  <2>1. beta_value \in Nat
    BY Counts
  <2>2. info.seq_counts.beta # <<>> => beta_value < last.seqcount
    BY <1>1 DEF Settled
  <2>. HIDE DEF last, alpha
  <2>3. QED  BY <1>1, <1>2, <2>1, <2>2
<1>6. ASSUME NEW p \in AlphaPackets(info), NEW n \in past
      PROVE  n <= p.number
  <2>1. n \in Nat /\ p.number \in Nat /\ n <= last.number /\ last.number < p.number
    BY <1>1, AlphaTyped DEF Settled, Tidy
  <2>. HIDE DEF last
  <2>2. QED  BY <1>1, <2>1
<1>7. QED  BY <1>4, <1>5, <1>6 DEF Open

\* Sending the first that waits.
LEMMA EmitOrder ==
  ASSUME TypeInv, Complete(apid_info), Increasing(emitted), Tidy(apid_info, emitted),
         ready_for_emit(apid_info)
  PROVE  LET new == EmitNext(apid_info)
             sent == emitted \o NextPackets(apid_info)
         IN  /\ Increasing(sent) /\ Tidy(new, sent)
             /\ AlphaPackets(new) \subseteq AlphaPackets(apid_info)
             /\ ToSet(sent) \subseteq ToSet(emitted) \cup AlphaPackets(apid_info)
             /\ new.has_sent = apid_info.has_sent
             /\ \/ new = apid_info /\ sent = emitted
                \/ Open(apid_info, resets) => Settled(new, sent, resets)
<1> DEFINE new == EmitNext(apid_info)
           sent == emitted \o NextPackets(apid_info)
           list == apid_info.seq_counts
           next == get_next_value(list)
           left == Listed(Tail(list.alpha), list.beta, list.has_beta)
<1>1. CASE new = apid_info /\ sent = emitted
  BY <1>1
<1>2. ASSUME NEW p \in apid_info.packet_dict,
             p.seqcount = next, sent = emitted \o <<p>>,
             new.has_sent = apid_info.has_sent, new.lastSeqCountSent = next,
             new.seq_counts = left,
             new.packet_dict = {r \in apid_info.packet_dict : r.seqcount # next}
      PROVE  /\ Increasing(sent) /\ Tidy(new, sent)
             /\ AlphaPackets(new) \subseteq AlphaPackets(apid_info)
             /\ ToSet(sent) \subseteq ToSet(emitted) \cup AlphaPackets(apid_info)
             /\ new.has_sent = apid_info.has_sent
             /\ Open(apid_info, resets) => Settled(new, sent, resets)
  <2>1. /\ list.alpha \in Seq(SeqCounts) /\ list.alpha # <<>> /\ next = Head(list.alpha)
        /\ ProperInfo(apid_info) /\ emitted \in Seq(Packets)
    BY NextIs DEF TypeInv, ProperInfo, ProperList, Lists, ready_for_emit, HasNext
  <2>2. Strict(list.alpha)
    BY DEF Complete, StrictLists
  <2>3. /\ ToSet(Tail(list.alpha)) = ToSet(list.alpha) \ {next} /\ next \in ToSet(list.alpha)
        /\ \A c \in ToSet(Tail(list.alpha)) : next < c
    BY <2>1, <2>2, TailStrict
  <2>4. /\ left.alpha = Tail(list.alpha) /\ left.beta = list.beta /\ left.has_beta = list.has_beta
    BY DEF Listed
  <2>. HIDE DEF new, sent, next, left
  <2>5. /\ p \in AlphaPackets(apid_info) /\ p \in Packets /\ p.number \in Nat /\ next \in Nat
    BY <1>2, <2>1, <2>3, AlphaTyped DEF AlphaPackets
  <2>6. \A q \in AlphaPackets(new) :
          /\ q \in AlphaPackets(apid_info) /\ q.number \in Nat /\ q.seqcount \in Nat
          /\ next < q.seqcount
    BY <1>2, <2>1, <2>3, <2>4, AlphaTyped DEF AlphaPackets
  <2>7. \A q \in AlphaPackets(new) : OneCycle(q, p) /\ p.number < q.number
    <3>1. ASSUME NEW q \in AlphaPackets(new)
          PROVE  OneCycle(q, p) /\ p.number < q.number
      <4>1. OneCycle(q, p)
        BY <2>5, <2>6 DEF Tidy
      <4>2. q.number - q.seqcount = p.number - next
        BY <1>2, <4>1 DEF OneCycle
      <4>3. q.number \in Nat /\ q.seqcount \in Nat /\ next < q.seqcount
        BY <2>6
      <4>4. QED  BY <2>5, <4>1, <4>2, <4>3
    <3>2. QED  BY <3>1
  <2>8. \A e \in ToSet(emitted) : e.number < p.number
    BY <2>5 DEF Tidy
  <2>9. /\ Increasing(sent) /\ ToSet(sent) = ToSet(emitted) \cup {p}
        /\ sent # <<>> /\ sent[Len(sent)] = p
    <3>1. /\ ToSet(emitted \o <<p>>) = ToSet(emitted) \cup {p}
          /\ Len(emitted \o <<p>>) = Len(emitted) + 1
          /\ (emitted \o <<p>>)[Len(emitted) + 1] = p
      BY <2>1, <2>5, ToSetAppend
    <3>2. Increasing(emitted \o <<p>>)
      BY <2>1, <2>5, <2>8, IncreasingAppend
    <3>3. emitted \o <<p>> # <<>>
      <4>1. Len(emitted) \in Nat
        BY <2>1, LenProperties
      <4>2. Len(emitted \o <<p>>) # 0
        BY <3>1, <4>1
      <4>3. QED  BY <4>2
    <3>4. QED  BY <1>2, <3>1, <3>2, <3>3
  <2>10. HighWaits(new) => HighWaits(apid_info)
    BY <1>2, <2>3, <2>4 DEF HighWaits, list
  <2>11. Tidy(new, sent)
    <3>1. \A e \in ToSet(sent), q \in AlphaPackets(new) : e.number < q.number
      BY <2>6, <2>7, <2>9 DEF Tidy
    <3>2. \A q, r \in AlphaPackets(new) : OneCycle(q, r)
      BY <2>6 DEF Tidy
    <3>3. HighWaits(new) => new.seq_counts.has_beta
      BY <1>2, <2>4, <2>10 DEF Tidy, list
    <3>4. QED  BY <3>1, <3>2, <3>3 DEF Tidy
  <2>12. ASSUME Open(apid_info, resets)
         PROVE  Settled(new, sent, resets)
    <3>1. \A n \in resets : n <= p.number
      BY <2>5, <2>12 DEF Open
    <3>2. beta_value < next => new.seq_counts.has_beta
      <4>1. beta_value < next => HighWaits(apid_info)
        BY <2>3, <2>5, Counts DEF HighWaits, list
      <4>2. QED  BY <1>2, <2>4, <4>1 DEF Tidy, list
    <3>3. new.seq_counts.has_beta => beta_value <= next \/ HighWaits(new)
      <4>1. HighWaits(apid_info) => beta_value <= next \/ HighWaits(new)
        BY <1>2, <2>3, <2>4 DEF HighWaits, list
      <4>2. QED  BY <1>2, <2>4, <2>12, <4>1 DEF Open, list
    <3>4. new.seq_counts.beta # <<>> => beta_value < next
      BY <1>2, <2>3, <2>4, <2>12 DEF Open, list
    <3>5. QED  BY <1>2, <2>6, <2>7, <2>9, <3>1, <3>2, <3>3, <3>4 DEF Settled
  <2>13. QED  BY <1>2, <2>5, <2>6, <2>9, <2>11, <2>12
<1>3. QED
  <2>1. \/ new = apid_info /\ sent = emitted
        \/ \E p \in apid_info.packet_dict :
             /\ p.seqcount = next /\ sent = emitted \o <<p>>
             /\ new.has_sent = apid_info.has_sent /\ new.lastSeqCountSent = next
             /\ new.seq_counts = left
             /\ new.packet_dict = {r \in apid_info.packet_dict : r.seqcount # next}
    BY EmitMoves
  <2>. HIDE DEF next, left
  <2>2. QED  BY <1>1, <1>2, <2>1

\* Less than once around: no remainder, or one turn.
LEMMA OnceAround ==
  ASSUME NEW s \in SeqCounts, NEW d \in Nat, d < Modulo
  PROVE  mod(s + d) = IF s + d < Modulo THEN s + d ELSE (s + d) - Modulo
<1>1. Modulo \in Nat \ {0} /\ s \in 0 .. Modulo - 1
  BY Counts DEF SeqCounts
<1>2. CASE s + d < Modulo
  <2>1. s + d = Modulo * 0 + (s + d) /\ s + d \in 0 .. Modulo - 1
    BY <1>1, <1>2
  <2>2. (s + d) % Modulo = s + d
    BY <1>1, <2>1, ModIs
  <2>3. QED  BY <1>2, <2>2 DEF mod
<1>3. CASE ~(s + d < Modulo)
  <2>1. s + d = Modulo * 1 + ((s + d) - Modulo) /\ (s + d) - Modulo \in 0 .. Modulo - 1
    BY <1>1, <1>3
  <2>2. (s + d) % Modulo = (s + d) - Modulo
    BY <1>1, <2>1, ModIs
  <2>3. QED  BY <1>3, <2>2 DEF mod
<1>4. QED  BY <1>2, <1>3

\* A count is not passed over when it is greater than the last, or the first of a new cycle. A
\* packet that is not passed over is then later than the last, if packets overtake each other by
\* less than a third of the modulus.
LEMMA NotSkippedLater ==
  ASSUME Window <= alpha_value, NEW p, NEW q, p.number \in Nat, q.number \in Nat,
         p.seqcount \in SeqCounts, q.seqcount \in SeqCounts,
         p.number # q.number, p.number - q.number < Modulo, q.number - p.number < Modulo,
         p.number < q.number + Window,
         p.number <= q.number => Counted(p, q), q.number <= p.number => Counted(q, p),
         NEW info, info.lastSeqCountSent = p.seqcount, max_gap # 0,
         ~should_skip_packet(info, q.seqcount)
  PROVE  \/ p.seqcount < q.seqcount /\ OneCycle(p, q)
         \/ beta_value < p.seqcount /\ q.seqcount < alpha_value /\ p.number < q.number
<1> DEFINE m == p.number
           n == q.number
           l == p.seqcount
           c == q.seqcount
<1>1. /\ Modulo \in Nat \ {0} /\ alpha_value \in Nat \ {0} /\ beta_value = 2 * alpha_value
      /\ beta_value + alpha_value <= Modulo
      /\ m \in Nat /\ n \in Nat /\ l \in 0 .. Modulo - 1 /\ c \in 0 .. Modulo - 1
      /\ m # n /\ m - n < Modulo /\ n - m < Modulo /\ m < n + Window
      /\ Window \in Nat
  BY Counts, PacketBoundsAssumption DEF SeqCounts, beta_value
<1>2. /\ ~(l < alpha_value /\ c > beta_value)
      /\ (l > beta_value /\ c < alpha_value) \/ ~(c < l)
  BY DEF should_skip_packet
<1>3. m <= n => c = mod(l + (n - m))
  BY DEF Counted
<1>4. n <= m => l = mod(c + (m - n))
  BY DEF Counted
<1>5. l \in SeqCounts /\ c \in SeqCounts
  OBVIOUS
<1>6. OneCycle(p, q) <=> m - l = n - c
  BY DEF OneCycle
<1>7. (l < c /\ m - l = n - c) \/ (beta_value < l /\ c < alpha_value /\ m < n)
  <2>. HIDE DEF m, n, l, c
  <2>1. CASE m < n
    <3>1. n - m \in Nat /\ n - m < Modulo
      BY <1>1, <2>1
    <3>2. c = IF l + (n - m) < Modulo THEN l + (n - m) ELSE (l + (n - m)) - Modulo
      BY <1>3, <1>5, <2>1, <3>1, OnceAround, <1>1
    <3>3. QED  BY <1>1, <1>2, <2>1, <3>2
  <2>2. CASE n < m
    <3>1. m - n \in Nat /\ m - n < Modulo /\ m - n < alpha_value
      BY <1>1, <2>2
    <3>2. l = IF c + (m - n) < Modulo THEN c + (m - n) ELSE (c + (m - n)) - Modulo
      <4>1. l = mod(c + (m - n))
        BY <1>1, <1>4, <2>2
      <4>2. QED  BY <1>1, <1>5, <3>1, <4>1, OnceAround
    <3>3. CASE c + (m - n) < Modulo
      <4>1. l = c + (m - n)
        BY <3>2, <3>3
      <4>2. c < l
        BY <1>1, <2>2, <4>1
      <4>3. QED  BY <1>1, <1>2, <3>1, <4>1, <4>2
    <3>4. CASE ~(c + (m - n) < Modulo)
      <4>1. l = (c + (m - n)) - Modulo
        BY <3>2, <3>4
      <4>2. l < alpha_value /\ c > beta_value
        BY <1>1, <2>2, <3>1, <4>1
      <4>3. QED  BY <1>2, <4>2
    <3>5. QED  BY <3>3, <3>4
  <2>3. QED  BY <1>1, <2>1, <2>2
<1>8. QED  BY <1>6, <1>7 DEF m, n, l, c

\* The first packet is not passed over.
LEMMA FirstNotSkipped ==
  ASSUME Modulo > 3, NEW info, NEW c \in SeqCounts, info.lastSeqCountSent = Previous(c)
  PROVE  ~should_skip_packet(info, c)
<1>1. /\ Modulo \in Nat \ {0} /\ alpha_value \in Nat \ {0} /\ beta_value = 2 * alpha_value
      /\ c \in 0 .. Modulo - 1
  BY Counts DEF SeqCounts, beta_value
<1>2. beta_value < Modulo - 1
  BY <1>1 DEF alpha_value
<1>3. info.lastSeqCountSent = IF c = 0 THEN Modulo - 1 ELSE c - 1
  BY PreviousIs
<1>4. CASE c = 0
  BY <1>1, <1>2, <1>3, <1>4 DEF should_skip_packet
<1>5. CASE c # 0
  BY <1>1, <1>3, <1>5 DEF should_skip_packet
<1>6. QED  BY <1>4, <1>5

\* What storing a packet changes, when its count is the first of a new cycle: only what waits
\* beyond.
LEMMA StoreBeyond ==
  ASSUME NEW info, ProperInfo(info), NEW packet \in Packets,
         packet.seqcount \notin Waits(info.seq_counts),
         NEW sent, NEW past, Tidy(info, sent), Settled(info, sent, past),
         beta_value < info.lastSeqCountSent, packet.seqcount < alpha_value
  PROVE  LET new == store(info, packet)
         IN  Tidy(new, sent) /\ Settled(new, sent, past)
<1> DEFINE new == store(info, packet)
           c == packet.seqcount
           list == info.seq_counts
<1>1. /\ new.lastSeqCountSent = info.lastSeqCountSent
      /\ new.seq_counts = add_value(list, c)
      /\ new.packet_dict = {p \in info.packet_dict : p.seqcount # c} \cup {packet}
  BY StoreEffect
<1>2. list.has_beta /\ c < alpha_value /\ ProperList(list) /\ c \in SeqCounts
  BY DEF Settled, ProperInfo, Packets
<1>3. ~(alpha_value <= c) /\ ~(beta_value <= c)
  <2>1. c \in Nat /\ alpha_value \in Nat /\ beta_value = 2 * alpha_value
    BY <1>2, Counts DEF beta_value
  <2>. HIDE DEF c
  <2>2. QED  BY <1>2, <2>1
<1>4. new.seq_counts.alpha = list.alpha /\ new.seq_counts.has_beta /\ list.has_beta
  <2>. HIDE DEF new, c, list
  <2>1. new.seq_counts = Listed(list.alpha, Inserted(list.beta, c), TRUE)
    BY <1>1, <1>2, <1>3, AddValueIs, Zenon
  <2>2. QED  BY <1>2, <2>1 DEF Listed
<1>5. c \notin ToSet(list.alpha)
  BY DEF Waits
<1>. HIDE DEF new
<1>6. AlphaPackets(new) \subseteq AlphaPackets(info)
  BY <1>1, <1>4, <1>5 DEF AlphaPackets
<1>7. HighWaits(new) = HighWaits(info)
  BY <1>4 DEF HighWaits
<1>8. Tidy(new, sent)
  BY <1>4, <1>6, <1>7 DEF Tidy
<1>9. Settled(new, sent, past)
  BY <1>1, <1>4, <1>6, <1>7 DEF Settled
<1>10. QED  BY <1>8, <1>9 DEF new

\* A count that is greater than the last joins the alpha list, for what is there cannot be far
\* ahead of it.
LEMMA LaterToAlpha ==
  ASSUME Window <= alpha_value, NEW info, ProperInfo(info), Complete(info),
         NEW packet \in Packets, NEW sent, NEW past, Tidy(info, sent), Settled(info, sent, past),
         info.lastSeqCountSent < packet.seqcount, OneCycle(packet, sent[Len(sent)]),
         \A q \in AlphaPackets(info) : q.number < packet.number + Window
  PROVE  LET new == add_value(info.seq_counts, packet.seqcount)
         IN  /\ packet.seqcount \in ToSet(new.alpha)
             /\ ToSet(new.alpha) \subseteq ToSet(info.seq_counts.alpha) \cup {packet.seqcount}
             /\ \/ /\ packet.seqcount < beta_value /\ ~new.has_beta /\ new.beta = <<>>
                   /\ HighWaits(info) => ToSet(new.alpha) = {packet.seqcount}
                \/ /\ beta_value <= packet.seqcount /\ new.has_beta
                   /\ new.beta = info.seq_counts.beta
                   /\ ToSet(info.seq_counts.alpha) \subseteq ToSet(new.alpha)
<1> DEFINE c == packet.seqcount
           list == info.seq_counts
           new == add_value(list, c)
           last == sent[Len(sent)]
           l == info.lastSeqCountSent
<1>1. /\ ProperList(list) /\ list.alpha \in Seq(SeqCounts) /\ Sorted(list.alpha)
      /\ list.beta \in Seq(SeqCounts) /\ Sorted(list.beta) /\ list.has_beta \in BOOLEAN
      /\ c \in SeqCounts /\ c \in Nat /\ packet.number \in Nat
  <2>1. /\ ProperList(list) /\ list.alpha \in Seq(SeqCounts) /\ Sorted(list.alpha)
        /\ list.beta \in Seq(SeqCounts) /\ Sorted(list.beta) /\ list.has_beta \in BOOLEAN
    BY DEF ProperInfo, ProperList, Lists
  <2>2. c \in SeqCounts /\ packet.number \in Nat
    BY DEF Packets
  <2>3. QED  BY <2>1, <2>2, Counts
<1>2. /\ alpha_value \in Nat \ {0} /\ beta_value = 2 * alpha_value /\ Window \in Nat
      /\ l \in Nat /\ l < c
  BY AlphaTyped, Counts, PacketBoundsAssumption DEF beta_value
<1>3. ToSet(<<>>) = {}
  BY DEF ToSet
<1>4. /\ ToSet(Inserted(list.alpha, c)) = ToSet(list.alpha) \cup {c}
      /\ ToSet(Inserted(list.beta, c)) = ToSet(list.beta) \cup {c}
  BY <1>1, InsertedSorted
<1> DEFINE moved == IF list.has_beta THEN list.beta ELSE list.alpha
<1>10. \/ c < alpha_value /\ list.has_beta
       \/ c < alpha_value /\ new = Listed(Inserted(list.alpha, c), <<>>, FALSE)
       \/ /\ alpha_value <= c /\ c < beta_value
          /\ new = Listed(Inserted(moved, c), <<>>, FALSE)
       \/ beta_value <= c /\ new = Listed(Inserted(list.alpha, c), list.beta, TRUE)
  <2>. HIDE DEF c, list
  <2>1. QED  BY <1>1, AddValueIs
<1>5. CASE c < alpha_value
  <2>1. ~HighWaits(info)
    <3>1. SUFFICES ASSUME HighWaits(info) PROVE FALSE
      OBVIOUS
    <3>2. PICK q \in AlphaPackets(info) : beta_value <= q.seqcount
      BY <3>1, AlphaComplete DEF HighWaits
    <3>3. /\ q.number - q.seqcount = packet.number - c
          /\ q.number < packet.number + Window
      BY DEF Settled, OneCycle
    <3>4. q.number \in Nat /\ q.seqcount \in Nat
      BY AlphaTyped
    <3>. HIDE DEF c
    <3>5. QED  BY <1>1, <1>2, <1>5, <3>2, <3>3, <3>4
  <2>2. ~list.has_beta
    <3>1. list.has_beta => beta_value <= l
      BY <2>1 DEF Settled
    <3>. HIDE DEF c, list, l
    <3>2. QED  BY <1>1, <1>2, <1>5, <3>1
  <2>. HIDE DEF c, list, new, moved
  <2>3. new = Listed(Inserted(list.alpha, c), <<>>, FALSE)
    <3>1. ~(alpha_value <= c) /\ ~(beta_value <= c)
      BY <1>1, <1>2, <1>5
    <3>2. QED  BY <1>10, <2>2, <3>1, Zenon
  <2>4. new.alpha = Inserted(list.alpha, c) /\ ~new.has_beta /\ new.beta = <<>>
    BY <2>3 DEF Listed
  <2>5. c < beta_value
    BY <1>1, <1>2, <1>5
  <2>6. QED  BY <1>4, <2>1, <2>4, <2>5 DEF c, list, new
<1>6. CASE alpha_value <= c /\ c < beta_value
  <2>2. list.has_beta => list.beta = <<>>
    <3>1. list.beta # <<>> => beta_value < l
      BY DEF Settled
    <3>. HIDE DEF c, list, l
    <3>2. QED  BY <1>1, <1>2, <1>6, <3>1
  <2>3. HighWaits(info) => list.has_beta
    BY DEF Tidy
  <2>4. IF list.has_beta THEN moved = list.beta ELSE moved = list.alpha
    OBVIOUS
  <2>. HIDE DEF c, list, new, moved
  <2>1. new = Listed(Inserted(moved, c), <<>>, FALSE)
    <3>1. ~(c < alpha_value) /\ ~(beta_value <= c)
      BY <1>1, <1>2, <1>6
    <3>2. QED  BY <1>10, <3>1, Zenon
  <2>5. new.alpha = Inserted(moved, c) /\ ~new.has_beta /\ new.beta = <<>>
    BY <2>1 DEF Listed
  <2>6. /\ ToSet(new.alpha) = {c} \/ (~list.has_beta /\ ToSet(new.alpha) = ToSet(list.alpha) \cup {c})
    BY <1>3, <1>4, <2>2, <2>4, <2>5
  <2>7. QED  BY <1>6, <2>3, <2>5, <2>6 DEF c, list, new
<1>7. CASE beta_value <= c
  <2>. HIDE DEF c, list, new, moved
  <2>1. new = Listed(Inserted(list.alpha, c), list.beta, TRUE)
    <3>1. ~(c < alpha_value) /\ ~(c < beta_value)
      BY <1>1, <1>2, <1>7
    <3>2. QED  BY <1>10, <3>1, Zenon
  <2>2. new.alpha = Inserted(list.alpha, c) /\ new.has_beta /\ new.beta = list.beta
    BY <2>1 DEF Listed
  <2>3. QED  BY <1>4, <1>7, <2>2 DEF c, list, new
<1>8. c < alpha_value \/ (alpha_value <= c /\ c < beta_value) \/ beta_value <= c
  <2>. HIDE DEF c
  <2>1. QED  BY <1>1, <1>2
<1>9. QED  BY ONLY <1>5, <1>6, <1>7, <1>8

\* What storing its packet changes.
LEMMA StoreLater ==
  ASSUME Window <= alpha_value, NEW info, ProperInfo(info), Complete(info),
         NEW packet \in Packets, NEW sent \in Seq(Packets), Increasing(sent),
         NEW past, Tidy(info, sent), Settled(info, sent, past),
         info.lastSeqCountSent < packet.seqcount, OneCycle(packet, sent[Len(sent)]),
         \A q \in AlphaPackets(info) : q.number < packet.number + Window
  PROVE  LET new == store(info, packet)
         IN  Tidy(new, sent) /\ Settled(new, sent, past)
<1> DEFINE new == store(info, packet)
           c == packet.seqcount
           last == sent[Len(sent)]
<1>1. /\ new.lastSeqCountSent = info.lastSeqCountSent
      /\ new.seq_counts = add_value(info.seq_counts, c)
      /\ new.packet_dict = {p \in info.packet_dict : p.seqcount # c} \cup {packet}
  BY StoreEffect
<1>. HIDE DEF new
<1>2. /\ c \in ToSet(new.seq_counts.alpha)
      /\ ToSet(new.seq_counts.alpha) \subseteq ToSet(info.seq_counts.alpha) \cup {c}
      /\ \/ /\ c < beta_value /\ ~new.seq_counts.has_beta /\ new.seq_counts.beta = <<>>
            /\ HighWaits(info) => ToSet(new.seq_counts.alpha) = {c}
         \/ /\ beta_value <= c /\ new.seq_counts.has_beta
            /\ new.seq_counts.beta = info.seq_counts.beta
            /\ ToSet(info.seq_counts.alpha) \subseteq ToSet(new.seq_counts.alpha)
  <2> DEFINE added == add_value(info.seq_counts, c)
  <2>1. new.seq_counts = added
    BY <1>1
  <2>2. /\ c \in ToSet(added.alpha)
        /\ ToSet(added.alpha) \subseteq ToSet(info.seq_counts.alpha) \cup {c}
        /\ \/ /\ c < beta_value /\ ~added.has_beta /\ added.beta = <<>>
              /\ HighWaits(info) => ToSet(added.alpha) = {c}
           \/ /\ beta_value <= c /\ added.has_beta
              /\ added.beta = info.seq_counts.beta
              /\ ToSet(info.seq_counts.alpha) \subseteq ToSet(added.alpha)
    BY LaterToAlpha
  <2>. HIDE DEF added
  <2>3. QED  BY <2>1, <2>2
<1>3. AlphaPackets(new) \subseteq AlphaPackets(info) \cup {packet}
  BY <1>1, <1>2 DEF AlphaPackets
<1>4. /\ sent # <<>> /\ last \in ToSet(sent) /\ last \in Packets
      /\ \A e \in ToSet(sent) : e.number <= last.number
  BY LastGreatest DEF Settled
<1>5. /\ packet.number \in Nat /\ c \in Nat /\ last.number \in Nat /\ last.seqcount \in Nat
      /\ \A e \in ToSet(sent) : e.number \in Nat
      /\ alpha_value \in Nat \ {0} /\ beta_value \in Nat
      /\ info.lastSeqCountSent = last.seqcount /\ last.seqcount < c
      /\ OneCycle(packet, last)
  <2>1. \A p \in Packets : p.number \in Nat /\ p.seqcount \in Nat
    <3>1. \A p \in Packets : p.number \in Nat /\ p.seqcount \in SeqCounts
      BY DEF Packets
    <3>2. QED  BY <3>1, Counts
  <2>2. ToSet(sent) \subseteq Packets
    BY ElementOfSeq DEF ToSet
  <2>3. info.lastSeqCountSent = last.seqcount
    BY DEF Settled
  <2>. HIDE DEF last
  <2>4. QED  BY <1>4, <2>1, <2>2, <2>3, Counts DEF last
<1>6. \A p \in AlphaPackets(info) : last.seqcount < p.seqcount /\ OneCycle(p, last)
  BY DEF Settled
<1>7. last.number < packet.number
  <2>. HIDE DEF last, c
  <2>1. QED  BY <1>5 DEF OneCycle, c
<1>8. \A p \in AlphaPackets(new) : last.seqcount < p.seqcount /\ OneCycle(p, last)
  BY <1>3, <1>5, <1>6
<1>9. HighWaits(new) => new.seq_counts.has_beta
  <2>1. ASSUME HighWaits(new), ~new.seq_counts.has_beta
        PROVE  FALSE
    <3>1. PICK h \in ToSet(new.seq_counts.alpha) : beta_value <= h
      BY <2>1 DEF HighWaits
    <3>2. c < beta_value /\ (HighWaits(info) => ToSet(new.seq_counts.alpha) = {c})
      BY <1>2, <2>1
    <3>3. h # c
      BY <1>5, <3>1, <3>2
    <3>4. h \in ToSet(info.seq_counts.alpha)
      BY <1>2, <3>1, <3>3
    <3>5. HighWaits(info)
      BY <3>1, <3>4 DEF HighWaits
    <3>6. QED  BY <3>1, <3>2, <3>3, <3>5
  <2>2. QED  BY <2>1
<1>10. Tidy(new, sent)
  <2>1. \A e \in ToSet(sent), p \in AlphaPackets(new) : e.number < p.number
    <3>1. ASSUME NEW e \in ToSet(sent), NEW p \in AlphaPackets(new)
          PROVE  e.number < p.number
      <4>1. CASE p = packet
        <5>1. e.number <= last.number /\ last.number < p.number
          BY <1>4, <1>7, <4>1
        <5>2. QED  BY <1>5, <4>1, <5>1
      <4>2. CASE p \in AlphaPackets(info)
        BY <4>2 DEF Tidy
      <4>3. QED  BY <1>3, <4>1, <4>2
    <3>2. QED  BY <3>1
  <2>2. \A p, q \in AlphaPackets(new) : OneCycle(p, q)
    BY <1>8 DEF OneCycle
  <2>3. QED  BY <1>9, <2>1, <2>2 DEF Tidy
<1>11. Settled(new, sent, past)
  <2>1. beta_value < last.seqcount => new.seq_counts.has_beta
    BY <1>2, <1>5
  <2>2. new.seq_counts.has_beta => HighWaits(new)
    BY <1>2 DEF HighWaits
  <2>3. new.seq_counts.beta # <<>> => beta_value < last.seqcount
    BY <1>2, <1>5 DEF Settled
  <2>4. \A n \in past : n <= last.number
    BY DEF Settled
  <2>5. QED  BY <1>1, <1>4, <1>5, <1>8, <2>1, <2>2, <2>3, <2>4 DEF Settled
<1>12. QED  BY <1>10, <1>11 DEF new

\* The first packet, or the first after all that waited was sent.
LEMMA StoreFirst ==
  ASSUME NEW info, ProperInfo(info), info.seq_counts = EmptyList, NEW packet \in Packets
  PROVE  LET new == store(info, packet)
         IN  /\ HasNext(new.seq_counts) /\ get_next_value(new.seq_counts) = packet.seqcount
             /\ AlphaPackets(new) = {packet}
             /\ new.seq_counts.beta = <<>>
             /\ new.seq_counts.has_beta <=> HighWaits(new)
<1> DEFINE new == store(info, packet)
           c == packet.seqcount
           one == Inserted(<<>>, c)
<1>1. /\ new.seq_counts = add_value(EmptyList, c)
      /\ new.packet_dict = {p \in info.packet_dict : p.seqcount # c} \cup {packet}
      /\ c \in SeqCounts /\ ProperList(EmptyList)
  BY StoreEffect DEF ProperInfo, Packets
<1>2. one \in Seq(SeqCounts) /\ Len(one) = 1 /\ one[1] = c /\ ToSet(one) = {c}
  <2> DEFINE e == <<>>
  <2>1. e \in Seq(SeqCounts) /\ Len(e) = 0 /\ Sorted(e) /\ ToSet(e) = {}
    BY DEF Sorted, ToSet
  <2>2. one = Inserted(e, c) /\ c \in SeqCounts
    BY <1>1
  <2>. HIDE DEF new, c, e, one
  <2>3. /\ Inserted(e, c) \in Seq(SeqCounts) /\ Len(Inserted(e, c)) = Len(e) + 1
        /\ \A i \in 1 .. Len(e) + 1 :
             Inserted(e, c)[i] = IF i <= Below(e, c) THEN e[i]
                                 ELSE IF i = Below(e, c) + 1 THEN c ELSE e[i - 1]
    BY <2>1, <2>2, InsertedIs
  <2>4. ToSet(Inserted(e, c)) = ToSet(e) \cup {c}
    BY <2>1, <2>2, InsertedSorted
  <2>5. Below(e, c) = 0
    <3>1. Below(e, c) \in 0 .. Len(e)
      BY <2>1, <2>2, BelowSplits
    <3>2. QED  BY <2>1, <3>1
  <2>6. Inserted(e, c)[1] = c
    BY <2>1, <2>3, <2>5
  <2>7. QED  BY <2>1, <2>2, <2>3, <2>4, <2>6
<1>3. one # <<>> /\ Head(one) = c
  <2>. HIDE DEF one
  <2>1. one # <<>>
    BY <1>2, EmptySeq
  <2>2. Head(one) = one[1]
    BY <1>2, <2>1
  <2>3. QED  BY <1>2, <2>1, <2>2
<1>4. c \in Nat /\ alpha_value \in Nat \ {0} /\ beta_value = 2 * alpha_value
  BY <1>1, Counts DEF beta_value
<1>. HIDE DEF new, c, one
<1>5. \/ new.seq_counts = Listed(one, <<>>, FALSE) /\ ~(beta_value <= c)
      \/ new.seq_counts = Listed(one, <<>>, TRUE) /\ beta_value <= c
  <2>1. EmptyList.alpha = <<>> /\ EmptyList.beta = <<>> /\ EmptyList.has_beta = FALSE
    BY DEF EmptyList
  <2>2. \/ c < alpha_value /\ new.seq_counts = Listed(one, <<>>, FALSE)
        \/ c < beta_value /\ new.seq_counts = Listed(one, <<>>, FALSE)
        \/ beta_value <= c /\ new.seq_counts = Listed(one, <<>>, TRUE)
    <3>1. (IF EmptyList.has_beta THEN EmptyList.beta ELSE EmptyList.alpha) = <<>>
      BY <2>1
    <3>2. \/ c < alpha_value /\ EmptyList.has_beta
          \/ c < alpha_value /\ new.seq_counts = Listed(Inserted(EmptyList.alpha, c), <<>>, FALSE)
          \/ /\ c < beta_value
             /\ new.seq_counts = Listed(Inserted(IF EmptyList.has_beta THEN EmptyList.beta
                                                 ELSE EmptyList.alpha, c), <<>>, FALSE)
          \/ /\ beta_value <= c
             /\ new.seq_counts = Listed(Inserted(EmptyList.alpha, c), EmptyList.beta, TRUE)
      BY <1>1, AddValueIs, Zenon
    <3>3. QED  BY <2>1, <3>1, <3>2 DEF one
  <2>3. (c < alpha_value => ~(beta_value <= c)) /\ (c < beta_value => ~(beta_value <= c))
    BY <1>4
  <2>4. QED  BY <2>2, <2>3, Zenon
<1>6. /\ new.seq_counts.alpha = one /\ new.seq_counts.beta = <<>>
      /\ new.seq_counts.has_beta <=> beta_value <= c
  BY <1>5 DEF Listed
<1>7. AlphaPackets(new) = {packet}
  BY <1>1, <1>2, <1>6 DEF AlphaPackets, c
<1>8. HighWaits(new) <=> beta_value <= c
  BY <1>2, <1>6 DEF HighWaits
<1>9. HasNext(new.seq_counts) /\ get_next_value(new.seq_counts) = c
  BY <1>3, <1>6 DEF HasNext, get_next_value
<1>10. QED  BY <1>6, <1>7, <1>8, <1>9 DEF new, c

\* What does not depend on the last count.
LEMMA SameOrder ==
  ASSUME NEW new, NEW info, SameButLast(new, info), NEW sent, NEW past
  PROVE  /\ Tidy(new, sent) = Tidy(info, sent) /\ Open(new, past) = Open(info, past)
         /\ AlphaPackets(new) = AlphaPackets(info)
BY DEF SameButLast, Tidy, Open, AlphaPackets, HighWaits

\* A full queue is opened.
LEMMA CheckGapOrder ==
  ASSUME NEW info, ProperInfo(info), max_gap \in Nat, NEW sent, NEW past, Tidy(info, sent),
         info.seq_counts.alpha # <<>> => Open(info, past),
         Settled(info, sent, past) \/ Due(info, past)
  PROVE  LET new == check_gap(info)
         IN  Tidy(new, sent) /\ (Settled(new, sent, past) \/ Due(new, past))
<1> DEFINE new == check_gap(info)
<1>1. SameButLast(new, info)
  BY CheckGapKeeps
<1>2. new = info \/ (HasNext(info.seq_counts) /\ LinedUp(new))
  <2>1. new = info \/ new = skip_to_next_available(info)
    BY DEF check_gap
  <2>2. LinedUp(skip_to_next_available(info))
    BY SkipEffect
  <2>3. ~HasNext(info.seq_counts) => skip_to_next_available(info) = info
    BY SkipEffect
  <2>4. QED  BY <2>1, <2>2, <2>3
<1>. HIDE DEF new
<1>3. Tidy(new, sent) /\ Open(new, past) = Open(info, past)
  BY <1>1, SameOrder
<1>4. HasNext(info.seq_counts) /\ LinedUp(new) => Due(new, past)
  BY <1>1, <1>3 DEF Due, HasNext, SameButLast
<1>5. QED  BY <1>2, <1>3, <1>4 DEF new

\* A packet that is not passed over is put in order.
LEMMA LaterOrder ==
  ASSUME MaxPackets <= Modulo, Window <= alpha_value,
         TypeInv, FlowInv, WayInv, WaitInv, NEW packet \in transit, NEW again \in BOOLEAN,
         Arrive(packet, again), Hopeful, Hopeful', repeats' = {}, ~IsReset(apid_info, packet),
         max_gap # 0,
         Increasing(emitted), Tidy(apid_info, emitted), Settled(apid_info, emitted, resets),
         ~should_skip_packet(apid_info, packet.seqcount)
  PROVE  LET new == check_gap(store(apid_info, packet))
         IN  Tidy(new, emitted) /\ (Settled(new, emitted, resets) \/ Due(new, resets))
<1> DEFINE last == emitted[Len(emitted)]
           stored == store(apid_info, packet)
<1>0. repeats = {} /\ Repeated(packet) = {} /\ resets' = resets
  BY ArriveFresh
<1>1. /\ packet \in Packets /\ packet \in Known /\ ProperInfo(apid_info) /\ Complete(apid_info)
      /\ emitted \in Seq(Packets) /\ max_gap \in Nat /\ resets \subseteq Nat
  BY <1>0 DEF TypeInv, Known, WaitInv
<1>2. /\ last \in ToSet(emitted) /\ last \in Packets /\ last \in Kept
      /\ apid_info.lastSeqCountSent = last.seqcount
      /\ \A n \in resets : n <= last.number
  BY <1>1, LastGreatest DEF Settled, Kept
<1>3. /\ packet.number \in 0 .. MaxPackets - 1 /\ packet.seqcount \in SeqCounts
      /\ last.number \in 0 .. MaxPackets - 1 /\ last.seqcount \in SeqCounts
  <2>. HIDE DEF last
  <2>1. QED  BY <1>1, <1>2 DEF Packets
<1>4. produced \in Nat /\ produced <= packet.number + Window
      /\ \A q \in Kept : q.number < produced /\ q.number \in Nat
  BY KnownTyped DEF TypeInv, WayInv, FlowInv, Known
<1>5. packet.number # last.number
  <2>. HIDE DEF last
  <2>1. CASE packet \in Fresh
    BY <1>2, <2>1 DEF WayInv
  <2>2. CASE packet \notin Fresh
    <3>1. packet.seqcount # last.seqcount
      BY <1>0, <1>2, <2>2 DEF Repeated, Fresh
    <3>2. QED  BY <1>1, <1>2, <3>1, NumberTells DEF Known
  <2>3. QED  BY <2>1, <2>2
<1>6. SameEra(packet.number, last.number) /\ SameEra(last.number, packet.number)
  <2>1. last \in Known
    BY <1>2 DEF Known
  <2>. HIDE DEF last
  <2>2. QED  BY <1>0, <1>2, <2>1, SameEraAs
<1>7. /\ last.number <= packet.number => Counted(last, packet)
      /\ packet.number <= last.number => Counted(packet, last)
  <2>1. last \in Known
    BY <1>2 DEF Known
  <2>. HIDE DEF last
  <2>2. QED  BY <1>1, <1>6, <2>1 DEF FlowInv
<1>8. \/ last.seqcount < packet.seqcount /\ OneCycle(last, packet)
      \/ beta_value < last.seqcount /\ packet.seqcount < alpha_value /\ last.number < packet.number
  <2>1. /\ packet.number \in Nat /\ last.number \in Nat
        /\ last.number - packet.number < Modulo /\ packet.number - last.number < Modulo
        /\ last.number < packet.number + Window
    <3>1. last.number < produced
      BY <1>2, <1>4
    <3>. HIDE DEF last
    <3>2. QED  BY <1>3, <1>4, <3>1, Counts, PacketBoundsAssumption
  <2>. HIDE DEF last
  <2>2. QED  BY <1>2, <1>3, <1>5, <1>7, <2>1, NotSkippedLater
<1>9. packet.seqcount \notin Waits(apid_info.seq_counts)
  BY <1>0, NewCount
<1>10. Tidy(stored, emitted) /\ Settled(stored, emitted, resets)
  <2>1. CASE beta_value < last.seqcount /\ packet.seqcount < alpha_value
    <3>1. beta_value < apid_info.lastSeqCountSent /\ packet.seqcount < alpha_value
      BY <1>2, <2>1
    <3>2. QED  BY <1>1, <1>9, <3>1, StoreBeyond
  <2>2. CASE last.seqcount < packet.seqcount /\ OneCycle(last, packet)
    <3>1. apid_info.lastSeqCountSent < packet.seqcount /\ OneCycle(packet, last)
      BY <1>2, <2>2 DEF OneCycle
    <3>2. \A q \in AlphaPackets(apid_info) : q.number < packet.number + Window
      <4>1. \A q \in AlphaPackets(apid_info) : q \in Kept
        BY DEF AlphaPackets, Kept
      <4>2. packet.number + Window \in Nat
        BY <1>3, PacketBoundsAssumption
      <4>3. QED  BY <1>4, <4>1, <4>2
    <3>3. QED  BY <1>1, <3>1, <3>2, StoreLater
  <2>3. QED  BY <1>8, <2>1, <2>2
<1>11. ProperInfo(stored) /\ Complete(stored)
  BY <1>1, <1>9, StoreEffect, StoreCompletes
<1>. HIDE DEF stored
<1>12. stored.seq_counts.alpha # <<>> => Open(stored, resets)
  BY <1>1, <1>10, <1>11, SettledOpens
<1>13. QED  BY <1>1, <1>10, <1>11, <1>12, CheckGapOrder DEF stored

\* The first packet is put in place.
LEMMA FirstOrder ==
  ASSUME NEW info, ProperInfo(info), info.seq_counts = EmptyList, NEW packet \in Packets,
         NEW sent, \A e \in ToSet(sent) : e.number < packet.number,
         NEW past, \A n \in past : n <= packet.number
  PROVE  LET new == store(info, packet)
         IN  /\ ProperInfo(new) /\ new.seq_counts.alpha # <<>>
             /\ Tidy(new, sent) /\ Open(new, past)
             /\ info.lastSeqCountSent = Previous(packet.seqcount) => Due(new, past)
<1> DEFINE new == store(info, packet)
<1>1. ProperInfo(new) /\ new.lastSeqCountSent = info.lastSeqCountSent
  BY StoreEffect
<1>2. /\ HasNext(new.seq_counts) /\ get_next_value(new.seq_counts) = packet.seqcount
      /\ AlphaPackets(new) = {packet}
      /\ new.seq_counts.beta = <<>>
      /\ new.seq_counts.has_beta <=> HighWaits(new)
  BY StoreFirst
<1>. HIDE DEF new
<1>3. Tidy(new, sent)
  BY <1>2 DEF Tidy, OneCycle
<1>4. Open(new, past)
  BY <1>2 DEF Open
<1>5. info.lastSeqCountSent = Previous(packet.seqcount) => Due(new, past)
  BY <1>1, <1>2, <1>4 DEF Due, LinedUp, HasNext
<1>6. QED  BY <1>1, <1>2, <1>3, <1>4, <1>5 DEF new, HasNext

\* So is every packet that arrives.
LEMMA ArriveOrder ==
  ASSUME MaxPackets <= Modulo, Window <= alpha_value, Modulo > 3,
         TypeInv, FlowInv, WayInv, WaitInv, WaitInv', OrderInv,
         NEW packet \in transit, NEW again \in BOOLEAN, Arrive(packet, again),
         Hopeful, Hopeful', repeats = {}, repeats' = {}, max_gap # 0
  PROVE  OrderInv'
<1>1. /\ packet \in Packets /\ ProperInfo(apid_info) /\ max_gap \in Nat /\ phase = "Idle"
      /\ Receive(packet) /\ apid_info.reset_packet = {} /\ restarts' = restarts
      /\ emitted' = emitted
  BY DEF TypeInv, Arrive, Receive
<1>2. /\ Increasing(emitted) /\ Tidy(apid_info, emitted)
      /\ apid_info.has_sent => Settled(apid_info, emitted, resets)
      /\ ~apid_info.has_sent => emitted = <<>> /\ apid_info.seq_counts = EmptyList
  BY <1>1 DEF OrderInv
<1> DEFINE begun == Begun(apid_info, packet)
           stored == store(begun, packet)
<1>3. /\ ProperInfo(begun) /\ begun.has_sent
      /\ begun.lastSeqCountSent = IF apid_info.has_sent THEN apid_info.lastSeqCountSent
                                  ELSE Previous(packet.seqcount)
      /\ begun.seq_counts = apid_info.seq_counts
      /\ apid_info.has_sent => begun = apid_info
  BY <1>1, BegunEffect DEF Begun
<1>4. CASE /\ IsReset(apid_info, packet)
           /\ apid_info'.reset_packet = {packet}
           /\ SameButLast(apid_info', [apid_info EXCEPT !.reset_packet = {packet}])
           /\ phase' = "Purging" /\ resets' = resets \cup {packet.number}
  <2> DEFINE aside == [apid_info EXCEPT !.reset_packet = {packet}]
  <2>1. /\ aside.has_sent = apid_info.has_sent /\ aside.seq_counts = apid_info.seq_counts
        /\ aside.packet_dict = apid_info.packet_dict
    BY <1>1 DEF ProperInfo, Infos
  <2>2. Tidy(aside, emitted) /\ AlphaPackets(aside) = AlphaPackets(apid_info)
    BY <1>2, <2>1 DEF Tidy, AlphaPackets, HighWaits
  <2>. HIDE DEF aside
  <2>3. Tidy(apid_info', emitted) /\ AlphaPackets(apid_info') = AlphaPackets(apid_info)
    BY <1>4, <2>2, SameOrder DEF aside
  <2>4. apid_info'.has_sent
    BY <1>4, <2>1 DEF IsReset, SameButLast, aside
  <2>5. packet.number + 1 = produced /\ packet.number \in Nat
    <3>1. packet.number \in restarts
      BY <1>1, <1>4 DEF Hopeful
    <3>2. QED  BY <1>1, <3>1 DEF WayInv, Packets
  <2>6. \A q \in Kept : q.number \in Nat /\ q.number < produced /\ q.number # packet.number
    <3>1. packet \in Fresh
      BY <1>4, ArriveFresh
    <3>2. QED  BY <3>1, KnownTyped DEF Known, FlowInv, WayInv
  <2>7. \A q \in Kept : q.number < packet.number
    BY <2>5, <2>6
  <2>8. \A q \in ToSet(emitted) \cup AlphaPackets(apid_info) : q.number < packet.number
    BY <2>7 DEF Kept, AlphaPackets
  <2>9. QED  BY <1>1, <1>2, <1>4, <2>3, <2>4, <2>8 DEF OrderInv
<1>5. CASE /\ should_skip_packet(begun, packet.seqcount)
           /\ apid_info' = begun
           /\ phase' = "Emitting" /\ resets' = resets
  <2>1. apid_info.has_sent
    <3>1. packet.seqcount \in SeqCounts
      BY <1>1 DEF Packets
    <3>. HIDE DEF begun
    <3>2. QED  BY <1>3, <1>5, <3>1, FirstNotSkipped
  <2>2. apid_info' = apid_info
    BY <1>3, <1>5, <2>1
  <2>3. QED  BY <1>1, <1>2, <1>5, <2>1, <2>2 DEF OrderInv
<1>6. CASE /\ ~IsReset(apid_info, packet) /\ ~should_skip_packet(begun, packet.seqcount)
           /\ ProperInfo(stored) /\ apid_info' = check_gap(stored)
           /\ apid_info'.reset_packet = {}
           /\ phase' = "Emitting" /\ resets' = resets
  <2>1. apid_info'.has_sent /\ SameButLast(apid_info', stored)
    <3>1. SameButLast(apid_info', stored)
      BY <1>1, <1>6, CheckGapKeeps
    <3>2. stored.has_sent = begun.has_sent
      BY <1>1, <1>3, StoreEffect
    <3>3. QED  BY <1>3, <3>1, <3>2 DEF SameButLast
  <2>2. /\ Tidy(apid_info', emitted)
        /\ Settled(apid_info', emitted, resets) \/ Due(apid_info', resets)
    <3>1. CASE apid_info.has_sent
      <4>1. begun = apid_info
        BY <1>3, <3>1
      <4>2. ~should_skip_packet(apid_info, packet.seqcount)
        BY <1>6, <4>1
      <4>3. apid_info' = check_gap(store(apid_info, packet))
        BY <1>6, <4>1
      <4>4. QED  BY <1>2, <1>6, <3>1, <4>2, <4>3, LaterOrder
    <3>2. CASE ~apid_info.has_sent
      <4>1. /\ begun.seq_counts = EmptyList /\ emitted = <<>>
            /\ begun.lastSeqCountSent = Previous(packet.seqcount)
        BY <1>2, <1>3, <3>2
      <4>2. \A n \in resets : n <= packet.number
        <5>1. AlphaPackets(stored) = {packet}
          BY <1>1, <1>3, <4>1, StoreFirst
        <5>2. AlphaPackets(apid_info') = {packet}
          BY <2>1, <5>1, SameOrder
        <5>3. packet \in WaitingPackets(apid_info')
          BY <5>2 DEF AlphaPackets, WaitingPackets, Waits
        <5>4. QED  BY <1>6, <5>3 DEF WaitInv
      <4>3. ToSet(emitted) = {}
        BY <4>1 DEF ToSet
      <4>. HIDE DEF begun
      <4>4. /\ ProperInfo(stored) /\ stored.seq_counts.alpha # <<>>
            /\ Tidy(stored, emitted) /\ Open(stored, resets)
            /\ begun.lastSeqCountSent = Previous(packet.seqcount) => Due(stored, resets)
        BY <1>1, <1>3, <4>1, <4>2, <4>3, FirstOrder
      <4>. HIDE DEF stored
      <4>5. Due(stored, resets)
        BY <4>1, <4>4
      <4>6. QED  BY <1>1, <1>6, <4>4, <4>5, CheckGapOrder
    <3>3. QED  BY <3>1, <3>2
  <2>3. QED  BY <1>1, <1>2, <1>6, <2>1, <2>2 DEF OrderInv
<1>7. QED
  <2> DEFINE aside == [apid_info EXCEPT !.reset_packet = {packet}]
  <2>1. \/ /\ IsReset(apid_info, packet)
           /\ ProperInfo(aside) /\ apid_info' = skip_to_next_available(aside)
           /\ apid_info'.reset_packet = {packet}
           /\ phase' = "Purging" /\ resets' = resets \cup {packet.number}
        \/ /\ should_skip_packet(begun, packet.seqcount)
           /\ apid_info' = begun
           /\ phase' = "Emitting" /\ resets' = resets
        \/ /\ ~IsReset(apid_info, packet) /\ ~should_skip_packet(begun, packet.seqcount)
           /\ ProperInfo(stored) /\ apid_info' = check_gap(stored)
           /\ apid_info'.reset_packet = {}
           /\ phase' = "Emitting" /\ resets' = resets
    BY <1>1, ReceiveIs
  <2>. HIDE DEF aside, begun, stored
  <2>2. ProperInfo(aside) /\ apid_info' = skip_to_next_available(aside)
          => SameButLast(apid_info', aside)
    BY SkipKeeps
  <2>3. QED  BY ONLY <1>4, <1>5, <1>6, <2>1, <2>2 DEF aside

\* A purge sends in order.
LEMMA PurgeOrder ==
  ASSUME TypeInv, WaitInv, OrderInv, PurgeOne, Hopeful, repeats = {}, max_gap # 0
  PROVE  OrderInv'
<1> DEFINE new == EmitNext(apid_info)
           sent == emitted \o NextPackets(apid_info)
<1>1. /\ phase = "Purging" /\ phase' = phase /\ ready_for_emit(apid_info)
      /\ apid_info' = skip_to_next_available(new) /\ emitted' = sent
      /\ resets' = resets /\ max_gap' = max_gap
  BY DEF PurgeOne
<1>2. /\ Increasing(emitted) /\ Tidy(apid_info, emitted) /\ Complete(apid_info)
      /\ apid_info.has_sent
      /\ \A p \in apid_info.reset_packet, q \in ToSet(emitted) \cup AlphaPackets(apid_info) :
           q.number < p.number
  BY <1>1 DEF OrderInv, WaitInv
<1>3. /\ Increasing(sent) /\ Tidy(new, sent)
      /\ AlphaPackets(new) \subseteq AlphaPackets(apid_info)
      /\ ToSet(sent) \subseteq ToSet(emitted) \cup AlphaPackets(apid_info)
      /\ new.has_sent = apid_info.has_sent
  BY <1>1, <1>2, EmitOrder
<1>4. ProperInfo(new) /\ new.reset_packet = apid_info.reset_packet
  BY <1>1, EmitKeeps
<1>. HIDE DEF new, sent
<1>5. SameButLast(apid_info', new)
  BY <1>1, <1>4, SkipKeeps
<1>6. /\ Tidy(apid_info', sent) /\ AlphaPackets(apid_info') = AlphaPackets(new)
      /\ apid_info'.has_sent /\ apid_info'.reset_packet = apid_info.reset_packet
  <2>1. Tidy(apid_info', sent) /\ AlphaPackets(apid_info') = AlphaPackets(new)
    BY <1>3, <1>5, SameOrder
  <2>2. QED  BY <1>2, <1>3, <1>4, <1>5, <2>1 DEF SameButLast
<1>7. QED  BY <1>1, <1>2, <1>3, <1>6 DEF OrderInv

\* The packet of the reset follows all that was sent; only if there is a beta list it is put
\* where it does not come next.
LEMMA FinishPurgeOrder ==
  ASSUME TypeInv, PhaseInv, WayInv, WaitInv, WaitInv', OrderInv, FinishPurge,
         Hopeful, Hopeful', repeats = {}, repeats' = {}, max_gap # 0
  PROVE  OrderInv'
<1> DEFINE cleared == clear_reset_state(apid_info)
           list == apid_info.seq_counts
<1>1. /\ ProperInfo(apid_info) /\ apid_info.reset_packet # {} /\ LinedUp(apid_info)
      /\ phase = "Purging" /\ phase' = "Emitting" /\ emitted' = emitted
      /\ resets' = resets /\ max_gap' = max_gap
  BY DEF FinishPurge, TypeInv, PhaseInv
<1>2. /\ list.alpha = <<>> /\ list.beta = <<>>
      /\ ProperInfo(cleared) /\ apid_info' = skip_to_next_available(cleared)
      /\ LinedUp(apid_info') /\ apid_info'.reset_packet = {}
  BY <1>1, FinishPurgeIs
<1>3. PICK packet \in apid_info.reset_packet :
        /\ packet \in Packets
        /\ cleared.has_sent = apid_info.has_sent
        /\ cleared.seq_counts = add_value(list, packet.seqcount)
        /\ cleared.packet_dict =
             {p \in apid_info.packet_dict : p.seqcount # packet.seqcount} \cup {packet}
  BY <1>1, ClearEffect
<1>. HIDE DEF cleared
<1>4. SameButLast(apid_info', cleared)
  BY <1>2, SkipKeeps
<1>5. /\ Increasing(emitted) /\ apid_info.has_sent
      /\ \A e \in ToSet(emitted) : e.number < packet.number
      /\ packet.seqcount = 0
  BY <1>1 DEF OrderInv, WayInv
<1>6. apid_info'.has_sent
  BY <1>3, <1>4, <1>5 DEF SameButLast
<1>7. CASE ~list.has_beta
  <2>1. list = EmptyList
    <3>1. list \in Lists
      BY <1>1 DEF ProperInfo, ProperList
    <3>2. QED  BY <1>2, <1>7, <3>1 DEF Lists, EmptyList
  <2> DEFINE stored == store(apid_info, packet)
  <2>2. /\ cleared.seq_counts = stored.seq_counts /\ cleared.packet_dict = stored.packet_dict
    BY <1>1, <1>3, StoreEffect
  <2>3. AlphaPackets(stored) = {packet}
    BY <1>1, <1>3, <2>1, StoreFirst
  <2>4. \A n \in resets : n <= packet.number
    <3>1. packet \in WaitingPackets(apid_info')
      <4>. HIDE DEF stored
      <4>1. packet \in WaitingPackets(cleared)
        BY <2>2, <2>3 DEF AlphaPackets, WaitingPackets, Waits
      <4>2. QED  BY <1>4, <4>1 DEF SameButLast, WaitingPackets
    <3>2. QED  BY <1>1, <1>2, <3>1 DEF WaitInv
  <2>5. /\ stored.seq_counts.alpha # <<>> /\ Tidy(stored, emitted) /\ Open(stored, resets)
    BY <1>1, <1>3, <1>5, <2>1, <2>4, FirstOrder
  <2>. HIDE DEF stored
  <2>6. Tidy(cleared, emitted) /\ Open(cleared, resets)
    BY <2>2, <2>5 DEF Tidy, Open, AlphaPackets, HighWaits
  <2>7. Tidy(apid_info', emitted) /\ Open(apid_info', resets)
    BY <1>4, <2>6, SameOrder
  <2>8. Due(apid_info', resets)
    BY <1>2, <1>4, <2>2, <2>5, <2>7 DEF Due, SameButLast
  <2>9. QED  BY <1>1, <1>5, <1>6, <2>7, <2>8 DEF OrderInv
<1>8. CASE list.has_beta
  <2>1. ProperList(list) /\ 0 \in SeqCounts /\ ~(alpha_value <= 0) /\ ~(beta_value <= 0)
    <3>1. ProperList(list)
      BY <1>1 DEF ProperInfo
    <3>2. 0 \in SeqCounts /\ alpha_value \in Nat \ {0} /\ beta_value = 2 * alpha_value
      BY Counts DEF SeqCounts, beta_value
    <3>3. QED  BY <3>1, <3>2
  <2>2. cleared.seq_counts = Listed(<<>>, Inserted(<<>>, 0), TRUE)
    <3>1. cleared.seq_counts = add_value(list, 0)
      BY <1>3, <1>5
    <3>. HIDE DEF list
    <3>2. cleared.seq_counts = Listed(list.alpha, Inserted(list.beta, 0), TRUE)
      BY <1>8, <2>1, <3>1, AddValueIs, Zenon
    <3>3. QED  BY <1>2, <3>2
  <2>3. Len(Inserted(<<>>, 0)) = 1
    <3> DEFINE e == <<>>
    <3>1. e \in Seq(SeqCounts) /\ Sorted(e) /\ Len(e) = 0
      BY DEF Sorted
    <3>. HIDE DEF e
    <3>2. Len(Inserted(e, 0)) = Len(e) + 1
      BY <2>1, <3>1, InsertedIs
    <3>3. QED  BY <3>1, <3>2 DEF e
  <2>4. apid_info'.seq_counts = Listed(<<>>, Inserted(<<>>, 0), TRUE)
    BY <1>4, <2>2 DEF SameButLast
  <2>5. apid_info'.seq_counts.alpha = <<>> /\ get_size(apid_info'.seq_counts) = 1
    BY <2>3, <2>4 DEF Listed, get_size
  <2>6. Unanswerable(apid_info)'
    BY <2>5 DEF Unanswerable, HasNext
  <2>7. AlphaPackets(apid_info') = {} /\ ~HighWaits(apid_info')
    BY <2>5 DEF AlphaPackets, HighWaits, ToSet
  <2>8. Tidy(apid_info', emitted)
    BY <2>7 DEF Tidy
  <2>9. QED  BY <1>1, <1>5, <1>6, <2>6, <2>8 DEF OrderInv
<1>9. QED  BY <1>7, <1>8

\* What is sent is the next.
LEMMA EmitOneOrder ==
  ASSUME TypeInv, WaitInv, OrderInv, EmitOne, Hopeful, repeats = {}, max_gap # 0
  PROVE  OrderInv'
<1> DEFINE new == EmitNext(apid_info)
           sent == emitted \o NextPackets(apid_info)
<1>1. /\ phase = "Emitting" /\ phase' = phase /\ ready_for_emit(apid_info)
      /\ apid_info' = new /\ emitted' = sent
      /\ resets' = resets /\ max_gap' = max_gap
  BY DEF EmitOne
<1>2. /\ Increasing(emitted) /\ Tidy(apid_info, emitted) /\ Complete(apid_info)
      /\ apid_info.has_sent /\ apid_info.seq_counts.alpha # <<>>
      /\ Settled(apid_info, emitted, resets) \/ Due(apid_info, resets)
  BY <1>1 DEF OrderInv, WaitInv, Unanswerable, ready_for_emit, HasNext
<1>3. Open(apid_info, resets)
  <2>1. ProperInfo(apid_info) /\ emitted \in Seq(Packets) /\ resets \subseteq Nat
    BY DEF TypeInv
  <2>2. QED  BY <1>2, <2>1, SettledOpens DEF Due
<1>4. /\ Increasing(sent) /\ Tidy(new, sent) /\ new.has_sent = apid_info.has_sent
      /\ (new = apid_info /\ sent = emitted) \/ Settled(new, sent, resets)
  BY <1>1, <1>2, <1>3, EmitOrder
<1>. HIDE DEF new, sent
<1>5. Settled(apid_info', sent, resets) \/ Due(apid_info', resets)
  BY <1>1, <1>2, <1>4
<1>6. QED  BY <1>1, <1>2, <1>4, <1>5 DEF OrderInv

\* Every step keeps the order.
LEMMA NextOrder ==
  ASSUME MaxPackets <= Modulo, Window <= alpha_value, Modulo > 3,
         TypeInv, PhaseInv, FlowInv, WayInv, WaitInv, WaitInv', OrderInv, [Next]_vars
  PROVE  OrderInv'
<1>1. max_gap' = max_gap
  BY DEF Next, Arrive, Receive, Die, PurgeOne, FinishPurge, EmitOne, FinishEmit, Produce, Lose,
         Restart, vars
<1>2. SUFFICES ASSUME Hopeful', repeats' = {}, max_gap # 0 PROVE OrderInv'
  BY <1>1 DEF OrderInv
<1>3. Hopeful /\ repeats = {}
  BY <1>2, HopefulBefore, RepeatsStay
<1>4. ASSUME NEW packet \in transit, NEW again \in BOOLEAN, Arrive(packet, again)
      PROVE  OrderInv'
  BY <1>2, <1>3, <1>4, ArriveOrder
<1>5. CASE PurgeOne
  BY <1>2, <1>3, <1>5, PurgeOrder
<1>6. CASE FinishPurge
  BY <1>2, <1>3, <1>6, FinishPurgeOrder
<1>7. CASE EmitOne
  BY <1>2, <1>3, <1>7, EmitOneOrder
<1>8. CASE FinishEmit
  <2>1. ~Due(apid_info, resets)
    BY <1>8 DEF FinishEmit, Due, LinedUp, ready_for_emit, HasNext
  <2>2. /\ phase = "Emitting" /\ ~Unanswerable(apid_info) /\ phase' = "Idle"
        /\ UNCHANGED <<apid_info, emitted, resets, max_gap>>
    BY <1>8 DEF FinishEmit
  <2>3. QED  BY <1>2, <1>3, <2>1, <2>2 DEF OrderInv
<1>9. CASE Die
  <2>1. phase' = "Dead" /\ UNCHANGED <<apid_info, emitted, resets, max_gap>>
    BY <1>9 DEF Die
  <2>2. QED  BY <1>2, <1>3, <2>1 DEF OrderInv
<1>10. CASE Produce \/ (\E packet \in transit \ copies : Lose(packet)) \/ Restart \/ UNCHANGED vars
  <2>1. UNCHANGED <<apid_info, phase, emitted, resets, max_gap>>
    BY <1>10 DEF Produce, Lose, Restart, vars, processorVars
  <2>2. QED  BY <1>2, <1>3, <2>1 DEF OrderInv, Unanswerable
<1>11. QED  BY <1>4, <1>5, <1>6, <1>7, <1>8, <1>9, <1>10 DEF Next

\* Initially nothing was sent.
LEMMA InitOrder ==
  ASSUME Init
  PROVE  OrderInv
<1>1. /\ apid_info.has_sent = FALSE /\ apid_info.seq_counts = EmptyList
      /\ apid_info.packet_dict = {} /\ phase = "Idle" /\ emitted = <<>>
  BY DEF Init, NewApidInfo
<1>2. Increasing(<<>>)
  BY DEF Increasing
<1>3. AlphaPackets(apid_info) = {} /\ ~HighWaits(apid_info)
  BY <1>1 DEF AlphaPackets, HighWaits, EmptyList, ToSet
<1>4. Tidy(apid_info, emitted)
  BY <1>3 DEF Tidy
<1>5. QED  BY <1>1, <1>2, <1>4 DEF OrderInv

----------------------------------------------------------------------------
(* The order of what is sent, without gaps and restarts. *)

EvenInv == max_gap = 0 /\ resets = {} /\ restarts = {} => Increasing(emitted)

\* A packet that follows the last is greater than all.
LEMMA NextEven ==
  ASSUME TypeInv, GapInv, GapInv', EvenInv, [Next]_vars
  PROVE  EvenInv'
<1> SUFFICES ASSUME max_gap' = 0, resets' = {}, restarts' = {}
             PROVE  Increasing(emitted')
  BY DEF EvenInv
<1>1. max_gap = 0 /\ resets = {} /\ restarts = {}
  <2>1. max_gap' = max_gap
    BY DEF Next, Arrive, Receive, Die, PurgeOne, FinishPurge, EmitOne, FinishEmit, Produce, Lose,
           Restart, vars
  <2>2. restarts \subseteq restarts'
    BY DEF Next, Arrive, Die, PurgeOne, FinishPurge, EmitOne, FinishEmit, Produce, Lose,
           Restart, vars, worldVars
  <2>3. resets \subseteq resets'
    <3>1. ASSUME NEW packet \in transit, NEW again \in BOOLEAN, Arrive(packet, again)
          PROVE  resets \subseteq resets'
      BY <3>1 DEF Arrive, Receive
    <3>2. QED  BY <3>1 DEF Next, Die, PurgeOne, FinishPurge, EmitOne, FinishEmit, Produce,
                           Lose, Restart, vars, processorVars
  <2>4. QED  BY <2>1, <2>2, <2>3
<1>2. Increasing(emitted) /\ emitted \in Seq(Packets) /\ phase # "Purging"
  BY <1>1 DEF EvenInv, GapInv, TypeInv
<1>3. CASE EmitOne
  <2>1. ready_for_emit(apid_info) /\ emitted' = emitted \o NextPackets(apid_info)
    BY <1>3 DEF EmitOne
  <2>2. ASSUME NEW p \in apid_info.packet_dict, emitted' = emitted \o <<p>>
        PROVE  Increasing(emitted')
    <3> DEFINE n == Len(emitted)
    <3>1. /\ p \in Packets /\ n \in Nat
          /\ Len(emitted') = n + 1 /\ emitted'[n + 1] = p
          /\ \A i \in 1 .. n : emitted'[i] = emitted[i]
      <4>1. p \in Packets
        BY DEF TypeInv, ProperInfo, Infos
      <4>2. QED  BY <1>2, <2>2, <4>1, ToSetAppend, LenProperties
    <3>2. \A i \in 1 .. Len(emitted') - 1 : emitted'[i + 1].number = emitted'[i].number + 1
      BY DEF GapInv
    <3>3. CASE emitted = <<>>
      <4>1. ToSet(emitted) = {}
        BY <3>3 DEF ToSet
      <4>2. QED  BY <1>2, <2>2, <3>1, <4>1, IncreasingAppend
    <3>4. CASE emitted # <<>>
      <4>1. /\ emitted[n] \in Packets /\ n \in Nat \ {0}
            /\ \A e \in ToSet(emitted) : e.number <= emitted[n].number
        BY <1>2, <3>4, LastGreatest, EmptySeq, LenProperties
      <4>2. ToSet(emitted) \subseteq Packets
        BY <1>2, ElementOfSeq DEF ToSet
      <4>3. \A e \in Packets : e.number \in Nat
        BY DEF Packets
      <4>. HIDE DEF n
      <4>4. n \in 1 .. Len(emitted') - 1
        BY <3>1, <4>1
      <4>5. p.number = emitted[n].number + 1
        BY <3>1, <3>2, <4>1, <4>4
      <4>6. \A e \in ToSet(emitted) : e.number < p.number
        BY <4>1, <4>2, <4>3, <4>5
      <4>7. QED  BY <1>2, <2>2, <3>1, <4>6, IncreasingAppend
    <3>5. QED  BY <3>3, <3>4
  <2>3. emitted' = emitted \/ \E p \in apid_info.packet_dict : emitted' = emitted \o <<p>>
    BY <2>1, EmitMoves
  <2>4. QED  BY <1>2, <2>2, <2>3
<1>4. CASE ~EmitOne
  <2>1. emitted' = emitted
    BY <1>2, <1>4 DEF Next, Arrive, Receive, Die, PurgeOne, FinishPurge, FinishEmit, Produce,
                      Lose, Restart, vars, processorVars
  <2>2. QED  BY <1>2, <2>1
<1>5. QED  BY <1>3, <1>4

----------------------------------------------------------------------------

\* An increasing sequence is in order.
LEMMA IncreasingInOrder ==
  ASSUME Increasing(emitted)
  PROVE  EmittedInOrder
BY DEF Increasing, EmittedInOrder

\* Downstream sees the packets in the order the spacecraft sent them, each at most once, as long
\* as every restart is noticed and no copy taken for a new packet: if packets overtake each other
\* by at most a third of the modulus, and there are fewer packets than counts. When gaps are not
\* allowed this is stated up to the first restart.
THEOREM InOrderUntilRestart ==
  ASSUME MaxPackets < Modulo, Window <= alpha_value, Modulo > 3
  PROVE  Spec => [](max_gap # 0 \/ restarts = {} => EmittedInOrder)
<1> DEFINE Inv == TypeInv /\ PhaseInv /\ FlowInv /\ WayInv /\ WaitInv
           Order == OrderInv /\ GapInv /\ EvenInv
<1>1. MaxPackets <= Modulo
  BY PacketBoundsAssumption, Counts
<1>2. Spec => []Inv
  BY <1>1, AlwaysWait
<1>3. Init => Order
  <2>1. Init => EvenInv /\ GapInv
    BY DEF Init, GapInv, NewApidInfo, EvenInv, Increasing
  <2>2. QED  BY <2>1, InitOrder
<1>4. Inv /\ Inv' /\ Order /\ [Next]_vars => Order'
  <2> SUFFICES ASSUME Inv, Inv', OrderInv, GapInv, EvenInv, [Next]_vars
               PROVE  OrderInv' /\ GapInv' /\ EvenInv'
    OBVIOUS
  <2>1. OrderInv'
    BY <1>1, NextOrder
  <2>2. GapInv'
    BY NextGap
  <2>3. EvenInv'
    BY <2>2, NextEven
  <2>4. QED  BY <2>1, <2>2, <2>3
<1>5. Inv /\ Order => (max_gap # 0 \/ restarts = {} => EmittedInOrder)
  <2> SUFFICES ASSUME Inv, OrderInv, EvenInv, max_gap # 0 \/ restarts = {}, RestartsNoticed,
                      repeats = {}
               PROVE  EmittedInOrder
    BY DEF EmittedInOrder
  <2>1. CASE max_gap # 0
    BY <2>1, NoticedHopeful, IncreasingInOrder DEF OrderInv
  <2>2. CASE max_gap = 0 /\ restarts = {}
    <3>1. resets = {}
      BY <2>2 DEF RestartsNoticed
    <3>2. QED  BY <2>2, <3>1, IncreasingInOrder DEF EvenInv
  <2>3. QED  BY <2>1, <2>2
<1>. HIDE DEF Inv, Order
<1>6. QED  BY <1>2, <1>3, <1>4, <1>5, PTL DEF Spec

NoRestart == restarts = {}

\* Nothing restarts that may not.
LEMMA NextNoRestart ==
  ASSUME MaxRestarts = 0, NoRestart, [Next]_vars
  PROVE  NoRestart'
<1>1. ~Restart
  BY FS_EmptySet DEF Restart, NoRestart
<1>2. restarts' = restarts
  BY <1>1 DEF Next, Arrive, Die, PurgeOne, FinishPurge, EmitOne, FinishEmit, Produce, Lose,
              vars, worldVars
<1>3. QED  BY <1>2 DEF NoRestart

\* Hence the packets are always sent in order when gaps are allowed, or nothing restarts.
THEOREM EmittedInOrderHolds ==
  ASSUME MaxPackets < Modulo, Window <= alpha_value, Modulo > 3,
         MaxRestarts = 0 \/ 0 \notin Gaps
  PROVE  Spec => []EmittedInOrder
<1> DEFINE Even == MaxRestarts = 0 => NoRestart
<1>1. Init => Even
  BY DEF Init, NoRestart
<1>2. Even /\ [Next]_vars => Even'
  BY NextNoRestart
<1>3. TypeInv /\ Even => max_gap # 0 \/ restarts = {}
  BY DEF TypeInv, NoRestart
<1>4. Spec => [](TypeInv /\ PhaseInv)
  BY AlwaysInv
<1>5. Spec => [](max_gap # 0 \/ restarts = {} => EmittedInOrder)
  BY InOrderUntilRestart
<1>. HIDE DEF Even
<1>6. QED  BY <1>1, <1>2, <1>3, <1>4, <1>5, PTL DEF Spec
=============================================================================
