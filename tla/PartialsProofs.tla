--------------------------- MODULE PartialsProofs ---------------------------
(***************************************************************************)
(* Proofs about Partials. The first part, for any parameters, is about     *)
(* types and the history. The second, what is joined and which pairs are   *)
(* missed, is for frames that overtake each other as they like and packets *)
(* over any number of frames; it needs only that there are fewer frames    *)
(* than the frame count can tell apart.                                    *)
(***************************************************************************)
EXTENDS Partials, NaturalFacts, SequenceTheorems

Partial == [entry : Entries, piece : Pieces]

\* What PartialsLookup and handle_full_packet keep.
States == [lookup : SUBSET Partial, history : Seq(Entries), full_packets : Seq(Seq(Pieces))]

----------------------------------------------------------------------------
(* What the operators of PartialsLookup do. *)

\* An id is one.
LEMMA EntryType ==
  ASSUME NEW k \in Int, NEW type \in Types
  PROVE  Entry(mod(k), type) \in Entries
BY ModRange, PartialsAssumption DEF Entry, mod, Entries, PartialIds

\* The complement of a partial.
LEMMA ComplementType ==
  ASSUME NEW entry \in Entries
  PROVE  get_complement_fields(entry) \in Entries
<1>1. entry.id + 1 \in Int /\ {"starts", "ends"} \subseteq Types
  BY PartialsAssumption DEF Entries, PartialIds, Types
<1>2. QED  BY <1>1, EntryType DEF get_complement_fields

\* What a sequence holds after one more.
LEMMA AppendedSet ==
  ASSUME NEW T, NEW s \in Seq(T), NEW x \in T
  PROVE  ToSet(Append(s, x)) = ToSet(s) \cup {x}
<1>1. Len(s) \in Nat /\ DOMAIN s = 1 .. Len(s)
  OBVIOUS
<1> DEFINE r == Append(s, x)
<1>2. /\ DOMAIN r = 1 .. Len(s) + 1 /\ r[Len(s) + 1] = x
      /\ \A i \in 1 .. Len(s) : r[i] = s[i]
  BY AppendProperties
<1>. HIDE DEF r
<1>3. ToSet(r) \subseteq ToSet(s) \cup {x}
  BY <1>1, <1>2 DEF ToSet
<1>4. ToSet(s) \cup {x} \subseteq ToSet(r)
  BY <1>1, <1>2 DEF ToSet
<1>5. QED  BY <1>3, <1>4 DEF r

\* f[i] is what is kept of the first i entries.
Keeps(f, entries, entry) ==
  /\ f[0] = <<>>
  /\ \A i \in 1 .. Len(entries) :
       f[i] = IF entries[i] = entry THEN f[i - 1] ELSE Append(f[i - 1], entries[i])

\* The history without an entry is kept entry by entry.
LEMMA WithoutIterates ==
  ASSUME NEW entries \in Seq(Entries), NEW entry
  PROVE  \E f \in [0 .. Len(entries) -> Seq(Entries)] :
           Keeps(f, entries, entry) /\ Without(entries, entry) = f[Len(entries)]
<1> DEFINE n == Len(entries)
           Body(g) == [i \in 0 .. Len(entries) |->
                         IF i = 0 THEN <<>>
                         ELSE IF entries[i] = entry THEN g[i - 1]
                         ELSE Append(g[i - 1], entries[i])]
           step == [t \in (1 .. n) \X Seq(Entries) |->
                      IF entries[t[1]] = entry THEN t[2] ELSE Append(t[2], entries[t[1]])]
           h == CHOOSE g : g = Body(g)
<1>1. n \in Nat /\ \A i \in 1 .. n : entries[i] \in Entries
  OBVIOUS
<1>2. step \in [(1 .. n) \X Seq(Entries) -> Seq(Entries)]
  <2>1. \A t \in (1 .. n) \X Seq(Entries) :
          (IF entries[t[1]] = entry THEN t[2] ELSE Append(t[2], entries[t[1]])) \in Seq(Entries)
    BY <1>1, AppendProperties
  <2>2. QED  BY <2>1
<1>3. \A i \in 1 .. n : \A s \in Seq(Entries) :
        step[<<i, s>>] = IF entries[i] = entry THEN s ELSE Append(s, entries[i])
  OBVIOUS
<1>. HIDE DEF step
<1>4. PICK f \in [0 .. n -> Seq(Entries)] : Iterates(f, n, <<>>, step)
  BY <1>1, <1>2, EmptySeq, IterationExists
<1>5. Keeps(f, entries, entry)
  <2>1. ASSUME NEW i \in 1 .. n
        PROVE  f[i] = IF entries[i] = entry THEN f[i - 1] ELSE Append(f[i - 1], entries[i])
    <3>1. f[i - 1] \in Seq(Entries)
      <4>1. i - 1 \in 0 .. n
        BY <1>1
      <4>. HIDE DEF n
      <4>2. QED  BY <4>1
    <3>2. f[i] = step[<<i, f[i - 1]>>]
      BY <1>4 DEF Iterates
    <3>3. QED  BY <1>3, <3>1, <3>2
  <2>2. QED  BY <1>4, <2>1 DEF Keeps, Iterates
<1>6. f = Body(f)
  <2>1. ASSUME NEW i \in 0 .. n
        PROVE  f[i] = Body(f)[i]
    <3>1. CASE i = 0
      <4>1. f[0] = <<>>
        BY <1>5 DEF Keeps
      <4>2. Body(f)[0] = <<>>
        BY <1>1
      <4>3. f[0] = Body(f)[0]
        BY <4>1, <4>2
      <4>4. QED  BY <3>1, <4>3
    <3>2. CASE i \in 1 .. n
      <4>1. f[i] = IF entries[i] = entry THEN f[i - 1] ELSE Append(f[i - 1], entries[i])
        BY <1>5, <3>2 DEF Keeps
      <4>2. i \in 0 .. Len(entries) /\ i # 0
        BY <1>1, <3>2
      <4>3. QED  BY <4>1, <4>2
    <3>3. i = 0 \/ i \in 1 .. n
      BY <1>1
    <3>. HIDE DEF Body
    <3>4. QED  BY <3>1, <3>2, <3>3
  <2>2. DOMAIN f = DOMAIN Body(f) /\ f = [i \in DOMAIN f |-> f[i]]
    OBVIOUS
  <2>3. QED  BY <2>1, <2>2
<1>7. h = Body(h)
  BY <1>6
<1>8. Without(entries, entry) = h[n]
  BY DEF Without
<1>9. h[0] = <<>> /\ \A i \in 1 .. n :
        h[i] = IF entries[i] = entry THEN h[i - 1] ELSE Append(h[i - 1], entries[i])
  <2>. HIDE DEF h
  <2>1. Body(h)[0] = <<>>
    BY <1>1
  <2>2. ASSUME NEW i \in 1 .. n
        PROVE  Body(h)[i] = IF entries[i] = entry THEN h[i - 1]
                            ELSE Append(h[i - 1], entries[i])
    <3>1. i \in 0 .. Len(entries) /\ i # 0
      BY <1>1
    <3>2. QED  BY <3>1
  <2>. HIDE DEF Body
  <2>3. QED  BY <1>7, <2>1, <2>2
<1>. HIDE DEF h, Body
<1>10. StepAlike(f, h, n)
  BY <1>5, <1>9 DEF Keeps, StepAlike
<1>11. \A i \in 0 .. n : f[i] = h[i]
  BY <1>1, <1>10, IterationsAgree
<1>12. Without(entries, entry) = f[n]
  BY <1>1, <1>8, <1>11
<1>13. QED  BY <1>5, <1>12

\* It has all entries but that one.
LEMMA WithoutEntries ==
  ASSUME NEW entries \in Seq(Entries), NEW entry
  PROVE  /\ Without(entries, entry) \in Seq(Entries)
         /\ ToSet(Without(entries, entry)) = ToSet(entries) \ {entry}
<1> DEFINE n == Len(entries)
<1>1. PICK f \in [0 .. n -> Seq(Entries)] :
        Keeps(f, entries, entry) /\ Without(entries, entry) = f[n]
  BY WithoutIterates
<1>2. n \in Nat /\ DOMAIN entries = 1 .. n /\ \A i \in 1 .. n : entries[i] \in Entries
  OBVIOUS
<1> DEFINE kept == [i \in 0 .. n |-> ToSet(f[i])]
           others == [i \in 0 .. n |-> {entries[j] : j \in 1 .. i} \ {entry}]
<1>. HIDE DEF n
<1>3. StepAlike(kept, others, n)
  <2>1. kept[0] = {} /\ others[0] = {}
    <3>1. 0 \in 0 .. n /\ f[0] = <<>> /\ 1 .. 0 = {}
      BY <1>1, <1>2 DEF Keeps
    <3>2. QED  BY <3>1 DEF ToSet
  <2>2. ASSUME NEW i \in 1 .. n, kept[i - 1] = others[i - 1]
        PROVE  kept[i] = others[i]
    <3>1. /\ i - 1 \in 0 .. n /\ i \in 0 .. n /\ i \in 1 .. i
          /\ 1 .. i = (1 .. (i - 1)) \cup {i}
      BY <1>2
    <3>2. f[i - 1] \in Seq(Entries) /\ entries[i] \in Entries
      BY <1>2, <3>1
    <3>3. f[i] = IF entries[i] = entry THEN f[i - 1] ELSE Append(f[i - 1], entries[i])
      BY <1>1 DEF Keeps, n
    <3>4. ToSet(f[i - 1]) = {entries[j] : j \in 1 .. (i - 1)} \ {entry}
      BY <2>2, <3>1
    <3>5. {entries[j] : j \in 1 .. i} = {entries[j] : j \in 1 .. (i - 1)} \cup {entries[i]}
      BY <3>1
    <3>6. ToSet(f[i]) = {entries[j] : j \in 1 .. i} \ {entry}
      <4>1. CASE entries[i] = entry
        BY <3>3, <3>4, <3>5, <4>1
      <4>2. CASE entries[i] # entry
        <5>1. ToSet(f[i]) = ToSet(f[i - 1]) \cup {entries[i]}
          BY <3>2, <3>3, <4>2, AppendedSet
        <5>2. QED  BY <3>4, <3>5, <4>2, <5>1
      <4>3. QED  BY <4>1, <4>2
    <3>7. QED  BY <3>1, <3>6
  <2>3. QED  BY <2>1, <2>2 DEF StepAlike
<1>4. \A i \in 0 .. n : kept[i] = others[i]
  <2>. HIDE DEF kept, others
  <2>1. QED  BY <1>2, <1>3, IterationsAgree
<1>5. ToSet(f[n]) = {entries[j] : j \in 1 .. n} \ {entry}
  BY <1>2, <1>4
<1>6. ToSet(entries) = {entries[j] : j \in 1 .. n}
  BY <1>2 DEF ToSet
<1>7. f[n] \in Seq(Entries)
  BY <1>2
<1>8. QED  BY <1>1, <1>5, <1>6, <1>7

\* The history names just what waits.
Agrees(state) == ToSet(state.history) = {p.entry : p \in state.lookup}

Proper(state) == state \in States /\ Agrees(state)

\* A partial that is added replaces the one that waited in its place.
LEMMA AddEffect ==
  ASSUME NEW state \in States, NEW entry \in Entries, NEW piece \in Pieces
  PROVE  LET next == add_partial(state, entry, piece)
         IN  /\ next \in States
             /\ next.lookup = (state.lookup \ Found(state, entry))
                                \cup {[entry |-> entry, piece |-> piece]}
             /\ next.history = Append(state.history, entry)
             /\ next.full_packets = state.full_packets
<1> DEFINE waiting == (state.lookup \ Found(state, entry)) \cup {[entry |-> entry, piece |-> piece]}
           entries == Append(state.history, entry)
<1>1. state.lookup \in SUBSET Partial /\ state.history \in Seq(Entries)
  BY DEF States
<1>2. waiting \in SUBSET Partial
  BY <1>1 DEF Partial
<1>3. entries \in Seq(Entries)
  BY <1>1, AppendProperties
<1> DEFINE next == add_partial(state, entry, piece)
<1>4. next = [state EXCEPT !.lookup = waiting, !.history = entries]
  BY DEF add_partial
<1>. HIDE DEF waiting, entries, next
<1>5. /\ next \in States /\ next.lookup = waiting /\ next.history = entries
      /\ next.full_packets = state.full_packets
  BY <1>2, <1>3, <1>4 DEF States
<1>6. QED  BY <1>5 DEF waiting, entries, next

\* One that is removed leaves neither itself nor its history.
LEMMA RemoveEffect ==
  ASSUME NEW state \in States, NEW entry
  PROVE  LET next == remove_partial(state, entry)
         IN  /\ next \in States
             /\ next.lookup = state.lookup \ Found(state, entry)
             /\ ToSet(next.history) = IF Found(state, entry) = {} THEN ToSet(state.history)
                                      ELSE ToSet(state.history) \ {entry}
             /\ next.full_packets = state.full_packets
<1> DEFINE waiting == state.lookup \ Found(state, entry)
           entries == Without(state.history, entry)
<1>1. state.lookup \in SUBSET Partial /\ state.history \in Seq(Entries)
  BY DEF States
<1>2. waiting \in SUBSET Partial
  BY <1>1
<1>3. entries \in Seq(Entries) /\ ToSet(entries) = ToSet(state.history) \ {entry}
  BY <1>1, WithoutEntries
<1>4. CASE Found(state, entry) = {}
  BY <1>4 DEF remove_partial
<1>5. CASE Found(state, entry) # {}
  <2> DEFINE next == remove_partial(state, entry)
  <2>1. next = [state EXCEPT !.lookup = waiting, !.history = entries]
    BY <1>5 DEF remove_partial
  <2>. HIDE DEF waiting, entries, next
  <2>2. /\ next \in States /\ next.lookup = waiting /\ next.history = entries
        /\ next.full_packets = state.full_packets
    BY <1>2, <1>3, <2>1 DEF States
  <2>3. ToSet(next.history) = ToSet(state.history) \ {entry}
    BY <1>3, <2>2
  <2>4. QED  BY <1>5, <2>2, <2>3 DEF waiting, next
<1>6. QED  BY <1>4, <1>5

\* A packet that is complete is the last one.
LEMMA FullEffect ==
  ASSUME NEW state \in States, NEW pieces \in Seq(Pieces)
  PROVE  LET next == handle_full_packet(state, pieces)
         IN  /\ next \in States
             /\ next.lookup = state.lookup /\ next.history = state.history
             /\ next.full_packets = Append(state.full_packets, pieces)
<1> DEFINE full == Append(state.full_packets, pieces)
<1>1. full \in Seq(Seq(Pieces))
  <2>1. state.full_packets \in Seq(Seq(Pieces))
    BY DEF States
  <2>. DEFINE T == Seq(Pieces)
  <2>. HIDE DEF T
  <2>2. state.full_packets \in Seq(T) /\ pieces \in T
    BY <2>1 DEF T
  <2>3. full \in Seq(T)
    BY <2>2, AppendProperties
  <2>4. QED  BY <2>3 DEF T
<1>2. handle_full_packet(state, pieces) = [state EXCEPT !.full_packets = full]
  BY DEF handle_full_packet
<1>. HIDE DEF full
<1>3. QED  BY <1>1, <1>2 DEF States, full

\* Adding and removing keep lookup and history together.
LEMMA ProperKept ==
  ASSUME NEW state, Proper(state), NEW entry \in Entries
  PROVE  /\ \A piece \in Pieces : Proper(add_partial(state, entry, piece))
         /\ Proper(remove_partial(state, entry))
         /\ \A pieces \in Seq(Pieces) : Proper(handle_full_packet(state, pieces))
<1>1. state \in States /\ Agrees(state)
  BY DEF Proper
<1>2. \A p \in Found(state, entry) : p.entry = entry
  BY DEF Found
<1>3. \A p \in state.lookup : p.entry = entry => p \in Found(state, entry)
  BY DEF Found
<1>4. ASSUME NEW piece \in Pieces
      PROVE  Proper(add_partial(state, entry, piece))
  <2> DEFINE next == add_partial(state, entry, piece)
             new  == [entry |-> entry, piece |-> piece]
  <2>1. /\ next \in States
        /\ next.lookup = (state.lookup \ Found(state, entry)) \cup {new}
        /\ next.history = Append(state.history, entry)
    BY <1>1, AddEffect
  <2>2. new.entry = entry
    OBVIOUS
  <2>. HIDE DEF next, new
  <2>3. ToSet(next.history) = ToSet(state.history) \cup {entry}
    BY <1>1, <2>1, AppendedSet DEF States
  <2>4. {p.entry : p \in next.lookup} = {p.entry : p \in state.lookup} \cup {entry}
    BY <1>2, <2>1, <2>2
  <2>5. Proper(next)
    BY <1>1, <2>1, <2>3, <2>4 DEF Proper, Agrees
  <2>6. QED  BY <2>5 DEF next
<1>5. Proper(remove_partial(state, entry))
  <2> DEFINE next == remove_partial(state, entry)
  <2>1. /\ next \in States
        /\ next.lookup = state.lookup \ Found(state, entry)
        /\ ToSet(next.history) = IF Found(state, entry) = {} THEN ToSet(state.history)
                                 ELSE ToSet(state.history) \ {entry}
    BY <1>1, RemoveEffect
  <2>. HIDE DEF next
  <2>2. {p.entry : p \in next.lookup} = {p.entry : p \in state.lookup} \ {entry}
    BY <1>2, <1>3, <2>1
  <2>3. Found(state, entry) = {} => entry \notin {p.entry : p \in state.lookup}
    BY <1>3
  <2>4. Proper(next)
    BY <1>1, <2>1, <2>2, <2>3 DEF Proper, Agrees
  <2>5. QED  BY <2>4 DEF next
<1>6. ASSUME NEW pieces \in Seq(Pieces)
      PROVE  Proper(handle_full_packet(state, pieces))
  BY <1>1, FullEffect DEF Proper, Agrees
<1>7. QED  BY <1>4, <1>5, <1>6

\* What becomes of a partial: it waits, or it is joined with its complement.
LEMMA PartialCases ==
  ASSUME NEW state \in States, NEW entry \in Entries, NEW piece \in Pieces
  PROVE  LET wanted == get_complement_fields(entry)
             next   == handle_partial_packet(state, entry, piece)
         IN  \/ Found(state, wanted) = {} /\ next = add_partial(state, entry, piece)
             \/ \E p \in Found(state, wanted) :
                  next = handle_full_packet(remove_partial(state, wanted),
                           IF entry.type = "starts" THEN <<piece, p.piece>>
                           ELSE <<p.piece, piece>>)
<1> DEFINE wanted == get_complement_fields(entry)
           found  == Found(state, wanted)
           p      == CHOOSE p \in found : TRUE
<1>1. CASE found = {}
  BY <1>1 DEF handle_partial_packet
<1>2. CASE found # {}
  <2>1. p \in found
    BY <1>2
  <2>2. handle_partial_packet(state, entry, piece)
          = handle_full_packet(remove_partial(state, wanted),
              IF entry.type = "starts" THEN <<piece, p.piece>> ELSE <<p.piece, piece>>)
    BY <1>2 DEF handle_partial_packet
  <2>. HIDE DEF p, found, wanted
  <2>3. QED  BY <2>1, <2>2 DEF found, wanted
<1>3. QED  BY <1>1, <1>2

\* Either way lookup and history stay together.
LEMMA ProperPartial ==
  ASSUME NEW state, Proper(state), NEW entry \in Entries, NEW piece \in Pieces
  PROVE  Proper(handle_partial_packet(state, entry, piece))
<1> DEFINE wanted == get_complement_fields(entry)
           next   == handle_partial_packet(state, entry, piece)
<1>1. state \in States /\ wanted \in Entries
  BY ComplementType DEF Proper
<1>2. CASE next = add_partial(state, entry, piece)
  BY <1>2, ProperKept
<1>3. ASSUME NEW p \in Found(state, wanted),
             next = handle_full_packet(remove_partial(state, wanted),
                      IF entry.type = "starts" THEN <<piece, p.piece>> ELSE <<p.piece, piece>>)
      PROVE  Proper(next)
  <2> DEFINE pieces == IF entry.type = "starts" THEN <<piece, p.piece>> ELSE <<p.piece, piece>>
             rest   == remove_partial(state, wanted)
  <2>1. p.piece \in Pieces
    BY <1>1 DEF Found, States, Partial
  <2>2. pieces \in Seq(Pieces)
    BY <2>1
  <2>3. Proper(rest)
    BY <1>1, ProperKept
  <2>4. next = handle_full_packet(rest, pieces)
    BY <1>3
  <2>. HIDE DEF rest, pieces, next
  <2>5. QED  BY <1>1, <2>2, <2>3, <2>4, ProperKept
<1>4. QED  BY <1>1, <1>2, <1>3, PartialCases

----------------------------------------------------------------------------
(* What a frame and a cleanup do, turn by turn. *)

Frames == [number : Numbers, count : PartialIds, before : Seq(Pieces), after : Seq(Pieces)]
ProperStates == {state \in States : Agrees(state)}

\* Pieces and the one skipped keep lookup and history together.
LEMMA ProperPieces ==
  ASSUME NEW frame \in Frames
  PROVE  /\ \A state \in ProperStates : HandleSkipped(state, frame) \in ProperStates
         /\ \A state \in ProperStates, piece \in Pieces :
              HandlePiece(state, frame.count, piece) \in ProperStates
<1>1. frame.count \in Int /\ frame.before \in Seq(Pieces) /\ {"starts", "ends"} \subseteq Types
  BY PartialsAssumption DEF Frames, PartialIds, Types
<1>2. Entry(mod(frame.count - 1), "ends") \in Entries
  BY <1>1, EntryType
<1>3. Entry(mod(frame.count + 1), "starts") \in Entries
  BY <1>1, EntryType
<1>4. ASSUME NEW state \in ProperStates
      PROVE  HandleSkipped(state, frame) \in ProperStates
  <2>1. Proper(state)
    BY DEF Proper, ProperStates
  <2>2. CASE frame.before = <<>>
    BY <2>2 DEF HandleSkipped
  <2>3. CASE frame.before # <<>>
    <3>1. Head(frame.before) \in Pieces
      BY <1>1, <2>3, HeadTailProperties
    <3>2. Proper(handle_partial_packet(state, Entry(mod(frame.count - 1), "ends"),
                                       Head(frame.before)))
      BY <1>2, <2>1, <3>1, ProperPartial
    <3>3. QED  BY <2>3, <3>2 DEF HandleSkipped, Proper, ProperStates
  <2>4. QED  BY <2>2, <2>3
<1>5. ASSUME NEW state \in ProperStates, NEW piece \in Pieces
      PROVE  HandlePiece(state, frame.count, piece) \in ProperStates
  <2>1. Proper(state) /\ <<piece>> \in Seq(Pieces)
    BY DEF Proper, ProperStates
  <2>2. Proper(handle_partial_packet(state, Entry(mod(frame.count + 1), "starts"), piece))
    BY <1>3, <2>1, ProperPartial
  <2>3. Proper(handle_full_packet(state, <<piece>>))
    BY <1>3, <2>1, ProperKept
  <2>4. QED  BY <2>2, <2>3 DEF HandlePiece, Proper, ProperStates
<1>6. QED  BY <1>4, <1>5

\* f[i] is the state after the first i packets that begin in a frame.
Turns(f, state, frame) ==
  /\ f[0] = HandleSkipped(state, frame)
  /\ \A i \in 1 .. Len(frame.after) : f[i] = HandlePiece(f[i - 1], frame.count, frame.after[i])

\* A frame is handled packet by packet.
LEMMA FrameTurns ==
  ASSUME NEW state \in ProperStates, NEW frame \in Frames
  PROVE  \E f \in [0 .. Len(frame.after) -> ProperStates] :
           Turns(f, state, frame) /\ handle_aos_frame(state, frame) = f[Len(frame.after)]
<1> DEFINE n == Len(frame.after)
           begun == HandleSkipped(state, frame)
           Turn(s, i) == HandlePiece(s, frame.count, frame.after[i])
           Body(g) == [i \in 0 .. Len(frame.after) |-> IF i = 0 THEN begun ELSE Turn(g[i - 1], i)]
           step == [t \in (1 .. n) \X ProperStates |-> Turn(t[2], t[1])]
           h == CHOOSE g : g = Body(g)
<1>1. n \in Nat /\ \A i \in 1 .. n : frame.after[i] \in Pieces
  BY DEF Frames
<1>2. begun \in ProperStates
  BY ProperPieces
<1>3. step \in [(1 .. n) \X ProperStates -> ProperStates]
  <2>1. \A t \in (1 .. n) \X ProperStates : Turn(t[2], t[1]) \in ProperStates
    BY <1>1, ProperPieces
  <2>. HIDE DEF Turn
  <2>2. QED  BY <2>1
<1>4. handle_aos_frame(state, frame) = h[n]
  BY DEF handle_aos_frame
<1>. HIDE DEF Turn, begun
<1>5. \A i \in 1 .. n : \A s \in ProperStates : step[<<i, s>>] = Turn(s, i)
  OBVIOUS
<1>. HIDE DEF step
<1>6. PICK f \in [0 .. n -> ProperStates] : Iterates(f, n, begun, step)
  BY <1>1, <1>2, <1>3, IterationExists
<1>7. f[0] = begun /\ \A i \in 1 .. n : f[i] = Turn(f[i - 1], i)
  <2>1. ASSUME NEW i \in 1 .. n
        PROVE  f[i] = Turn(f[i - 1], i)
    <3>1. f[i - 1] \in ProperStates
      <4>1. i - 1 \in 0 .. n
        BY <1>1
      <4>. HIDE DEF n
      <4>2. QED  BY <4>1
    <3>2. f[i] = step[<<i, f[i - 1]>>]
      BY <1>6 DEF Iterates
    <3>3. QED  BY <1>5, <3>1, <3>2
  <2>2. QED  BY <1>6, <2>1 DEF Iterates
<1>8. f = Body(f)
  <2>1. ASSUME NEW i \in 0 .. n
        PROVE  f[i] = Body(f)[i]
    <3>1. CASE i = 0
      <4>1. Body(f)[0] = begun
        BY <1>1
      <4>2. f[0] = Body(f)[0]
        BY <1>7, <4>1
      <4>3. QED  BY <3>1, <4>2
    <3>2. CASE i \in 1 .. n
      <4>1. i \in 0 .. Len(frame.after) /\ i # 0
        BY <1>1, <3>2
      <4>2. QED  BY <1>7, <3>2, <4>1
    <3>3. i = 0 \/ i \in 1 .. n
      BY <1>1
    <3>. HIDE DEF Body
    <3>4. QED  BY <3>1, <3>2, <3>3
  <2>2. DOMAIN f = DOMAIN Body(f) /\ f = [i \in DOMAIN f |-> f[i]]
    OBVIOUS
  <2>3. QED  BY <2>1, <2>2
<1>9. h = Body(h)
  BY <1>8
<1>10. h[0] = begun /\ \A i \in 1 .. n : h[i] = Turn(h[i - 1], i)
  <2>. HIDE DEF h
  <2>1. Body(h)[0] = begun
    BY <1>1
  <2>2. ASSUME NEW i \in 1 .. n
        PROVE  Body(h)[i] = Turn(h[i - 1], i)
    <3>1. i \in 0 .. Len(frame.after) /\ i # 0
      BY <1>1
    <3>2. QED  BY <3>1
  <2>. HIDE DEF Body
  <2>3. QED  BY <1>9, <2>1, <2>2
<1>. HIDE DEF h, Body
<1>11. StepAlike(f, h, n)
  BY <1>7, <1>10 DEF StepAlike
<1>12. \A i \in 0 .. n : f[i] = h[i]
  BY <1>1, <1>11, IterationsAgree
<1>13. handle_aos_frame(state, frame) = f[n]
  BY <1>1, <1>4, <1>12
<1>14. Turns(f, state, frame)
  BY <1>7 DEF Turns, Turn, begun
<1>15. QED  BY <1>13, <1>14

\* The oldest entry that is removed leaves lookup and history together; no packet is
\* completed and no partial comes to wait.
LEMMA OldestEffect ==
  ASSUME NEW state \in ProperStates, NEW turn \in Nat \ {0}
  PROVE  LET next == RemoveOldest(state, turn)
         IN  /\ next \in ProperStates
             /\ next.lookup \subseteq state.lookup
             /\ next.full_packets = state.full_packets
<1>1. CASE ~(turn - 1 < Len(state.history))
  BY <1>1 DEF RemoveOldest
<1>2. CASE turn - 1 < Len(state.history)
  <2> DEFINE entry == Head(state.history)
             next == remove_partial(state, entry)
  <2>1. state.history \in Seq(Entries) /\ state.history # <<>>
    <3>1. state.history \in Seq(Entries) /\ Len(state.history) \in Nat
      BY DEF ProperStates, States
    <3>2. Len(state.history) # 0
      BY <1>2, <3>1
    <3>3. QED  BY <3>1, <3>2, EmptySeq
  <2>2. entry \in Entries
    BY <2>1, HeadTailProperties
  <2>3. RemoveOldest(state, turn) = next
    BY <1>2 DEF RemoveOldest
  <2>4. state \in States /\ Proper(state)
    BY DEF ProperStates, Proper
  <2>. HIDE DEF entry
  <2>5. Proper(next)
    BY <2>2, <2>4, ProperKept
  <2>6. next.lookup = state.lookup \ Found(state, entry) /\ next.full_packets = state.full_packets
    BY <2>4, RemoveEffect
  <2>. HIDE DEF next
  <2>7. QED  BY <2>3, <2>5, <2>6 DEF Proper, ProperStates
<1>3. QED  BY <1>1, <1>2

\* So does a cleanup.
LEMMA CleanupEffect ==
  ASSUME NEW state \in ProperStates
  PROVE  LET next == perform_cleanup(state)
         IN  /\ next \in ProperStates
             /\ next.lookup \subseteq state.lookup
             /\ next.full_packets = state.full_packets
<1> DEFINE n == CleanupCount
           T == {s \in ProperStates : /\ s.lookup \subseteq state.lookup
                                      /\ s.full_packets = state.full_packets}
           Body(g) == [i \in 0 .. CleanupCount |->
                         IF i = 0 THEN state ELSE RemoveOldest(g[i - 1], i)]
           step == [t \in (1 .. n) \X T |-> RemoveOldest(t[2], t[1])]
           h == CHOOSE g : g = Body(g)
<1>1. n \in Nat
  BY PartialsAssumption DEF CleanupCount
<1>. HIDE DEF n
<1>2. state \in T
  OBVIOUS
<1>3. ASSUME NEW s \in T, NEW i \in 1 .. n
      PROVE  RemoveOldest(s, i) \in T
  <2> DEFINE next == RemoveOldest(s, i)
  <2>1. i \in Nat \ {0} /\ s \in ProperStates
    BY <1>1
  <2>2. /\ next \in ProperStates /\ next.lookup \subseteq s.lookup
        /\ next.full_packets = s.full_packets
    BY <2>1, OldestEffect
  <2>. HIDE DEF next
  <2>3. next \in T
    BY <2>2
  <2>4. QED  BY <2>3 DEF next
<1>. HIDE DEF T
<1>4. step \in [(1 .. n) \X T -> T]
  BY <1>3
<1>5. perform_cleanup(state) = h[n]
  BY DEF perform_cleanup, n
<1>6. \A i \in 1 .. n : \A s \in T : step[<<i, s>>] = RemoveOldest(s, i)
  OBVIOUS
<1>. HIDE DEF step
<1>7. PICK f \in [0 .. n -> T] : Iterates(f, n, state, step)
  BY <1>1, <1>2, <1>4, IterationExists
<1>8. f[0] = state /\ \A i \in 1 .. n : f[i] = RemoveOldest(f[i - 1], i)
  <2>1. ASSUME NEW i \in 1 .. n
        PROVE  f[i] = RemoveOldest(f[i - 1], i)
    <3>1. f[i - 1] \in T
      <4>1. i - 1 \in 0 .. n
        BY <1>1
      <4>2. QED  BY <4>1
    <3>2. f[i] = step[<<i, f[i - 1]>>]
      BY <1>7 DEF Iterates
    <3>3. QED  BY <1>6, <3>1, <3>2
  <2>2. QED  BY <1>7, <2>1 DEF Iterates
<1>9. f = Body(f)
  <2>1. ASSUME NEW i \in 0 .. n
        PROVE  f[i] = Body(f)[i]
    <3>1. CASE i = 0
      <4>1. Body(f)[0] = state
        BY <1>1 DEF n
      <4>2. f[0] = Body(f)[0]
        BY <1>8, <4>1
      <4>3. QED  BY <3>1, <4>2
    <3>2. CASE i \in 1 .. n
      <4>1. i \in 0 .. CleanupCount /\ i # 0
        BY <1>1, <3>2 DEF n
      <4>2. QED  BY <1>8, <3>2, <4>1
    <3>3. i = 0 \/ i \in 1 .. n
      BY <1>1
    <3>. HIDE DEF Body
    <3>4. QED  BY <3>1, <3>2, <3>3
  <2>2. DOMAIN f = DOMAIN Body(f) /\ f = [i \in DOMAIN f |-> f[i]]
    BY DEF n
  <2>3. QED  BY <2>1, <2>2
<1>10. h = Body(h)
  BY <1>9
<1>11. h[0] = state /\ \A i \in 1 .. n : h[i] = RemoveOldest(h[i - 1], i)
  <2>. HIDE DEF h
  <2>1. Body(h)[0] = state
    BY <1>1 DEF n
  <2>2. ASSUME NEW i \in 1 .. n
        PROVE  Body(h)[i] = RemoveOldest(h[i - 1], i)
    <3>1. i \in 0 .. CleanupCount /\ i # 0
      BY <1>1 DEF n
    <3>2. QED  BY <3>1
  <2>. HIDE DEF Body
  <2>3. QED  BY <1>10, <2>1, <2>2
<1>. HIDE DEF h, Body
<1>12. StepAlike(f, h, n)
  BY <1>8, <1>11 DEF StepAlike
<1>13. \A i \in 0 .. n : f[i] = h[i]
  BY <1>1, <1>12, IterationsAgree
<1>14. perform_cleanup(state) \in T
  BY <1>1, <1>5, <1>13
<1>15. QED  BY <1>14 DEF T

----------------------------------------------------------------------------
(* Types and the history. *)

\* A frame keeps lookup and history together.
LEMMA FrameEffect ==
  ASSUME NEW state \in ProperStates, NEW frame \in Frames
  PROVE  handle_aos_frame(state, frame) \in ProperStates
<1> DEFINE n == Len(frame.after)
<1>1. n \in 0 .. n
  BY DEF Frames
<1>. HIDE DEF n
<1>2. PICK f \in [0 .. n -> ProperStates] : handle_aos_frame(state, frame) = f[n]
  BY FrameTurns DEF n
<1>3. QED  BY <1>1, <1>2

\* What the variables are, the frames included.
TypeInv ==
  /\ Processor \in ProperStates
  /\ handled \in SUBSET Numbers /\ cleaned \in SUBSET Pieces
  /\ overtaken \subseteq handled \X handled
  /\ frame_queue \in Seq(Frames) /\ Len(frame_queue) <= QueueLength
  /\ sent \in Seq(Frames) /\ Len(sent) <= MaxFrames
  /\ transit \in SUBSET Frames

\* The processor becomes the state that its method returns.
LEMMA BecomesState ==
  ASSUME NEW state \in ProperStates, Becomes(state)
  PROVE  Processor' = state
<1>1. state \in States
  BY DEF ProperStates
<1>2. state = [lookup |-> state.lookup, history |-> state.history,
               full_packets |-> state.full_packets]
  BY <1>1 DEF States
<1>3. QED  BY <1>2 DEF Becomes, Processor

\* A packet that is not complete yet is known by a frame.
LEMMA UnfinishedType ==
  ASSUME sent \in Seq(Frames)
  PROVE  Unfinished \subseteq Numbers
<1> DEFINE last   == Last(sent)
           pieces == last.before \o last.after
<1>1. CASE sent = <<>>
  BY <1>1 DEF Unfinished
<1>2. CASE sent # <<>>
  <2>1. Len(sent) \in 1 .. Len(sent)
    BY <1>2, EmptySeq
  <2>2. last \in Frames
    BY <2>1, ElementOfSeq DEF Last
  <2>. HIDE DEF last
  <2>3. last.before \in Seq(Pieces) /\ last.after \in Seq(Pieces)
    BY <2>2 DEF Frames
  <2>4. pieces \in Seq(Pieces)
    BY <2>3, ConcatProperties
  <2>5. Unfinished = IF pieces # <<>> /\ Last(pieces).part \in {"start", "middle"}
                     THEN {Last(pieces).packet} ELSE {}
    BY <1>2 DEF Unfinished, last
  <2>. HIDE DEF pieces
  <2>6. CASE pieces # <<>>
    <3>1. Len(pieces) \in 1 .. Len(pieces)
      BY <2>4, <2>6, EmptySeq
    <3>2. Last(pieces) \in Pieces
      BY <2>4, <3>1, ElementOfSeq DEF Last
    <3>3. Last(pieces).packet \in Numbers
      BY <3>2 DEF Pieces
    <3>4. QED  BY <2>5, <3>3
  <2>7. CASE pieces = <<>>
    BY <2>5, <2>7
  <2>8. QED  BY <2>6, <2>7
<1>3. QED  BY <1>1, <1>2

\* What the spacecraft sends is a frame.
LEMMA FrameType ==
  ASSUME sent \in Seq(Frames), NEW number \in Numbers,
         NEW before \in Befores(number), NEW after \in Afters(number, before)
  PROVE  Frame(number, before, after) \in Frames
<1>1. \A packet \in Numbers, part \in Parts : <<Piece(packet, part)>> \in Seq(Pieces)
  <2> SUFFICES ASSUME NEW packet \in Numbers, NEW part \in Parts
               PROVE  <<Piece(packet, part)>> \in Seq(Pieces)
    OBVIOUS
  <2>1. Piece(packet, part) \in Pieces
    BY DEF Piece, Pieces
  <2>2. QED  BY <2>1
<1>2. {"whole", "start", "middle", "end", "idle"} \subseteq Parts
  BY DEF Parts
<1>3. before \in Seq(Pieces)
  <2>1. CASE Unfinished = {}
    <3>1. before = <<>> \/ before = <<Piece(number, "idle")>>
      BY <2>1 DEF Befores
    <3>2. <<Piece(number, "idle")>> \in Seq(Pieces)
      BY <1>1, <1>2
    <3>3. QED  BY <3>1, <3>2, EmptySeq
  <2>2. CASE Unfinished # {}
    <3>1. \E p \in Unfinished, part \in {"middle", "end"} : before = <<Piece(p, part)>>
      BY <2>2 DEF Befores
    <3>2. PICK p \in Unfinished, part \in {"middle", "end"} : before = <<Piece(p, part)>>
      BY <3>1
    <3>3. p \in Numbers /\ part \in Parts
      BY <1>2, UnfinishedType
    <3>4. QED  BY <1>1, <3>2, <3>3
  <2>3. QED  BY <2>1, <2>2
<1>4. after \in Seq(Pieces)
  BY <1>1, <1>2, EmptySeq DEF Afters
<1>5. (number + FirstCount) % FrameModulo \in PartialIds
  <2>1. number + FirstCount \in Int
    BY PartialsAssumption DEF Numbers
  <2>2. QED  BY <2>1, PartialsAssumption, ModRange DEF PartialIds
<1>6. QED  BY <1>3, <1>4, <1>5 DEF Frame, Frames

\* Every step keeps types, lookup and history.
LEMMA TypeStep ==
  ASSUME TypeInv, [Next]_vars
  PROVE  TypeInv'
<1>. USE DEF TypeInv
<1>1. CASE HandleFrame
  <2> DEFINE frame == Head(frame_queue)
             state == handle_aos_frame(Processor, frame)
  <2>1. frame \in Frames
    BY <1>1, HeadTailProperties DEF HandleFrame
  <2>2. frame_queue' \in Seq(Frames) /\ Len(frame_queue') <= QueueLength
    <3>1. /\ frame_queue # <<>> /\ frame_queue' = Tail(frame_queue)
          /\ Len(frame_queue) \in Nat
      BY <1>1 DEF HandleFrame
    <3>2. Tail(frame_queue) \in Seq(Frames) /\ Len(Tail(frame_queue)) = Len(frame_queue) - 1
      BY <3>1, HeadTailProperties
    <3>3. QED  BY <3>1, <3>2, PartialsAssumption
  <2>3. handled' \in SUBSET Numbers
    BY <1>1, <2>1 DEF HandleFrame, Frames
  <2>4. state \in ProperStates
    BY <2>1, FrameEffect
  <2>5. Becomes(state)
    BY <1>1 DEF HandleFrame
  <2>. HIDE DEF state
  <2>6. Processor' \in ProperStates
    BY <2>4, <2>5, BecomesState
  <2>7. overtaken' \subseteq handled' \X handled'
    BY <1>1 DEF HandleFrame, Overtakers
  <2>8. UNCHANGED <<cleaned, sent, transit>>
    BY <1>1 DEF HandleFrame
  <2>9. QED  BY <2>2, <2>3, <2>6, <2>7, <2>8
<1>2. CASE Cleanup
  <2> DEFINE state == perform_cleanup(Processor)
  <2>1. state \in ProperStates
    BY CleanupEffect
  <2>2. Becomes(state) /\ cleaned' = cleaned \cup {p.piece : p \in lookup \ state.lookup}
    BY <1>2 DEF Cleanup
  <2>. HIDE DEF state
  <2>3. Processor' \in ProperStates
    BY <2>1, <2>2, BecomesState
  <2>4. lookup \in SUBSET Partial
    BY DEF Processor, ProperStates, States
  <2>5. cleaned' \in SUBSET Pieces
    BY <2>2, <2>4 DEF Partial
  <2>6. QED  BY <1>2, <2>3, <2>5 DEF Cleanup
<1>3. ASSUME NEW frame \in transit, Arrive(frame)
      PROVE  TypeInv'
  <2> DEFINE waiting == IF Len(frame_queue) = QueueLength THEN Tail(frame_queue)
                        ELSE frame_queue
  <2>1. frame \in Frames /\ frame_queue' = Append(waiting, frame)
    BY <1>3 DEF Arrive
  <2>2. waiting \in Seq(Frames) /\ Len(waiting) + 1 <= QueueLength
    <3>1. Len(frame_queue) \in Nat /\ QueueLength \in Nat \ {0}
      BY PartialsAssumption
    <3>2. CASE Len(frame_queue) = QueueLength
      <4>1. frame_queue # <<>>
        BY <3>1, <3>2, EmptySeq
      <4>2. /\ Tail(frame_queue) \in Seq(Frames)
            /\ Len(Tail(frame_queue)) = Len(frame_queue) - 1
        BY <4>1, HeadTailProperties
      <4>3. QED  BY <3>1, <3>2, <4>2
    <3>3. CASE Len(frame_queue) # QueueLength
      BY <3>1, <3>3
    <3>4. QED  BY <3>2, <3>3
  <2>. HIDE DEF waiting
  <2>3. frame_queue' \in Seq(Frames) /\ Len(frame_queue') <= QueueLength
    BY <2>1, <2>2, AppendProperties
  <2>4. UNCHANGED <<Processor, handled, overtaken, cleaned, sent>> /\ transit' \subseteq transit
    BY <1>3 DEF Arrive, processorVars, Processor
  <2>5. QED  BY <2>3, <2>4
<1>4. CASE Send
  <2> DEFINE number == Len(sent)
  <2>1. PICK before \in Befores(number) : \E after \in Afters(number, before) :
          /\ sent' = Append(sent, Frame(number, before, after))
          /\ transit' = transit \cup {Frame(number, before, after)}
    BY <1>4 DEF Send
  <2>2. PICK after \in Afters(number, before) :
          /\ sent' = Append(sent, Frame(number, before, after))
          /\ transit' = transit \cup {Frame(number, before, after)}
    BY <2>1
  <2>3. number \in Numbers
    BY <1>4, PartialsAssumption DEF Send, Numbers
  <2> DEFINE frame == Frame(number, before, after)
  <2>4. frame \in Frames
    BY <2>3, FrameType
  <2>. HIDE DEF frame
  <2>5. sent' \in Seq(Frames) /\ Len(sent') = Len(sent) + 1 /\ transit' \in SUBSET Frames
    BY <2>2, <2>4, AppendProperties DEF frame
  <2>6. UNCHANGED <<Processor, handled, overtaken, cleaned, frame_queue>> /\ Len(sent') <= MaxFrames
    BY <1>4, <2>5, PartialsAssumption DEF Send, processorVars, Processor
  <2>7. QED  BY <2>5, <2>6
<1>5. ASSUME NEW frame \in transit, Lose(frame)
      PROVE  TypeInv'
  BY <1>5 DEF Lose, processorVars, Processor
<1>6. CASE UNCHANGED vars
  BY <1>6 DEF vars, processorVars, Processor
<1>7. QED  BY <1>1, <1>2, <1>3, <1>4, <1>5, <1>6 DEF Next

\* Types, lookup and history hold at first.
LEMMA TypeInit == Init => TypeInv
<1>1. ASSUME Init
      PROVE  Processor \in ProperStates
  <2>1. Processor = [lookup |-> {}, history |-> <<>>, full_packets |-> <<>>]
    BY <1>1 DEF Init, Processor
  <2>2. Processor \in States
    BY <2>1, EmptySeq DEF States
  <2>3. ToSet(<<>>) = {}
    BY EmptySeq DEF ToSet
  <2>4. QED  BY <2>1, <2>2, <2>3 DEF ProperStates, Agrees
<1>2. QED  BY <1>1, EmptySeq, PartialsAssumption DEF Init, TypeInv

\* The types follow.
LEMMA TypesFollow == TypeInv => TypeOK /\ HistoryAgrees
<1> SUFFICES ASSUME TypeInv PROVE TypeOK /\ HistoryAgrees
  OBVIOUS
<1>1. /\ lookup \in SUBSET Partial /\ history \in Seq(Entries)
      /\ full_packets \in Seq(Seq(Pieces))
      /\ ToSet(history) = {p.entry : p \in lookup}
  BY DEF TypeInv, Processor, ProperStates, States, Agrees
<1>2. \A i \in DOMAIN full_packets : full_packets[i] \in Seq(Pieces)
  <2>. DEFINE T == Seq(Pieces)
  <2>. HIDE DEF T
  <2>1. full_packets \in Seq(T)
    BY <1>1 DEF T
  <2>2. QED  BY <2>1 DEF T
<1>3. handled \cup {frame.number : frame \in transit} \subseteq Numbers
  BY DEF TypeInv, Frames
<1>4. QED  BY <1>1, <1>2, <1>3 DEF TypeInv, TypeOK, HistoryAgrees, Partial

\* Every variable keeps its type, whatever frames are lost, overtaken, dropped or cleaned
\* away, and with any modulus.
THEOREM TypeOKHolds == Spec => []TypeOK
BY TypeInit, TypeStep, TypesFollow, PTL DEF Spec

\* The history names just what waits, so that the cleanup finds the oldest: no add, join or
\* cleanup leaves one without the other.
THEOREM HistoryAgreesHolds == Spec => []HistoryAgrees
BY TypeInit, TypeStep, TypesFollow, PTL DEF Spec

----------------------------------------------------------------------------
(* Fewer frames than their count can tell apart. *)

\* The count does not come within three of where it began.
Separate == MaxFrames <= FrameModulo - 3

\* Where the partials of frame n wait: the packet that begins in it, and what it begins with.
StartEntry(n) == Entry(mod(n + FirstCount + 1), "starts")
EndEntry(n) == Entry(mod(n + FirstCount - 1), "ends")

\* The processor works them out from the count.
LEMMA EntriesOfCount ==
  ASSUME NEW n \in Int, NEW count, count = (n + FirstCount) % FrameModulo
  PROVE  Entry(mod(count + 1), "starts") = StartEntry(n) /\ Entry(mod(count - 1), "ends") = EndEntry(n)
<1> DEFINE a == n + FirstCount
<1>1. FrameModulo \in Nat \ {0} /\ a \in Int /\ 1 \in Int /\ -1 \in Int
  BY PartialsAssumption
<1>2. (count + 1) % FrameModulo = (a + 1) % FrameModulo
  BY <1>1, ModPlus
<1>3. (count + (-1)) % FrameModulo = (a + (-1)) % FrameModulo
  <2>. HIDE DEF a
  <2>1. ((a % FrameModulo) + (-1)) % FrameModulo = (a + (-1)) % FrameModulo
    BY <1>1, ModPlus
  <2>2. QED  BY <2>1 DEF a
<1>4. count \in Int
  BY <1>1, ModRange
<1>5. count + (-1) = count - 1 /\ a + (-1) = a - 1
  BY <1>1, <1>4
<1>6. mod(count + 1) = mod(n + FirstCount + 1)
  BY <1>2 DEF mod
<1>7. mod(count - 1) = mod(n + FirstCount - 1)
  <2>1. (count - 1) % FrameModulo = (a - 1) % FrameModulo
    <3>. HIDE DEF a
    <3>1. QED  BY <1>3, <1>5
  <2>2. a - 1 = n + FirstCount - 1
    BY PartialsAssumption
  <2>. HIDE DEF a
  <2>3. QED  BY <2>1, <2>2 DEF mod
<1>8. QED  BY <1>6, <1>7 DEF StartEntry, EndEntry

\* What a frame begins with complements what began in the frame before; what begins in it
\* is held against what the third frame after it begins with.
LEMMA Complements ==
  ASSUME NEW n \in Int
  PROVE  /\ get_complement_fields(EndEntry(n)) = StartEntry(n - 1)
         /\ get_complement_fields(StartEntry(n)) = EndEntry(n + 3)
<1> DEFINE a == n + FirstCount - 1
           b == n + FirstCount + 1
<1>1. FrameModulo \in Nat \ {0} /\ a \in Int /\ b \in Int /\ 1 \in Int
  BY PartialsAssumption
<1>2. (mod(a) + 1) % FrameModulo = (a + 1) % FrameModulo
  BY <1>1, ModPlus DEF mod
<1>3. (mod(b) + 1) % FrameModulo = (b + 1) % FrameModulo
  BY <1>1, ModPlus DEF mod
<1>4. a + 1 = (n - 1) + FirstCount + 1 /\ b + 1 = (n + 3) + FirstCount - 1
  BY PartialsAssumption
<1>5. get_complement_fields(EndEntry(n)) = Entry((mod(a) + 1) % FrameModulo, "starts")
  BY DEF get_complement_fields, EndEntry, Entry, mod
<1>6. get_complement_fields(StartEntry(n)) = Entry((mod(b) + 1) % FrameModulo, "ends")
  BY DEF get_complement_fields, StartEntry, Entry, mod
<1>. HIDE DEF a, b
<1>7. QED  BY <1>2, <1>3, <1>4, <1>5, <1>6 DEF StartEntry, EndEntry, mod

\* Frames whose numbers are nearer than the modulus have entries of their own.
LEMMA EntriesDiffer ==
  ASSUME NEW a \in Int, NEW b \in Int, a - b < FrameModulo, b - a < FrameModulo
  PROVE  /\ StartEntry(a) = StartEntry(b) => a = b
         /\ EndEntry(a) = EndEntry(b) => a = b
         /\ StartEntry(a) # EndEntry(b)
<1>1. FrameModulo \in Nat \ {0} /\ FirstCount \in Nat
  BY PartialsAssumption
<1>2. StartEntry(a) # EndEntry(b)
  BY DEF StartEntry, EndEntry, Entry
<1>3. ASSUME StartEntry(a) = StartEntry(b)
      PROVE  a = b
  <2> DEFINE x == a + FirstCount + 1
             y == b + FirstCount + 1
  <2>1. x % FrameModulo = y % FrameModulo
    BY <1>3 DEF StartEntry, Entry, mod
  <2>2. x \in Int /\ y \in Int /\ x - y = a - b /\ y - x = b - a
    BY <1>1
  <2>. HIDE DEF x, y
  <2>3. x = y
    BY <1>1, <2>1, <2>2, ModEqual
  <2>4. QED  BY <2>2, <2>3
<1>4. ASSUME EndEntry(a) = EndEntry(b)
      PROVE  a = b
  <2> DEFINE x == a + FirstCount - 1
             y == b + FirstCount - 1
  <2>1. x % FrameModulo = y % FrameModulo
    BY <1>4 DEF EndEntry, Entry, mod
  <2>2. x \in Int /\ y \in Int /\ x - y = a - b /\ y - x = b - a
    BY <1>1
  <2>. HIDE DEF x, y
  <2>3. x = y
    BY <1>1, <2>1, <2>2, ModEqual
  <2>4. QED  BY <2>2, <2>3
<1>5. QED  BY <1>2, <1>3, <1>4

\* They are entries.
LEMMA EntriesTyped ==
  ASSUME NEW n \in Int
  PROVE  StartEntry(n) \in Entries /\ EndEntry(n) \in Entries
<1>1. /\ n + FirstCount + 1 \in Int /\ n + FirstCount - 1 \in Int
      /\ "starts" \in Types /\ "ends" \in Types
  BY PartialsAssumption DEF Types
<1>2. QED  BY <1>1, EntryType DEF StartEntry, EndEntry

\* Whether a packet begins in frame n and goes on.
Begins(frames, n) ==
  n + 1 \in 1 .. Len(frames) /\ frames[n + 1].after = <<Piece(n, "start")>>

\* Whether frame n begins with a piece and with nothing else before its packets.
Opens(frames, n, piece) == n + 1 \in 1 .. Len(frames) /\ frames[n + 1].before = <<piece>>

\* Whether packet p goes on after frame n.
GoesOn(frames, n, p) ==
  \/ p = n /\ Begins(frames, n)
  \/ Opens(frames, n, Piece(p, "middle")) /\ frames[n + 1].after = <<>>

\* How the spacecraft lays packets into frame n.
Laid(frames, n) ==
  LET frame == frames[n + 1]
  IN  /\ frame.number = n /\ frame.count = (n + FirstCount) % FrameModulo
      /\ \/ ~Begins(frames, n - 1) /\ frame.before \in {<<>>, <<Piece(n, "idle")>>}
         \/ \E p \in Numbers : /\ GoesOn(frames, n - 1, p)
                               /\ frame.before \in {<<Piece(p, "middle")>>, <<Piece(p, "end")>>}
      /\ frame.after \in {<<>>, <<Piece(n, "whole")>>, <<Piece(n, "start")>>}

LaidInv == \A n \in 0 .. Len(sent) - 1 : Laid(sent, n)

Known(frames, frame) == frame.number + 1 \in 1 .. Len(frames) /\ frame = frames[frame.number + 1]

\* The frames handled, in the queue and on their way were sent.
SentInv ==
  /\ \A n \in handled : n < Len(sent)
  /\ \A i \in 1 .. Len(frame_queue) : Known(sent, frame_queue[i])
  /\ \A frame \in transit : Known(sent, frame)

\* What may come out of the joining, in terms of the frames sent and of those overtaken.
Sound(pieces, frames, crossed) ==
  \/ Len(pieces) = 1 /\ pieces[1].part = "whole"
  \/ \E n \in Numbers : \E part \in {"middle", "end"} :
       /\ pieces = <<Piece(n, "start"), Piece(n, part)>>
       /\ Opens(frames, n + 1, Piece(n, part))
  \/ \E n \in Numbers :
       /\ <<n, n + 3>> \in crossed
       /\ Len(pieces) = 2 /\ pieces[1] = Piece(n, "start")
       /\ Opens(frames, n + 3, pieces[2])

AllSound(state, frames, crossed) ==
  \A i \in DOMAIN state.full_packets : Sound(state.full_packets[i], frames, crossed)

\* Whether the start in frame n was joined with something.
Joined(state, n) ==
  \E i \in DOMAIN state.full_packets :
    Len(state.full_packets[i]) = 2 /\ state.full_packets[i][1] = Piece(n, "start")

Waits(state, n) == [entry |-> StartEntry(n), piece |-> Piece(n, "start")] \in state.lookup

\* Every partial that waits is of a frame that was handled.
Explained(state, done, frames) ==
  \A p \in state.lookup :
    \E n \in done :
      \/ p.entry = StartEntry(n) /\ Begins(frames, n) /\ p.piece = Piece(n, "start")
      \/ p.entry = EndEntry(n) /\ Opens(frames, n, p.piece)

\* Every start was joined, or waits and the frame after it is not among those done, or came
\* after that frame.
Paired(state, among, done, gone, frames, crossed) ==
  \A n \in among :
    Begins(frames, n) /\ Piece(n, "start") \notin gone
      => \/ Joined(state, n)
         \/ Waits(state, n) /\ n + 1 \notin done
         \/ <<n, n + 1>> \in crossed

\* The frames that were sent, those done, the number of the next to be handled, and the
\* pairs of which the later is done first.
InPlace(frames, done, k, crossed) ==
  /\ frames \in Seq(Frames) /\ Len(frames) <= MaxFrames
  /\ \A n \in 0 .. Len(frames) - 1 : Laid(frames, n)
  /\ done \in SUBSET Numbers /\ \A n \in done : n < Len(frames)
  /\ k \in 0 .. Len(frames) - 1
  /\ \A n \in done : n > k => <<k, n>> \in crossed

\* What the state is before a frame is handled.
Ready(state, done, gone, frames, crossed) ==
  /\ state \in ProperStates
  /\ Explained(state, done, frames)
  /\ AllSound(state, frames, crossed)
  /\ Paired(state, done, done, gone, frames, crossed)

JoinInv == Ready(Processor, handled, cleaned, sent, overtaken)

\* Numbers of frames are nearer to each other than the modulus.
LEMMA NumbersNear ==
  ASSUME Separate, NEW n \in Numbers, NEW k \in Numbers
  PROVE  /\ n \in Int /\ k \in Int /\ k - 1 \in Int /\ k + 3 \in Int
         /\ n - k < FrameModulo /\ k - n < FrameModulo
         /\ n - (k - 1) < FrameModulo /\ (k - 1) - n < FrameModulo
         /\ n - (k + 3) < FrameModulo /\ (k + 3) - n < FrameModulo
<1>1. /\ FrameModulo \in Nat /\ MaxFrames \in Nat /\ MaxFrames <= FrameModulo - 3
      /\ n \in 0 .. MaxFrames - 1 /\ k \in 0 .. MaxFrames - 1
  BY PartialsAssumption DEF Separate, Numbers
<1>2. QED  BY <1>1

\* A frame in its place is one of the frames sent.
LEMMA FrameInPlace ==
  ASSUME NEW frames, NEW done, NEW k, NEW crossed, InPlace(frames, done, k, crossed)
  PROVE  /\ frames[k + 1] \in Frames /\ k + 1 \in 1 .. Len(frames) /\ k \in Numbers
         /\ k \in Int /\ done \in SUBSET Numbers
<1>1. /\ frames \in Seq(Frames) /\ Len(frames) <= MaxFrames /\ done \in SUBSET Numbers
      /\ k \in 0 .. Len(frames) - 1
  BY DEF InPlace
<1>2. Len(frames) \in Nat /\ MaxFrames \in Nat
  BY <1>1, PartialsAssumption
<1>3. k + 1 \in 1 .. Len(frames) /\ k \in 0 .. MaxFrames - 1
  BY <1>1, <1>2
<1>4. QED  BY <1>1, <1>3, ElementOfSeq DEF Numbers

\* One more packet completed.
LEMMA StillJoined ==
  ASSUME NEW state \in States, NEW pieces \in Seq(Pieces), NEW next,
         next.full_packets = Append(state.full_packets, pieces), NEW frames, NEW crossed
  PROVE  /\ AllSound(state, frames, crossed) /\ Sound(pieces, frames, crossed)
              => AllSound(next, frames, crossed)
         /\ \A n : Joined(state, n) => Joined(next, n)
         /\ \A n : Len(pieces) = 2 /\ pieces[1] = Piece(n, "start") => Joined(next, n)
<1> DEFINE T == Seq(Pieces)
           full == state.full_packets
<1>1. full \in Seq(T)
  BY DEF States
<1>2. pieces \in T
  OBVIOUS
<1>. HIDE DEF T
<1>3. /\ Len(full) \in Nat /\ DOMAIN full = 1 .. Len(full)
      /\ DOMAIN next.full_packets = 1 .. Len(full) + 1
      /\ next.full_packets[Len(full) + 1] = pieces
      /\ \A i \in 1 .. Len(full) : next.full_packets[i] = full[i]
  BY <1>1, <1>2, AppendProperties
<1>. HIDE DEF full
<1>4. ASSUME AllSound(state, frames, crossed), Sound(pieces, frames, crossed)
      PROVE  AllSound(next, frames, crossed)
  BY <1>3, <1>4 DEF AllSound, full
<1>5. ASSUME NEW n, Joined(state, n)
      PROVE  Joined(next, n)
  <2>1. PICK i \in DOMAIN full : Len(full[i]) = 2 /\ full[i][1] = Piece(n, "start")
    BY <1>5 DEF Joined, full
  <2>2. i \in DOMAIN next.full_packets /\ next.full_packets[i] = full[i]
    BY <1>3, <2>1
  <2>3. QED  BY <2>1, <2>2 DEF Joined
<1>6. ASSUME NEW n, Len(pieces) = 2, pieces[1] = Piece(n, "start")
      PROVE  Joined(next, n)
  <2>1. Len(full) + 1 \in DOMAIN next.full_packets
    BY <1>3
  <2>2. QED  BY <1>3, <1>6, <2>1 DEF Joined
<1>7. QED  BY <1>4, <1>5, <1>6

\* What comes to wait is explained, and nothing else stops waiting.
LEMMA AddedExplained ==
  ASSUME NEW state \in States, NEW k \in Int, NEW entry \in {StartEntry(k), EndEntry(k)},
         NEW piece \in Pieces, NEW frames, NEW done, Explained(state, done, frames),
         entry = StartEntry(k) => Begins(frames, k) /\ piece = Piece(k, "start"),
         entry = EndEntry(k) => Opens(frames, k, piece)
  PROVE  LET next == add_partial(state, entry, piece)
         IN  /\ Explained(next, done \cup {k}, frames)
             /\ next.full_packets = state.full_packets
             /\ \A n : Waits(state, n) /\ StartEntry(n) # entry => Waits(next, n)
             /\ entry = StartEntry(k) => Waits(next, k)
<1> DEFINE next == add_partial(state, entry, piece)
           new  == [entry |-> entry, piece |-> piece]
<1>1. /\ next.lookup = (state.lookup \ Found(state, entry)) \cup {new}
      /\ next.full_packets = state.full_packets
  BY EntriesTyped, AddEffect
<1>2. new.entry = entry /\ new.piece = piece
  OBVIOUS
<1>3. new = [entry |-> entry, piece |-> piece]
  OBVIOUS
<1>. HIDE DEF next, new
<1>4. Explained(next, done \cup {k}, frames)
  BY <1>1, <1>2 DEF Explained
<1>5. ASSUME NEW n, Waits(state, n), StartEntry(n) # entry
      PROVE  Waits(next, n)
  <2>1. [entry |-> StartEntry(n), piece |-> Piece(n, "start")] \notin Found(state, entry)
    BY <1>5 DEF Found
  <2>2. QED  BY <1>1, <1>5, <2>1 DEF Waits
<1>6. entry = StartEntry(k) => Waits(next, k)
  BY <1>1, <1>3 DEF Waits
<1>7. QED  BY <1>1, <1>4, <1>5, <1>6 DEF next

\* The start that waits under the complement of what frame k begins with is of the frame
\* before.
LEMMA StartFound ==
  ASSUME Separate, NEW k \in Numbers, NEW done \in SUBSET Numbers, NEW frames, NEW state,
         Explained(state, done, frames), NEW p \in Found(state, StartEntry(k - 1))
  PROVE  k - 1 \in done /\ Begins(frames, k - 1) /\ p.piece = Piece(k - 1, "start")
<1>1. p \in state.lookup /\ p.entry = StartEntry(k - 1)
  BY DEF Found
<1>2. PICK n \in done :
        \/ p.entry = StartEntry(n) /\ Begins(frames, n) /\ p.piece = Piece(n, "start")
        \/ p.entry = EndEntry(n)
  BY <1>1 DEF Explained
<1>3. /\ n \in Int /\ k - 1 \in Int
      /\ n - (k - 1) < FrameModulo /\ (k - 1) - n < FrameModulo
  BY NumbersNear
<1>4. StartEntry(k - 1) # EndEntry(n) /\ (StartEntry(k - 1) = StartEntry(n) => k - 1 = n)
  BY <1>3, EntriesDiffer
<1>5. n = k - 1
  BY <1>1, <1>2, <1>4
<1>6. QED  BY <1>1, <1>2, <1>4, <1>5

\* The end that waits under the complement of what begins in frame k is of the third frame
\* after it.
LEMMA EndFound ==
  ASSUME Separate, NEW k \in Numbers, NEW done \in SUBSET Numbers, NEW frames, NEW state,
         Explained(state, done \cup {k}, frames), NEW p \in Found(state, EndEntry(k + 3))
  PROVE  k + 3 \in done /\ Opens(frames, k + 3, p.piece)
<1>1. p \in state.lookup /\ p.entry = EndEntry(k + 3)
  BY DEF Found
<1>2. PICK n \in done \cup {k} :
        \/ p.entry = StartEntry(n)
        \/ p.entry = EndEntry(n) /\ Opens(frames, n, p.piece)
  BY <1>1 DEF Explained
<1>3. /\ n \in Int /\ k \in Int /\ k + 3 \in Int /\ n \in Numbers
      /\ n - (k + 3) < FrameModulo /\ (k + 3) - n < FrameModulo
  BY NumbersNear
<1>4. StartEntry(n) # EndEntry(k + 3) /\ (EndEntry(n) = EndEntry(k + 3) => n = k + 3)
  BY <1>3, EntriesDiffer
<1>5. n = k + 3 /\ Opens(frames, n, p.piece)
  BY <1>1, <1>2, <1>4
<1>6. k + 3 # k
  BY <1>3
<1>7. QED  BY <1>5, <1>6

\* What frame k begins with, if the frame before it ends in a start.
LEMMA GoesOnOnce ==
  ASSUME NEW frames, NEW n \in Int, NEW p, GoesOn(frames, n, p), Begins(frames, n)
  PROVE  p = n
<1>1. frames[n + 1].after = <<Piece(n, "start")>>
  BY DEF Begins
<1>2. <<Piece(n, "start")>> # <<>>
  OBVIOUS
<1>3. QED  BY <1>1, <1>2 DEF GoesOn

LEMMA BeginningOf ==
  ASSUME NEW frames, NEW n \in Int, Laid(frames, n), Begins(frames, n - 1)
  PROVE  frames[n + 1].before \in {<<Piece(n - 1, "middle")>>, <<Piece(n - 1, "end")>>}
<1>1. PICK p \in Numbers :
        /\ GoesOn(frames, n - 1, p)
        /\ frames[n + 1].before \in {<<Piece(p, "middle")>>, <<Piece(p, "end")>>}
  BY DEF Laid
<1>2. p = n - 1
  BY <1>1, GoesOnOnce
<1>3. QED  BY <1>1, <1>2

\* A frame begins with one piece at most.
LEMMA OnePiece ==
  ASSUME NEW frames, NEW n, Laid(frames, n)
  PROVE  frames[n + 1].before = <<>> \/ \E piece : frames[n + 1].before = <<piece>>
BY DEF Laid

\* A piece that is skipped joins the start it belongs to, or waits for none.
LEMMA SkippedStep ==
  ASSUME Separate, NEW frames, NEW done, NEW k, NEW crossed, InPlace(frames, done, k, crossed),
         NEW state, NEW gone, Ready(state, done, gone, frames, crossed)
  PROVE  LET next == HandleSkipped(state, frames[k + 1])
         IN  /\ next \in ProperStates /\ AllSound(next, frames, crossed)
             /\ Explained(next, done \cup {k}, frames)
             /\ Paired(next, done, done \cup {k}, gone, frames, crossed)
<1> DEFINE frame == frames[k + 1]
           entry == EndEntry(k)
           wanted == StartEntry(k - 1)
           piece == Head(frame.before)
           next == HandleSkipped(state, frame)
           all == done \cup {k}
<1>1. /\ frame \in Frames /\ k \in Numbers /\ k \in Int /\ k - 1 \in Int
      /\ k + 1 \in 1 .. Len(frames) /\ done \in SUBSET Numbers /\ state \in States
  BY FrameInPlace DEF Ready, ProperStates
<1>2. Laid(frames, k) /\ frame.count = (k + FirstCount) % FrameModulo
  BY DEF InPlace, Laid
<1>3. next \in ProperStates
  BY <1>1, ProperPieces DEF Ready
<1>4. \A n \in done : StartEntry(n) # entry /\ (StartEntry(n) = wanted => n = k - 1)
  <2> SUFFICES ASSUME NEW n \in done
               PROVE  StartEntry(n) # entry /\ (StartEntry(n) = wanted => n = k - 1)
    OBVIOUS
  <2>1. /\ n \in Int /\ n - k < FrameModulo /\ k - n < FrameModulo
        /\ n - (k - 1) < FrameModulo /\ (k - 1) - n < FrameModulo
    BY <1>1, NumbersNear
  <2>2. QED  BY <1>1, <2>1, EntriesDiffer
<1>5. \A n \in done : n \in Int /\ (n + 1 = k => n = k - 1)
  BY <1>1 DEF Numbers
<1>6. CASE frame.before = <<>>
  <2>1. next = state
    BY <1>6 DEF HandleSkipped
  <2>2. ~Begins(frames, k - 1)
    <3>1. <<Piece(k - 1, "middle")>> # <<>> /\ <<Piece(k - 1, "end")>> # <<>>
      OBVIOUS
    <3>2. QED  BY <1>1, <1>2, <1>6, <3>1, BeginningOf
  <2>. HIDE DEF next
  <2>3. Paired(state, done, all, gone, frames, crossed)
    <3>1. \A n \in done : Begins(frames, n) => n + 1 # k
      BY <1>5, <2>2
    <3>2. QED  BY <3>1 DEF Ready, Paired
  <2>4. Explained(state, all, frames)
    BY DEF Ready, Explained
  <2>5. QED  BY <1>3, <2>1, <2>3, <2>4 DEF Ready, next
<1>7. CASE frame.before # <<>>
  <2>1. piece \in Pieces /\ Opens(frames, k, piece)
    <3>1. PICK x : frame.before = <<x>>
      BY <1>2, <1>7, OnePiece
    <3>2. frame.before \in Seq(Pieces)
      BY <1>1 DEF Frames
    <3>. DEFINE before == frame.before
    <3>3. before = <<x>> /\ before \in Seq(Pieces)
      BY <3>1, <3>2
    <3>. HIDE DEF before
    <3>4. Head(before) = x /\ Head(before) \in Pieces
      BY <3>3, HeadTailProperties
    <3>5. piece = x /\ piece \in Pieces
      BY <3>4 DEF before
    <3>. HIDE DEF piece
    <3>6. QED  BY <1>1, <3>1, <3>5 DEF Opens
  <2>2. Entry(mod(frame.count - 1), "ends") = entry /\ entry \in Entries
    BY <1>1, <1>2, EntriesOfCount, EntriesTyped
  <2>3. next = handle_partial_packet(state, entry, piece)
    BY <1>7, <2>2 DEF HandleSkipped
  <2>4. get_complement_fields(entry) = wanted /\ entry.type # "starts"
    BY <1>1, Complements DEF EndEntry, Entry
  <2>5. wanted \in Entries
    BY <1>1, EntriesTyped
  <2>. HIDE DEF entry, wanted, piece, next
  <2>6. \/ Found(state, wanted) = {} /\ next = add_partial(state, entry, piece)
        \/ \E p \in Found(state, wanted) :
             next = handle_full_packet(remove_partial(state, wanted), <<p.piece, piece>>)
    BY <1>1, <2>1, <2>2, <2>3, <2>4, PartialCases
  <2>7. CASE Found(state, wanted) = {} /\ next = add_partial(state, entry, piece)
    <3>1. /\ Explained(next, all, frames) /\ next.full_packets = state.full_packets
          /\ \A n : Waits(state, n) /\ StartEntry(n) # entry => Waits(next, n)
      <4>1. entry \in {StartEntry(k), EndEntry(k)} /\ entry # StartEntry(k)
        BY <2>4 DEF entry, StartEntry, Entry
      <4>2. Explained(state, done, frames)
        BY DEF Ready
      <4>3. QED  BY <1>1, <2>1, <2>7, <4>1, <4>2, AddedExplained
    <3>2. AllSound(next, frames, crossed) /\ \A n : Joined(state, n) => Joined(next, n)
      BY <3>1 DEF Ready, AllSound, Joined
    <3>3. ~Waits(state, k - 1)
      BY <2>7 DEF Waits, Found, wanted
    <3>4. ASSUME NEW n \in done, Begins(frames, n), Piece(n, "start") \notin gone
          PROVE  \/ Joined(next, n)
                 \/ Waits(next, n) /\ n + 1 \notin all
                 \/ <<n, n + 1>> \in crossed
      <4>1. \/ Joined(state, n) \/ <<n, n + 1>> \in crossed
            \/ Waits(state, n) /\ n + 1 \notin done
        BY <3>4 DEF Ready, Paired
      <4>2. CASE Joined(state, n) \/ <<n, n + 1>> \in crossed
        BY <3>2, <4>2
      <4>3. CASE Waits(state, n) /\ n + 1 \notin done
        <5>1. n # k - 1
          BY <3>3, <4>3
        <5>2. n + 1 # k
          BY <1>5, <5>1
        <5>3. QED  BY <1>4, <3>1, <4>3, <5>2
      <4>4. QED  BY <4>1, <4>2, <4>3
    <3>5. Paired(next, done, all, gone, frames, crossed)
      BY <3>4 DEF Paired
    <3>6. QED  BY <1>3, <3>1, <3>2, <3>5 DEF next
  <2>8. ASSUME NEW p \in Found(state, wanted),
               next = handle_full_packet(remove_partial(state, wanted), <<p.piece, piece>>)
        PROVE  /\ next \in ProperStates /\ AllSound(next, frames, crossed)
               /\ Explained(next, all, frames)
               /\ Paired(next, done, all, gone, frames, crossed)
    <3> DEFINE rest == remove_partial(state, wanted)
               pieces == <<p.piece, piece>>
    <3>1. k - 1 \in done /\ Begins(frames, k - 1) /\ p.piece = Piece(k - 1, "start")
      <4>1. Explained(state, done, frames) /\ p \in Found(state, StartEntry(k - 1))
        BY <2>8 DEF Ready, wanted
      <4>2. QED  BY <1>1, <4>1, StartFound
    <3>2. PICK part \in {"middle", "end"} : piece = Piece(k - 1, part)
      <4>1. frame.before \in {<<Piece(k - 1, "middle")>>, <<Piece(k - 1, "end")>>}
        BY <1>1, <1>2, <3>1, BeginningOf
      <4>2. frame.before = <<piece>>
        BY <2>1 DEF Opens
      <4>. HIDE DEF frame
      <4>3. QED  BY <4>1, <4>2
    <3>3. pieces = <<Piece(k - 1, "start"), Piece(k - 1, part)>>
      BY <3>1, <3>2
    <3>4. Sound(pieces, frames, crossed)
      <4>1. (k - 1) + 1 = k /\ k - 1 \in Numbers
        BY <1>1, <3>1
      <4>2. Opens(frames, (k - 1) + 1, Piece(k - 1, part))
        BY <2>1, <3>2, <4>1
      <4>3. QED  BY <3>3, <4>1, <4>2 DEF Sound
    <3>5. pieces \in Seq(Pieces) /\ Len(pieces) = 2 /\ pieces[1] = Piece(k - 1, "start")
      <4>1. p.piece \in Pieces
        BY <1>1, <2>8 DEF Found, States, Partial
      <4>2. QED  BY <2>1, <3>1, <4>1
    <3>6. /\ rest \in States /\ rest.lookup = state.lookup \ Found(state, wanted)
          /\ rest.full_packets = state.full_packets
      BY <1>1, <2>5, RemoveEffect
    <3>. HIDE DEF rest, pieces
    <3>7. next.lookup = rest.lookup /\ next.full_packets = Append(state.full_packets, pieces)
      BY <2>8, <3>5, <3>6, FullEffect DEF rest, pieces
    <3>8. /\ AllSound(next, frames, crossed) /\ Joined(next, k - 1)
          /\ \A n : Joined(state, n) => Joined(next, n)
      BY <1>1, <3>4, <3>5, <3>7, StillJoined DEF Ready
    <3>9. Explained(next, all, frames)
      <4>1. next.lookup \subseteq state.lookup
        BY <3>6, <3>7
      <4>2. QED  BY <4>1 DEF Ready, Explained
    <3>10. ASSUME NEW n \in done, Begins(frames, n), Piece(n, "start") \notin gone
           PROVE  \/ Joined(next, n)
                  \/ Waits(next, n) /\ n + 1 \notin all
                  \/ <<n, n + 1>> \in crossed
      <4>1. \/ Joined(state, n) \/ <<n, n + 1>> \in crossed
            \/ Waits(state, n) /\ n + 1 \notin done
        BY <3>10 DEF Ready, Paired
      <4>2. CASE Joined(state, n) \/ n = k - 1 \/ <<n, n + 1>> \in crossed
        BY <3>8, <4>2
      <4>3. CASE Waits(state, n) /\ n + 1 \notin done /\ n # k - 1
        <5>1. StartEntry(n) # wanted /\ n + 1 # k
          BY <1>4, <1>5, <4>3
        <5>2. [entry |-> StartEntry(n), piece |-> Piece(n, "start")] \notin Found(state, wanted)
          BY <5>1 DEF Found
        <5>3. Waits(next, n)
          BY <3>6, <3>7, <4>3, <5>2 DEF Waits
        <5>4. QED  BY <4>3, <5>1, <5>3
      <4>4. QED  BY <4>1, <4>2, <4>3
    <3>11. Paired(next, done, all, gone, frames, crossed)
      BY <3>10 DEF Paired
    <3>12. QED  BY <1>3, <3>8, <3>9, <3>11 DEF next
  <2> DEFINE Handled == /\ next \in ProperStates /\ AllSound(next, frames, crossed)
                        /\ Explained(next, all, frames)
                        /\ Paired(next, done, all, gone, frames, crossed)
  <2>9. Handled
    <3>1. CASE Found(state, wanted) = {} /\ next = add_partial(state, entry, piece)
      BY <2>7, <3>1 DEF next
    <3>2. CASE \E p \in Found(state, wanted) :
                 next = handle_full_packet(remove_partial(state, wanted), <<p.piece, piece>>)
      BY <2>8, <3>2
    <3>3. QED  BY <2>6, <3>1, <3>2
  <2>10. QED  BY <2>9 DEF next
<1>8. QED  BY <1>6, <1>7

\* What begins in a frame is whole, or waits for its end, or takes what the third frame after
\* its own begins with.
LEMMA BegunStep ==
  ASSUME Separate, NEW frames, NEW done, NEW k, NEW crossed, InPlace(frames, done, k, crossed),
         NEW state \in ProperStates, NEW gone, AllSound(state, frames, crossed),
         Explained(state, done \cup {k}, frames),
         Paired(state, done, done \cup {k}, gone, frames, crossed),
         NEW piece \in Pieces, frames[k + 1].after = <<piece>>
  PROVE  Ready(HandlePiece(state, frames[k + 1].count, piece), done \cup {k}, gone, frames,
               crossed)
<1> DEFINE frame == frames[k + 1]
           entry == StartEntry(k)
           wanted == EndEntry(k + 3)
           next == HandlePiece(state, frame.count, piece)
           all == done \cup {k}
<1>1. /\ frame \in Frames /\ k \in Numbers /\ k \in Int /\ k + 1 \in 1 .. Len(frames)
      /\ k + 3 \in Int /\ done \in SUBSET Numbers /\ state \in States
  BY FrameInPlace DEF ProperStates
<1>2. /\ frame.count = (k + FirstCount) % FrameModulo
      /\ piece \in {Piece(k, "whole"), Piece(k, "start")}
  <2>1. /\ frame.count = (k + FirstCount) % FrameModulo
        /\ frame.after \in {<<>>, <<Piece(k, "whole")>>, <<Piece(k, "start")>>}
    BY DEF InPlace, Laid
  <2>2. frame.after = <<piece>>
    OBVIOUS
  <2>. HIDE DEF frame
  <2>3. QED  BY <2>1, <2>2
<1>3. next \in ProperStates
  BY <1>1, ProperPieces
<1>4. CASE piece = Piece(k, "whole")
  <2>1. piece.part = "whole"
    BY <1>4 DEF Piece
  <2>2. next = handle_full_packet(state, <<piece>>)
    BY <2>1 DEF HandlePiece
  <2>. HIDE DEF next
  <2>3. <<piece>> \in Seq(Pieces) /\ Sound(<<piece>>, frames, crossed)
    BY <2>1 DEF Sound
  <2>4. next.lookup = state.lookup /\ next.full_packets = Append(state.full_packets, <<piece>>)
    BY <1>1, <2>2, <2>3, FullEffect
  <2>5. AllSound(next, frames, crossed) /\ \A n : Joined(state, n) => Joined(next, n)
    BY <1>1, <2>3, <2>4, StillJoined
  <2>6. Explained(next, all, frames) /\ \A n : Waits(state, n) => Waits(next, n)
    BY <2>4 DEF Explained, Waits
  <2>7. ~Begins(frames, k)
    <3>1. Piece(k, "whole") # Piece(k, "start")
      BY DEF Piece
    <3>2. QED  BY <1>4, <3>1 DEF Begins
  <2>8. Paired(next, all, all, gone, frames, crossed)
    BY <2>5, <2>6, <2>7 DEF Paired
  <2>9. Ready(next, all, gone, frames, crossed)
    BY <1>3, <2>5, <2>6, <2>8 DEF Ready
  <2>10. QED  BY <2>9 DEF next
<1>5. CASE piece = Piece(k, "start")
  <2>1. piece.part = "start"
    BY <1>5 DEF Piece
  <2>2. Entry(mod(frame.count + 1), "starts") = entry /\ entry \in Entries
    BY <1>1, <1>2, EntriesOfCount, EntriesTyped
  <2>3. next = handle_partial_packet(state, entry, piece)
    BY <2>1, <2>2 DEF HandlePiece
  <2>4. get_complement_fields(entry) = wanted /\ entry.type = "starts"
    BY <1>1, Complements DEF StartEntry, Entry
  <2>5. wanted \in Entries
    BY <1>1, EntriesTyped
  <2>6. Begins(frames, k)
    BY <1>1, <1>5 DEF Begins
  <2>7. \A n \in done : n # k => StartEntry(n) # entry
    <3> SUFFICES ASSUME NEW n \in done, n # k PROVE StartEntry(n) # entry
      OBVIOUS
    <3>1. n \in Int /\ n - k < FrameModulo /\ k - n < FrameModulo
      BY <1>1, NumbersNear
    <3>2. QED  BY <1>1, <3>1, EntriesDiffer DEF entry
  <2>8. \A n : StartEntry(n) # wanted
    BY DEF StartEntry, EndEntry, Entry
  <2>9. k + 1 \in all => <<k, k + 1>> \in crossed
    BY <1>1 DEF InPlace
  <2>. HIDE DEF entry, wanted, next
  <2>10. \/ Found(state, wanted) = {} /\ next = add_partial(state, entry, piece)
         \/ \E p \in Found(state, wanted) :
              next = handle_full_packet(remove_partial(state, wanted), <<piece, p.piece>>)
    BY <1>1, <2>2, <2>3, <2>4, PartialCases
  <2>11. CASE Found(state, wanted) = {} /\ next = add_partial(state, entry, piece)
    <3>1. /\ Explained(next, all \cup {k}, frames) /\ next.full_packets = state.full_packets
          /\ \A n : Waits(state, n) /\ StartEntry(n) # entry => Waits(next, n)
          /\ Waits(next, k)
      <4>1. entry \in {StartEntry(k), EndEntry(k)} /\ entry = StartEntry(k) /\ entry # EndEntry(k)
        BY DEF entry, StartEntry, EndEntry, Entry
      <4>2. /\ entry = StartEntry(k) => Begins(frames, k) /\ piece = Piece(k, "start")
            /\ entry = EndEntry(k) => Opens(frames, k, piece)
        BY <1>5, <2>6, <4>1
      <4>3. Explained(state, all, frames) /\ state \in States /\ k \in Int
        BY <1>1
      <4>. HIDE DEF all
      <4>4. QED  BY <2>11, <4>1, <4>2, <4>3, AddedExplained
    <3>2. AllSound(next, frames, crossed) /\ \A n : Joined(state, n) => Joined(next, n)
      BY <3>1 DEF AllSound, Joined
    <3>3. Paired(next, all, all, gone, frames, crossed)
      <4>1. ASSUME NEW n \in done, n # k, Begins(frames, n), Piece(n, "start") \notin gone
            PROVE  \/ Joined(next, n)
                   \/ Waits(next, n) /\ n + 1 \notin all
                   \/ <<n, n + 1>> \in crossed
        BY <2>7, <3>1, <3>2, <4>1 DEF Paired
      <4>2. QED  BY <2>9, <3>1, <4>1 DEF Paired
    <3>4. all \cup {k} = all
      OBVIOUS
    <3>5. Ready(next, all, gone, frames, crossed)
      BY <1>3, <3>1, <3>2, <3>3, <3>4 DEF Ready
    <3>6. QED  BY <3>5 DEF next
  <2>12. ASSUME NEW p \in Found(state, wanted),
                next = handle_full_packet(remove_partial(state, wanted), <<piece, p.piece>>)
         PROVE  Ready(next, all, gone, frames, crossed)
    <3> DEFINE rest == remove_partial(state, wanted)
               pieces == <<piece, p.piece>>
    <3>1. k + 3 \in done /\ Opens(frames, k + 3, p.piece)
      BY <1>1, <2>12, EndFound DEF wanted
    <3>2. <<k, k + 3>> \in crossed
      BY <1>1, <3>1 DEF InPlace
    <3>3. pieces \in Seq(Pieces) /\ Len(pieces) = 2 /\ pieces[1] = Piece(k, "start")
          /\ pieces[2] = p.piece
      <4>1. p.piece \in Pieces
        BY <1>1, <2>12 DEF Found, States, Partial
      <4>2. QED  BY <1>5, <4>1
    <3>4. /\ rest \in States /\ rest.lookup = state.lookup \ Found(state, wanted)
          /\ rest.full_packets = state.full_packets
      BY <1>1, <2>5, RemoveEffect
    <3>. HIDE DEF rest, pieces
    <3>5. Sound(pieces, frames, crossed)
      BY <1>1, <3>1, <3>2, <3>3 DEF Sound
    <3>6. next.lookup = rest.lookup /\ next.full_packets = Append(state.full_packets, pieces)
      BY <2>12, <3>3, <3>4, FullEffect DEF rest, pieces
    <3>7. /\ AllSound(next, frames, crossed) /\ Joined(next, k)
          /\ \A n : Joined(state, n) => Joined(next, n)
      BY <1>1, <3>3, <3>5, <3>6, StillJoined
    <3>8. Explained(next, all, frames)
      <4>1. next.lookup \subseteq state.lookup
        BY <3>4, <3>6
      <4>2. QED  BY <4>1 DEF Explained
    <3>9. \A n : Waits(state, n) => Waits(next, n)
      <4>1. ASSUME NEW n, Waits(state, n)
            PROVE  Waits(next, n)
        <5>1. [entry |-> StartEntry(n), piece |-> Piece(n, "start")] \notin Found(state, wanted)
          BY <2>8 DEF Found
        <5>2. QED  BY <3>4, <3>6, <4>1, <5>1 DEF Waits
      <4>2. QED  BY <4>1
    <3>10. Paired(next, all, all, gone, frames, crossed)
      BY <3>7, <3>9 DEF Paired
    <3>11. QED  BY <1>3, <3>7, <3>8, <3>10 DEF Ready, next
  <2>13. Ready(next, all, gone, frames, crossed)
    <3>1. CASE Found(state, wanted) = {} /\ next = add_partial(state, entry, piece)
      BY <2>11, <3>1 DEF next
    <3>2. CASE \E p \in Found(state, wanted) :
                 next = handle_full_packet(remove_partial(state, wanted), <<piece, p.piece>>)
      BY <2>12, <3>2
    <3>3. QED  BY <2>10, <3>1, <3>2
  <2>14. QED  BY <2>13 DEF next
<1>6. QED  BY <1>2, <1>4, <1>5

\* A frame handled leaves what the next one needs.
LEMMA FrameStep ==
  ASSUME Separate, NEW frames, NEW done, NEW k, NEW crossed, InPlace(frames, done, k, crossed),
         NEW state, NEW gone, Ready(state, done, gone, frames, crossed)
  PROVE  Ready(handle_aos_frame(state, frames[k + 1]), done \cup {k}, gone, frames, crossed)
<1> DEFINE frame == frames[k + 1]
           skipped == HandleSkipped(state, frame)
           n == Len(frame.after)
           all == done \cup {k}
<1>1. frame \in Frames /\ state \in ProperStates
  BY FrameInPlace DEF Ready
<1>2. /\ skipped \in ProperStates /\ AllSound(skipped, frames, crossed)
      /\ Explained(skipped, all, frames) /\ Paired(skipped, done, all, gone, frames, crossed)
  BY SkippedStep
<1>3. frame.after \in {<<>>, <<Piece(k, "whole")>>, <<Piece(k, "start")>>}
  BY DEF InPlace, Laid
<1>4. PICK f \in [0 .. n -> ProperStates] :
        Turns(f, state, frame) /\ handle_aos_frame(state, frame) = f[n]
  BY <1>1, FrameTurns
<1>5. f[0] = skipped
  BY <1>4 DEF Turns
<1>. HIDE DEF skipped
<1>6. CASE frame.after = <<>>
  <2>1. n = 0 /\ ~Begins(frames, k)
    BY <1>6 DEF Begins
  <2>2. Paired(skipped, all, all, gone, frames, crossed)
    BY <1>2, <2>1 DEF Paired
  <2>3. Ready(skipped, all, gone, frames, crossed)
    BY <1>2, <2>2 DEF Ready
  <2>4. QED  BY <1>4, <1>5, <2>1, <2>3
<1>7. ASSUME NEW piece, frame.after = <<piece>>
      PROVE  Ready(handle_aos_frame(state, frame), all, gone, frames, crossed)
  <2> DEFINE after == frame.after
  <2>0. after = <<piece>> /\ after \in Seq(Pieces)
    BY <1>1, <1>7 DEF Frames
  <2>. HIDE DEF after
  <2>1. n = 1 /\ after[1] = piece /\ 1 \in 1 .. Len(after)
    <3>1. Len(after) = 1 /\ after[1] = piece
      BY <2>0
    <3>2. QED  BY <3>1 DEF after
  <2>2. piece \in Pieces
    BY <2>0, <2>1, ElementOfSeq
  <2>3. f[1] = HandlePiece(skipped, frame.count, piece)
    BY <1>4, <1>5, <2>1 DEF Turns, after
  <2>4. Ready(HandlePiece(skipped, frame.count, piece), all, gone, frames, crossed)
    BY <1>2, <1>7, <2>2, BegunStep
  <2>5. QED  BY <1>4, <2>1, <2>3, <2>4
<1>8. QED  BY <1>3, <1>6, <1>7

\* The packet that is not complete is the one that goes on after the last frame.
LEMMA UnfinishedIs ==
  ASSUME sent \in Seq(Frames), LaidInv
  PROVE  LET last == Len(sent) - 1
         IN  /\ \A p \in Unfinished : GoesOn(sent, last, p)
             /\ Unfinished = {} => ~Begins(sent, last)
<1> DEFINE n == Len(sent) - 1
           frame == Last(sent)
           before == frame.before
           after == frame.after
           pieces == before \o after
<1>1. CASE sent = <<>>
  <2>1. ~(n + 1 \in 1 .. Len(sent))
    BY <1>1, EmptySeq
  <2>2. QED  BY <1>1, <2>1 DEF Unfinished, Begins
<1>2. CASE sent # <<>>
  <2>1. /\ n \in 0 .. Len(sent) - 1 /\ n + 1 \in 1 .. Len(sent)
        /\ n + 1 = Len(sent) /\ n \in Int /\ n - 1 \in Int
    BY <1>2, EmptySeq
  <2>2. frame = sent[n + 1]
    BY <2>1 DEF Last
  <2>3. /\ \/ before = <<>> \/ before = <<Piece(n, "idle")>>
           \/ \E p \in Numbers : before \in {<<Piece(p, "middle")>>, <<Piece(p, "end")>>}
        /\ after = <<>> \/ after = <<Piece(n, "whole")>> \/ after = <<Piece(n, "start")>>
    <3>1. Laid(sent, n)
      BY <2>1 DEF LaidInv
    <3>. HIDE DEF n
    <3>2. /\ \/ sent[n + 1].before \in {<<>>, <<Piece(n, "idle")>>}
             \/ \E p \in Numbers :
                  sent[n + 1].before \in {<<Piece(p, "middle")>>, <<Piece(p, "end")>>}
          /\ sent[n + 1].after \in {<<>>, <<Piece(n, "whole")>>, <<Piece(n, "start")>>}
      BY <3>1 DEF Laid
    <3>3. QED  BY <2>2, <3>2
  <2>4. frame \in Frames
    BY <2>1, <2>2, ElementOfSeq
  <2>5. /\ Begins(sent, n) <=> after = <<Piece(n, "start")>>
        /\ \A p : before = <<Piece(p, "middle")>> /\ after = <<>> => GoesOn(sent, n, p)
    BY <2>1, <2>2 DEF Begins, GoesOn, Opens
  <2>6. Unfinished = IF pieces # <<>> /\ Last(pieces).part \in {"start", "middle"}
                     THEN {Last(pieces).packet} ELSE {}
    BY <1>2 DEF Unfinished
  <2>7. before \in Seq(Pieces) /\ after \in Seq(Pieces)
    BY <2>4 DEF Frames
  <2> DEFINE Goal == /\ \A p \in Unfinished : GoesOn(sent, n, p)
                     /\ Unfinished = {} => ~Begins(sent, n)
  <2>. HIDE DEF n, frame
  <2>8. ASSUME NEW x \in Pieces, after = <<x>>
        PROVE  pieces # <<>> /\ Last(pieces) = x
    <3>. HIDE DEF before, after
    <3>1. pieces = before \o <<x>>
      BY <2>8
    <3>2. pieces = Append(before, x)
      BY <2>7, <3>1
    <3>. HIDE DEF pieces
    <3>3. Len(before) \in Nat /\ Len(pieces) = Len(before) + 1 /\ pieces[Len(before) + 1] = x
      BY <2>7, <3>2, AppendProperties
    <3>4. QED  BY <3>3, EmptySeq DEF Last
  <2>9. CASE after = <<>>
    <3>1. pieces = before
      BY <2>7, <2>9
    <3>2. ~Begins(sent, n)
      <4>1. after # <<Piece(n, "start")>>
        BY <2>9
      <4>2. QED  BY <2>5, <4>1
    <3>3. ASSUME NEW m, NEW part \in {"idle", "end", "middle"}, before = <<Piece(m, part)>>
          PROVE  Unfinished = IF part = "middle" THEN {m} ELSE {}
      <4>1. Last(before) = Piece(m, part) /\ before # <<>>
        BY <3>3 DEF Last
      <4>2. Last(before).part = part /\ Last(before).packet = m
        BY <4>1 DEF Piece
      <4>. HIDE DEF before, pieces
      <4>3. QED  BY <2>6, <3>1, <4>1, <4>2
    <3>4. CASE before = <<>>
      <4>1. Unfinished = {}
        BY <2>6, <3>1, <3>4
      <4>2. QED  BY <3>2, <4>1 DEF n
    <3>5. ASSUME NEW m, NEW part \in {"idle", "end", "middle"}, before = <<Piece(m, part)>>
          PROVE  Goal
      <4>1. part = "middle" => GoesOn(sent, n, m)
        BY <2>5, <2>9, <3>5
      <4>2. QED  BY <3>2, <3>3, <3>5, <4>1
    <3>. HIDE DEF before
    <3>6. QED  BY <2>3, <3>4, <3>5 DEF n
  <2>10. CASE after = <<Piece(n, "whole")>>
    <3> DEFINE x == Piece(n, "whole")
    <3>1. x.part = "whole" /\ x # Piece(n, "start")
      BY DEF Piece
    <3>2. x \in Pieces
      <4>1. 1 \in 1 .. Len(after) /\ after[1] = x
        BY <2>10
      <4>2. QED  BY <2>7, <4>1, ElementOfSeq
    <3>. HIDE DEF x
    <3>3. Last(pieces) = x
      BY <2>8, <2>10, <3>2 DEF x
    <3>4. Unfinished = {} /\ after # <<Piece(n, "start")>>
      BY <2>6, <2>10, <3>1, <3>3 DEF x
    <3>5. QED  BY <2>5, <3>4 DEF n
  <2>11. CASE after = <<Piece(n, "start")>>
    <3> DEFINE x == Piece(n, "start")
    <3>1. x.part = "start" /\ x.packet = n
      BY DEF Piece
    <3>2. x \in Pieces
      <4>1. 1 \in 1 .. Len(after) /\ after[1] = x
        BY <2>11
      <4>2. QED  BY <2>7, <4>1, ElementOfSeq
    <3>. HIDE DEF x
    <3>3. Last(pieces) = x /\ pieces # <<>>
      BY <2>8, <2>11, <3>2 DEF x
    <3>4. Unfinished = {n}
      BY <2>6, <3>1, <3>3
    <3>5. GoesOn(sent, n, n)
      BY <2>5, <2>11 DEF GoesOn
    <3>6. QED  BY <3>4, <3>5 DEF n
  <2>12. QED  BY <2>3, <2>9, <2>10, <2>11
<1>3. QED  BY <1>1, <1>2

\* More frames leave those before them as they were.
LEMMA FramesAppended ==
  ASSUME NEW frames \in Seq(Frames), NEW frame \in Frames, NEW more, more = Append(frames, frame)
  PROVE  /\ more \in Seq(Frames) /\ Len(more) = Len(frames) + 1 /\ more[Len(frames) + 1] = frame
         /\ \A i \in 1 .. Len(frames) : more[i] = frames[i]
         /\ \A n \in Int : n + 1 <= Len(frames) => (Begins(more, n) <=> Begins(frames, n))
         /\ \A n \in Int : \A p : n + 1 <= Len(frames) => (GoesOn(more, n, p) <=> GoesOn(frames, n, p))
         /\ \A n, piece : Opens(frames, n, piece) => Opens(more, n, piece)
         /\ \A n \in 0 .. Len(frames) - 1 : Laid(frames, n) => Laid(more, n)
         /\ \A other : Known(frames, other) => Known(more, other)
<1>1. /\ more \in Seq(Frames) /\ Len(more) = Len(frames) + 1 /\ more[Len(frames) + 1] = frame
      /\ \A i \in 1 .. Len(frames) : more[i] = frames[i] /\ Len(frames) \in Nat
  BY AppendProperties
<1>2. Len(frames) \in Nat
  OBVIOUS
<1>3. ASSUME NEW n \in Int, n + 1 <= Len(frames)
      PROVE  /\ n + 1 \in 1 .. Len(frames) <=> n + 1 \in 1 .. Len(more)
             /\ n + 1 \in 1 .. Len(frames) => more[n + 1] = frames[n + 1]
  BY <1>1, <1>2, <1>3
<1>4. ASSUME NEW n \in Int, n + 1 <= Len(frames)
      PROVE  Begins(more, n) <=> Begins(frames, n)
  BY <1>3, <1>4 DEF Begins
<1>5. ASSUME NEW n \in Int, NEW p, n + 1 <= Len(frames)
      PROVE  GoesOn(more, n, p) <=> GoesOn(frames, n, p)
  BY <1>3, <1>4, <1>5 DEF GoesOn, Opens
<1>6. ASSUME NEW n, NEW piece, Opens(frames, n, piece)
      PROVE  Opens(more, n, piece)
  BY <1>1, <1>2, <1>6 DEF Opens
<1>7. ASSUME NEW n \in 0 .. Len(frames) - 1, Laid(frames, n)
      PROVE  Laid(more, n)
  <2>1. n + 1 \in 1 .. Len(frames) /\ n - 1 \in Int /\ (n - 1) + 1 <= Len(frames)
    BY <1>2
  <2>2. more[n + 1] = frames[n + 1] /\ (Begins(more, n - 1) <=> Begins(frames, n - 1))
    BY <1>1, <1>4, <2>1
  <2>3. \A p : GoesOn(more, n - 1, p) <=> GoesOn(frames, n - 1, p)
    BY <1>5, <2>1
  <2>4. QED  BY <1>7, <2>2, <2>3 DEF Laid
<1>8. ASSUME NEW other, Known(frames, other)
      PROVE  Known(more, other)
  BY <1>1, <1>2, <1>8 DEF Known
<1>9. QED  BY <1>1, <1>4, <1>5, <1>6, <1>7, <1>8

\* A frame that was sent is in its place.
LEMMA KnownPlace ==
  ASSUME NEW frames \in Seq(Frames), NEW frame \in Frames, Known(frames, frame)
  PROVE  /\ frame.number \in Nat /\ frame.number < Len(frames)
         /\ frame.number \in 0 .. Len(frames) - 1
         /\ frame = frames[frame.number + 1]
<1>1. frame.number \in Nat /\ Len(frames) \in Nat
  BY DEF Frames, Numbers
<1>2. frame.number + 1 \in 1 .. Len(frames) /\ frame = frames[frame.number + 1]
  BY DEF Known
<1>3. frame.number < Len(frames) /\ frame.number \in 0 .. Len(frames) - 1
  BY <1>1, <1>2
<1>4. QED  BY <1>1, <1>2, <1>3

\* A frame is laid out for its place.
LEMMA SendLaid ==
  ASSUME TypeInv, LaidInv, Send
  PROVE  /\ LaidInv'
         /\ \E frame \in Frames : /\ sent' = Append(sent, frame)
                                  /\ transit' = transit \cup {frame}
                                  /\ frame.number = Len(sent)
<1> DEFINE number == Len(sent)
<1>1. sent \in Seq(Frames) /\ number \in Numbers /\ number \in Nat
  BY PartialsAssumption DEF TypeInv, Send, Numbers
<1>2. PICK before \in Befores(number) : \E after \in Afters(number, before) :
        /\ sent' = Append(sent, Frame(number, before, after))
        /\ transit' = transit \cup {Frame(number, before, after)}
  BY DEF Send
<1>3. PICK after \in Afters(number, before) :
        /\ sent' = Append(sent, Frame(number, before, after))
        /\ transit' = transit \cup {Frame(number, before, after)}
  BY <1>2
<1> DEFINE frame == Frame(number, before, after)
<1>4. frame \in Frames
  BY <1>1, FrameType
<1>5. /\ frame.number = number /\ frame.count = (number + FirstCount) % FrameModulo
      /\ frame.before = before /\ frame.after = after
  BY DEF Frame
<1>. HIDE DEF frame
<1>6. /\ \A p \in Unfinished : GoesOn(sent, number - 1, p)
      /\ Unfinished = {} => ~Begins(sent, number - 1)
  BY <1>1, UnfinishedIs
<1>7. \/ ~Begins(sent, number - 1) /\ before \in {<<>>, <<Piece(number, "idle")>>}
      \/ \E p \in Numbers : /\ GoesOn(sent, number - 1, p)
                            /\ before \in {<<Piece(p, "middle")>>, <<Piece(p, "end")>>}
  <2>1. CASE Unfinished # {}
    <3>1. PICK p \in Unfinished : \E part \in {"middle", "end"} : before = <<Piece(p, part)>>
      BY <2>1 DEF Befores
    <3>2. p \in Numbers
      BY <1>1, UnfinishedType
    <3>3. QED  BY <1>6, <3>1, <3>2
  <2>2. CASE Unfinished = {}
    BY <1>6, <2>2 DEF Befores
  <2>3. QED  BY <2>1, <2>2
<1>8. after \in {<<>>, <<Piece(number, "whole")>>, <<Piece(number, "start")>>}
  BY DEF Afters
<1>9. sent' = Append(sent, frame) /\ transit' = transit \cup {frame}
  BY <1>3 DEF frame
<1>. HIDE DEF number
<1>10. /\ Len(sent') = number + 1 /\ sent'[number + 1] = frame
       /\ (Begins(sent', number - 1) <=> Begins(sent, number - 1))
       /\ \A p : GoesOn(sent', number - 1, p) <=> GoesOn(sent, number - 1, p)
       /\ \A n \in 0 .. number - 1 : Laid(sent', n)
  <2>1. number - 1 \in Int /\ (number - 1) + 1 <= Len(sent) /\ number = Len(sent)
    BY <1>1 DEF number
  <2>2. /\ Len(sent') = number + 1 /\ sent'[number + 1] = frame
        /\ (Begins(sent', number - 1) <=> Begins(sent, number - 1))
        /\ \A p : GoesOn(sent', number - 1, p) <=> GoesOn(sent, number - 1, p)
    <3>1. Len(sent') = Len(sent) + 1 /\ sent'[Len(sent) + 1] = frame
      BY <1>1, <1>4, <1>9, FramesAppended
    <3>2. /\ \A n \in Int : n + 1 <= Len(sent) => (Begins(sent', n) <=> Begins(sent, n))
          /\ \A n \in Int : \A p : n + 1 <= Len(sent) => (GoesOn(sent', n, p) <=> GoesOn(sent, n, p))
      BY <1>1, <1>4, <1>9, FramesAppended
    <3>3. QED  BY <2>1, <3>1, <3>2
  <2>3. \A n \in 0 .. number - 1 : Laid(sent, n) => Laid(sent', n)
    BY <1>1, <1>4, <1>9, <2>1, FramesAppended
  <2>4. QED  BY <2>1, <2>2, <2>3 DEF LaidInv
<1>11. Laid(sent', number)
  BY <1>5, <1>7, <1>8, <1>10 DEF Laid
<1>12. LaidInv'
  <2>1. \A n \in 0 .. Len(sent') - 1 : n = number \/ n \in 0 .. number - 1
    BY <1>1, <1>10
  <2>2. QED  BY <1>10, <1>11, <2>1 DEF LaidInv
<1>13. QED  BY <1>4, <1>5, <1>9, <1>12 DEF number

\* No frame comes from elsewhere.
LEMMA SentStep ==
  ASSUME TypeInv, LaidInv, SentInv, [Next]_vars
  PROVE  LaidInv' /\ SentInv'
<1>1. /\ sent \in Seq(Frames) /\ frame_queue \in Seq(Frames) /\ transit \in SUBSET Frames
      /\ handled \in SUBSET Numbers /\ Len(frame_queue) \in Nat /\ Len(sent) \in Nat
  BY DEF TypeInv
<1>2. CASE HandleFrame
  <2> DEFINE frame == Head(frame_queue)
             n == Len(frame_queue)
  <2>1. /\ frame_queue # <<>> /\ frame_queue' = Tail(frame_queue)
        /\ handled' = handled \cup {frame.number} /\ UNCHANGED <<sent, transit>>
    BY <1>2 DEF HandleFrame
  <2>2. frame = frame_queue[1] /\ 1 \in 1 .. n /\ n \in Nat /\ frame \in Frames
    BY <1>1, <2>1, HeadTailProperties, EmptySeq
  <2>. HIDE DEF frame
  <2>3. Len(frame_queue') = n - 1 /\ \A i \in 1 .. n - 1 : frame_queue'[i] = frame_queue[i + 1]
    BY <1>1, <2>1, HeadTailProperties
  <2>4. \A i \in 1 .. n - 1 : i + 1 \in 1 .. n
    BY <2>2
  <2>5. frame.number < Len(sent)
    <3>1. Known(sent, frame)
      BY <2>2 DEF SentInv
    <3>2. QED  BY <1>1, <2>2, <3>1, KnownPlace
  <2>6. \A i \in 1 .. n - 1 : Known(sent, frame_queue'[i])
    BY <2>3, <2>4 DEF SentInv
  <2>7. SentInv'
    BY <2>1, <2>3, <2>5, <2>6 DEF SentInv
  <2>8. QED  BY <2>1, <2>7 DEF LaidInv
<1>3. CASE Cleanup \/ UNCHANGED vars
  <2>1. UNCHANGED <<sent, frame_queue, transit, handled>>
    BY <1>3 DEF Cleanup, vars, processorVars
  <2>2. QED  BY <2>1 DEF LaidInv, SentInv
<1>4. ASSUME NEW frame \in transit, Arrive(frame)
      PROVE  LaidInv' /\ SentInv'
  <2> DEFINE waiting == IF Len(frame_queue) = QueueLength THEN Tail(frame_queue)
                        ELSE frame_queue
             n == Len(waiting)
  <2>1. /\ frame_queue' = Append(waiting, frame) /\ transit' = transit \ {frame}
        /\ UNCHANGED <<sent, handled>> /\ frame \in Frames
    BY <1>1, <1>4 DEF Arrive, processorVars
  <2>2. /\ waiting \in Seq(Frames) /\ n \in Nat
        /\ \A i \in 1 .. n : Known(sent, waiting[i])
    <3>1. CASE Len(frame_queue) = QueueLength
      <4>1. frame_queue # <<>> /\ waiting = Tail(frame_queue)
        BY <1>1, <3>1, EmptySeq, PartialsAssumption
      <4>2. /\ waiting \in Seq(Frames) /\ Len(waiting) = Len(frame_queue) - 1
            /\ \A i \in 1 .. Len(waiting) : waiting[i] = frame_queue[i + 1]
        BY <1>1, <4>1, HeadTailProperties
      <4>. HIDE DEF waiting
      <4>3. Len(waiting) \in Nat /\ \A i \in 1 .. Len(waiting) : i + 1 \in 1 .. Len(frame_queue)
        BY <1>1, <4>2
      <4>4. QED  BY <4>2, <4>3 DEF SentInv
    <3>2. CASE Len(frame_queue) # QueueLength
      <4>1. waiting = frame_queue
        BY <3>2
      <4>. HIDE DEF waiting
      <4>2. QED  BY <1>1, <4>1 DEF SentInv
    <3>3. QED  BY <3>1, <3>2
  <2>. HIDE DEF waiting
  <2>3. /\ Len(frame_queue') = n + 1 /\ frame_queue'[n + 1] = frame
        /\ \A i \in 1 .. n : frame_queue'[i] = waiting[i]
    BY <2>1, <2>2, AppendProperties
  <2>4. Known(sent, frame)
    BY DEF SentInv
  <2>5. \A i \in 1 .. n + 1 : i = n + 1 \/ i \in 1 .. n
    BY <2>2
  <2>6. \A i \in 1 .. n + 1 : Known(sent, frame_queue'[i])
    BY <2>2, <2>3, <2>4, <2>5
  <2>7. SentInv'
    BY <2>1, <2>3, <2>6 DEF SentInv
  <2>8. QED  BY <2>1, <2>7 DEF LaidInv
<1>5. CASE Send
  <2>1. LaidInv'
    BY <1>5, SendLaid
  <2>2. PICK frame \in Frames : /\ sent' = Append(sent, frame)
                                /\ transit' = transit \cup {frame}
                                /\ frame.number = Len(sent)
    BY <1>5, SendLaid
  <2>3. UNCHANGED <<frame_queue, handled>>
    BY <1>5 DEF Send, processorVars
  <2>4. /\ Len(sent') = Len(sent) + 1 /\ sent'[Len(sent) + 1] = frame
        /\ \A other : Known(sent, other) => Known(sent', other)
    BY <1>1, <2>2, FramesAppended
  <2>5. Known(sent', frame)
    BY <1>1, <2>2, <2>4 DEF Known
  <2>6. \A h \in handled : h < Len(sent')
    BY <1>1, <2>4 DEF SentInv, Numbers
  <2>7. SentInv'
    BY <2>2, <2>3, <2>4, <2>5, <2>6 DEF SentInv
  <2>8. QED  BY <2>1, <2>7
<1>6. ASSUME NEW frame \in transit, Lose(frame)
      PROVE  LaidInv' /\ SentInv'
  <2>1. UNCHANGED <<sent, frame_queue, handled>> /\ transit' \subseteq transit
    BY <1>6 DEF Lose, processorVars
  <2>2. QED  BY <2>1 DEF LaidInv, SentInv
<1>7. QED  BY <1>2, <1>3, <1>4, <1>5, <1>6 DEF Next

\* What holds of the frames sent and overtaken holds when there are more of them.
LEMMA SoundKept ==
  ASSUME NEW frames, NEW crossed, NEW more, NEW others, crossed \subseteq others,
         \A n, piece : Opens(frames, n, piece) => Opens(more, n, piece),
         NEW state, AllSound(state, frames, crossed)
  PROVE  AllSound(state, more, others)
<1>1. ASSUME NEW pieces, Sound(pieces, frames, crossed)
      PROVE  Sound(pieces, more, others)
  <2>1. CASE Len(pieces) = 1 /\ pieces[1].part = "whole"
    BY <2>1 DEF Sound
  <2>2. ASSUME NEW n \in Numbers, NEW part \in {"middle", "end"},
               pieces = <<Piece(n, "start"), Piece(n, part)>>, Opens(frames, n + 1, Piece(n, part))
        PROVE  Sound(pieces, more, others)
    <3>1. Opens(more, n + 1, Piece(n, part))
      BY <2>2
    <3>2. QED  BY <2>2, <3>1 DEF Sound
  <2>3. ASSUME NEW n \in Numbers, <<n, n + 3>> \in crossed,
               Len(pieces) = 2 /\ pieces[1] = Piece(n, "start"), Opens(frames, n + 3, pieces[2])
        PROVE  Sound(pieces, more, others)
    <3>1. Opens(more, n + 3, pieces[2]) /\ <<n, n + 3>> \in others
      BY <2>3
    <3>2. QED  BY <2>3, <3>1 DEF Sound
  <2>4. QED  BY <1>1, <2>1, <2>2, <2>3 DEF Sound
<1>2. QED  BY <1>1 DEF AllSound

\* Every step keeps what is joined sound and every start accounted for.
LEMMA JoinStep ==
  ASSUME Separate, TypeInv, LaidInv, SentInv, JoinInv, [Next]_vars
  PROVE  JoinInv'
<1>1. /\ sent \in Seq(Frames) /\ frame_queue \in Seq(Frames)
      /\ handled \in SUBSET Numbers /\ Len(sent) \in Nat /\ Processor \in ProperStates
      /\ Len(sent) <= MaxFrames
  BY DEF TypeInv
<1>2. Ready(Processor, handled, cleaned, sent, overtaken)
  BY DEF JoinInv
<1>3. CASE HandleFrame
  <2> DEFINE frame == Head(frame_queue)
             k == frame.number
             state == handle_aos_frame(Processor, frame)
             crossed == overtaken \cup Overtakers(k)
  <2>1. /\ frame_queue # <<>> /\ handled' = handled \cup {k} /\ Becomes(state)
        /\ overtaken' = crossed /\ UNCHANGED <<sent, cleaned>>
    BY <1>3 DEF HandleFrame
  <2>2. 1 \in 1 .. Len(frame_queue) /\ frame = frame_queue[1] /\ frame \in Frames
    BY <1>1, <2>1, HeadTailProperties, EmptySeq
  <2>3. Known(sent, frame)
    BY <2>2 DEF SentInv
  <2>4. k \in 0 .. Len(sent) - 1 /\ frame = sent[k + 1]
    BY <1>1, <2>2, <2>3, KnownPlace
  <2>5. \A n \in handled : n > k => <<k, n>> \in crossed
    BY DEF Overtakers
  <2>. HIDE DEF frame
  <2>6. overtaken \subseteq crossed
    OBVIOUS
  <2>. HIDE DEF crossed
  <2>7. InPlace(sent, handled, k, crossed)
    BY <1>1, <2>4, <2>5 DEF InPlace, LaidInv, SentInv
  <2>8. Ready(Processor, handled, cleaned, sent, crossed)
    <3>1. AllSound(Processor, sent, crossed)
      BY <1>2, <2>6, SoundKept DEF Ready
    <3>2. Paired(Processor, handled, handled, cleaned, sent, crossed)
      BY <1>2, <2>6 DEF Ready, Paired
    <3>3. QED  BY <1>2, <3>1, <3>2 DEF Ready
  <2>9. Ready(state, handled \cup {k}, cleaned, sent, crossed)
    BY <2>4, <2>7, <2>8, FrameStep
  <2>. HIDE DEF state
  <2>10. Processor' = state
    BY <2>1, <2>9, BecomesState DEF Ready
  <2>11. QED  BY <2>1, <2>9, <2>10 DEF JoinInv
<1>4. CASE Cleanup
  <2> DEFINE state == perform_cleanup(Processor)
  <2>1. /\ Becomes(state) /\ cleaned' = cleaned \cup {p.piece : p \in lookup \ state.lookup}
        /\ UNCHANGED <<sent, handled, overtaken>>
    BY <1>4 DEF Cleanup
  <2>2. /\ state \in ProperStates /\ state.lookup \subseteq lookup
        /\ state.full_packets = full_packets
    BY <1>1, CleanupEffect DEF Processor
  <2>. HIDE DEF state
  <2>3. Processor' = state
    BY <2>1, <2>2, BecomesState
  <2>4. Processor.lookup = lookup /\ Processor.full_packets = full_packets
    BY DEF Processor
  <2>5. Explained(state, handled, sent)
    BY <1>2, <2>2, <2>4 DEF Ready, Explained
  <2>6. AllSound(state, sent, overtaken) /\ \A n : Joined(Processor, n) => Joined(state, n)
    BY <1>2, <2>2, <2>4 DEF Ready, AllSound, Joined
  <2>7. ASSUME NEW n \in handled, Begins(sent, n), Piece(n, "start") \notin cleaned'
        PROVE  \/ Joined(state, n)
               \/ Waits(state, n) /\ n + 1 \notin handled
               \/ <<n, n + 1>> \in overtaken
    <3>1. \/ Joined(Processor, n) \/ <<n, n + 1>> \in overtaken
          \/ Waits(Processor, n) /\ n + 1 \notin handled
      BY <1>2, <2>1, <2>7 DEF Ready, Paired
    <3>2. ASSUME Waits(Processor, n)
          PROVE  Waits(state, n)
      <4> DEFINE p == [entry |-> StartEntry(n), piece |-> Piece(n, "start")]
      <4>1. p \in lookup /\ p.piece = Piece(n, "start")
        BY <2>4, <3>2 DEF Waits
      <4>. HIDE DEF p
      <4>2. p \in state.lookup
        BY <2>1, <2>7, <4>1
      <4>3. QED  BY <4>2 DEF Waits, p
    <3>3. QED  BY <2>6, <3>1, <3>2
  <2>8. Paired(state, handled, handled, cleaned', sent, overtaken)
    BY <2>7 DEF Paired
  <2>9. Ready(state, handled, cleaned', sent, overtaken)
    BY <2>2, <2>5, <2>6, <2>8 DEF Ready
  <2>10. QED  BY <2>1, <2>3, <2>9 DEF JoinInv
<1>5. CASE UNCHANGED <<processorVars, sent>>
  <2>1. Processor' = Processor /\ UNCHANGED <<handled, overtaken, cleaned, sent>>
    BY <1>5 DEF processorVars, Processor
  <2>2. QED  BY <2>1 DEF JoinInv
<1>6. CASE (\E frame \in transit : Arrive(frame) \/ Lose(frame)) \/ UNCHANGED vars
  BY <1>5, <1>6 DEF Arrive, Lose, vars
<1>7. CASE Send
  <2>1. PICK frame \in Frames : sent' = Append(sent, frame)
    BY <1>7, SendLaid
  <2>2. /\ \A n \in Int : n + 1 <= Len(sent) => (Begins(sent', n) <=> Begins(sent, n))
        /\ \A n, piece : Opens(sent, n, piece) => Opens(sent', n, piece)
    BY <1>1, <2>1, FramesAppended
  <2>3. \A n \in handled : n \in Int /\ n + 1 <= Len(sent)
    BY <1>1 DEF SentInv, Numbers
  <2>4. \A n \in handled : Begins(sent', n) <=> Begins(sent, n)
    BY <2>2, <2>3
  <2>5. Processor' = Processor /\ UNCHANGED <<handled, overtaken, cleaned>>
    BY <1>7 DEF Send, processorVars, Processor
  <2>6. Explained(Processor, handled, sent')
    BY <1>2, <2>2, <2>4 DEF Ready, Explained
  <2>7. Paired(Processor, handled, handled, cleaned, sent', overtaken)
    BY <1>2, <2>4 DEF Ready, Paired
  <2>8. AllSound(Processor, sent', overtaken)
    BY <1>2, <2>2, SoundKept DEF Ready
  <2>9. Ready(Processor, handled, cleaned, sent', overtaken)
    BY <1>1, <2>6, <2>7, <2>8 DEF Ready
  <2>10. QED  BY <2>5, <2>9 DEF JoinInv
<1>8. QED  BY <1>3, <1>4, <1>6, <1>7 DEF Next

\* What is joined and what waits, of a state with the types.
PlaceInv == TypeInv /\ LaidInv /\ SentInv /\ JoinInv

\* They hold at first
LEMMA PlaceInit == Init => PlaceInv
<1> SUFFICES ASSUME Init PROVE PlaceInv
  OBVIOUS
<1>1. TypeInv
  BY TypeInit
<1>2. /\ sent = <<>> /\ frame_queue = <<>> /\ transit = {} /\ handled = {}
      /\ Processor.lookup = {} /\ Processor.full_packets = <<>>
  BY DEF Init, Processor
<1>3. LaidInv /\ SentInv
  <2>1. 0 .. Len(sent) - 1 = {} /\ 1 .. Len(frame_queue) = {}
    BY <1>2, EmptySeq
  <2>2. QED  BY <1>2, <2>1 DEF LaidInv, SentInv
<1>4. JoinInv
  <2>1. DOMAIN Processor.full_packets = {}
    BY <1>2, EmptySeq
  <2>2. QED  BY <1>1, <1>2, <2>1 DEF JoinInv, Ready, Explained, AllSound, Paired, TypeInv
<1>5. QED  BY <1>1, <1>3, <1>4 DEF PlaceInv

\* and after every step.
LEMMA PlaceStep ==
  ASSUME Separate, PlaceInv, [Next]_vars
  PROVE  PlaceInv'
BY TypeStep, SentStep, JoinStep DEF PlaceInv

\* What was handled of a packet tells the frames that were.
LEMMA PieceHandled ==
  ASSUME TypeInv, LaidInv, NEW numbers, \A n \in numbers : n \in 0 .. Len(sent) - 1,
         NEW piece, piece \in PiecesIn(numbers)
  PROVE  \E n \in numbers : /\ n \in 0 .. Len(sent) - 1
                            /\ \/ sent[n + 1].before = <<piece>>
                               \/ sent[n + 1].after = <<piece>>
<1>1. PICK n \in numbers : piece \in ToSet(sent[n + 1].before \o sent[n + 1].after)
  BY DEF PiecesIn
<1>2. n \in Int /\ n + 1 \in 1 .. Len(sent) /\ n \in 0 .. Len(sent) - 1 /\ sent \in Seq(Frames)
  BY DEF TypeInv
<1> DEFINE before == sent[n + 1].before
           after == sent[n + 1].after
<1>3. /\ before = <<>> \/ \E x : before = <<x>>
      /\ after = <<>> \/ \E x : after = <<x>>
  BY <1>2 DEF LaidInv, Laid
<1>4. before \in Seq(Pieces) /\ after \in Seq(Pieces)
  <2>1. sent[n + 1] \in Frames
    BY <1>2, ElementOfSeq
  <2>2. QED  BY <2>1 DEF Frames
<1>5. piece \in ToSet(before \o after)
  BY <1>1
<1>. HIDE DEF before, after
<1>6. piece \in ToSet(before) \cup ToSet(after)
  <2>1. PICK i \in DOMAIN (before \o after) : piece = (before \o after)[i]
    BY <1>5 DEF ToSet
  <2>2. /\ Len(before) \in Nat /\ Len(after) \in Nat
        /\ DOMAIN before = 1 .. Len(before) /\ DOMAIN after = 1 .. Len(after)
        /\ DOMAIN (before \o after) = 1 .. Len(before) + Len(after)
    BY <1>4, ConcatProperties
  <2>3. (before \o after)[i] = IF i <= Len(before) THEN before[i] ELSE after[i - Len(before)]
    BY <1>4, <2>1, <2>2, ConcatProperties
  <2>4. CASE i <= Len(before)
    BY <2>1, <2>2, <2>3, <2>4 DEF ToSet
  <2>5. CASE ~(i <= Len(before))
    <3>1. i - Len(before) \in 1 .. Len(after)
      BY <2>1, <2>2, <2>5
    <3>2. QED  BY <2>1, <2>2, <2>3, <2>5, <3>1 DEF ToSet
  <2>6. QED  BY <2>4, <2>5
<1>7. \A x : ToSet(<<x>>) = {x}
  BY DEF ToSet
<1>8. ToSet(<<>>) = {}
  BY EmptySeq DEF ToSet
<1>9. before = <<piece>> \/ after = <<piece>>
  BY <1>3, <1>6, <1>7, <1>8
<1>10. QED  BY <1>2, <1>9 DEF before, after

\* A piece that some frame begins with is one of the pieces sent.
LEMMA OpeningSent ==
  ASSUME TypeInv, NEW n, n + 1 \in 1 .. Len(sent), n \in Int, NEW piece,
         sent[n + 1].before = <<piece>>
  PROVE  piece \in PiecesIn(0 .. Len(sent) - 1)
<1> DEFINE after == sent[n + 1].after
           all == <<piece>> \o after
<1>1. sent[n + 1] \in Frames /\ n \in 0 .. Len(sent) - 1
  BY ElementOfSeq DEF TypeInv
<1>2. after \in Seq(Pieces) /\ <<piece>> \in Seq(Pieces)
  BY <1>1 DEF Frames
<1>. HIDE DEF after
<1>3. 1 \in DOMAIN all /\ all[1] = piece
  <2>1. Len(<<piece>>) = 1 /\ <<piece>>[1] = piece /\ Len(after) \in Nat
    BY <1>2
  <2>2. Len(all) = 1 + Len(after) /\ all[1] = <<piece>>[1] /\ DOMAIN all = 1 .. Len(all)
    BY <1>2, <2>1, ConcatProperties
  <2>3. QED  BY <2>1, <2>2
<1>4. piece \in ToSet(all)
  BY <1>3 DEF ToSet
<1>5. QED  BY <1>1, <1>4 DEF PiecesIn, after

\* What is sound is one of the kinds the property names.
LEMMA SoundIs ==
  ASSUME TypeInv, NEW pieces, Sound(pieces, sent, overtaken)
  PROVE  IsWhole(pieces) \/ IsCutShort(pieces) \/ IsMistaken(pieces)
<1>1. \A n \in Numbers : \A piece :
        /\ Opens(sent, n + 1, piece) => BeginsWith(n + 1, piece)
        /\ Opens(sent, n + 3, piece) => BeginsWith(n + 3, piece)
  BY DEF TypeInv, Opens, BeginsWith, Numbers
<1>2. CASE Len(pieces) = 1 /\ pieces[1].part = "whole"
  BY <1>2 DEF IsWhole
<1>3. ASSUME NEW n \in Numbers, NEW part \in {"middle", "end"},
             pieces = <<Piece(n, "start"), Piece(n, part)>>, Opens(sent, n + 1, Piece(n, part))
      PROVE  IsWhole(pieces) \/ IsCutShort(pieces)
  <2>1. BeginsWith(n + 1, Piece(n, part))
    BY <1>1, <1>3
  <2>2. part = "end" => IsWhole(pieces)
    BY <1>3, <2>1 DEF IsWhole
  <2>3. part = "middle" => IsCutShort(pieces)
    BY <1>3, <2>1 DEF IsCutShort
  <2>4. QED  BY <2>2, <2>3
<1>4. ASSUME NEW n \in Numbers, <<n, n + 3>> \in overtaken,
             Len(pieces) = 2 /\ pieces[1] = Piece(n, "start"), Opens(sent, n + 3, pieces[2])
      PROVE  IsMistaken(pieces)
  <2>1. BeginsWith(n + 3, pieces[2])
    BY <1>1, <1>4
  <2>2. QED  BY <1>4, <2>1 DEF IsMistaken
<1>5. QED  BY <1>2, <1>3, <1>4 DEF Sound

\* Packets are joined from their own halves, or cut short after two frames, or taken from the
\* third frame on by a start that came late, whatever frames are lost, dropped from the full
\* queue or cleaned away, in whatever order they come, and wherever the count starts and
\* wraps, while fewer frames are sent than the count tells apart. (With one frame more an
\* idle frame of the cycle before is joined to a start.)
THEOREM JoinedAreWholeHolds ==
  ASSUME Separate
  PROVE  Spec => []JoinedAreWhole
<1>1. PlaceInv => JoinedAreWhole
  BY SoundIs DEF PlaceInv, JoinInv, Ready, AllSound, JoinedAreWhole, Processor
<1>2. Init => PlaceInv
  BY PlaceInit
<1>3. PlaceInv /\ [Next]_vars => PlaceInv'
  BY PlaceStep
<1>4. QED  BY <1>1, <1>2, <1>3, PTL DEF Spec

\* The end of a packet with no middle is what the frame after its start begins with.
LEMMA HalvesHandled ==
  ASSUME TypeInv, LaidInv, SentInv, NEW packet \in Numbers,
         {Piece(packet, "start"), Piece(packet, "end")} \subseteq PiecesIn(handled),
         Piece(packet, "middle") \notin PiecesIn(0 .. Len(sent) - 1)
  PROVE  packet \in handled /\ Begins(sent, packet) /\ packet + 1 \in handled
<1>1. /\ \A n \in handled : n \in 0 .. Len(sent) - 1
      /\ sent \in Seq(Frames) /\ Len(sent) \in Nat /\ packet \in Int
  BY DEF TypeInv, SentInv, Numbers
<1>2. \A p, part, part2 : part # part2 => Piece(p, part) # Piece(packet, part2)
  BY DEF Piece
<1>3. \A p, part : Piece(p, part) = Piece(packet, part) => p = packet
  BY DEF Piece
<1>4. packet \in handled /\ Begins(sent, packet)
  <2>1. PICK n \in handled : /\ n \in 0 .. Len(sent) - 1
                             /\ \/ sent[n + 1].before = <<Piece(packet, "start")>>
                                \/ sent[n + 1].after = <<Piece(packet, "start")>>
    BY <1>1, PieceHandled
  <2>2. Laid(sent, n)
    BY <2>1 DEF LaidInv
  <2>3. sent[n + 1].before # <<Piece(packet, "start")>>
    <3>1. \/ sent[n + 1].before \in {<<>>, <<Piece(n, "idle")>>}
          \/ \E p \in Numbers :
               sent[n + 1].before \in {<<Piece(p, "middle")>>, <<Piece(p, "end")>>}
      BY <2>2 DEF Laid
    <3>2. \A p, part : part # "start" => <<Piece(p, part)>> # <<Piece(packet, "start")>>
      BY <1>2
    <3>3. <<Piece(packet, "start")>> # <<>>
      OBVIOUS
    <3>4. QED  BY <3>1, <3>2, <3>3
  <2>4. sent[n + 1].after = <<Piece(packet, "start")>>
    BY <2>1, <2>3
  <2>5. n = packet
    <3>1. \/ sent[n + 1].after = <<>> \/ sent[n + 1].after = <<Piece(n, "whole")>>
          \/ sent[n + 1].after = <<Piece(n, "start")>>
      BY <2>2 DEF Laid
    <3>2. QED  BY <1>2, <1>3, <2>4, <3>1
  <2>6. QED  BY <1>1, <2>1, <2>4, <2>5 DEF Begins
<1>5. packet + 1 \in handled
  <2>1. PICK n \in handled : /\ n \in 0 .. Len(sent) - 1
                             /\ \/ sent[n + 1].before = <<Piece(packet, "end")>>
                                \/ sent[n + 1].after = <<Piece(packet, "end")>>
    BY <1>1, PieceHandled
  <2>2. Laid(sent, n) /\ n \in Int
    BY <2>1 DEF LaidInv
  <2>3. sent[n + 1].before = <<Piece(packet, "end")>>
    <3>1. sent[n + 1].after # <<Piece(packet, "end")>>
      <4>1. \/ sent[n + 1].after = <<>>
            \/ \E part : part # "end" /\ sent[n + 1].after = <<Piece(n, part)>>
        BY <2>2 DEF Laid
      <4>2. QED  BY <1>2, <4>1
    <3>2. QED  BY <2>1, <3>1
  <2>4. GoesOn(sent, n - 1, packet)
    <3>1. CASE sent[n + 1].before \in {<<>>, <<Piece(n, "idle")>>}
      BY <1>2, <2>3, <3>1
    <3>2. ASSUME NEW p \in Numbers, GoesOn(sent, n - 1, p),
                 sent[n + 1].before \in {<<Piece(p, "middle")>>, <<Piece(p, "end")>>}
          PROVE  GoesOn(sent, n - 1, packet)
      <4>1. p = packet
        BY <1>2, <1>3, <2>3, <3>2
      <4>2. QED  BY <3>2, <4>1
    <3>3. QED  BY <2>2, <3>1, <3>2 DEF Laid
  <2>5. ~Opens(sent, n - 1, Piece(packet, "middle"))
    <3>1. n - 1 \in Int
      BY <2>2
    <3>2. QED  BY <3>1, OpeningSent DEF Opens
  <2>6. packet = n - 1
    BY <2>4, <2>5 DEF GoesOn
  <2>7. QED  BY <2>1, <2>2, <2>6
<1>6. QED  BY <1>4, <1>5

\* A packet both halves of which were handled was put together, unless its start was cleaned
\* away, came after its end, or was joined to what the third frame after it begins with, or
\* the packet is over three frames: on the same condition.
THEOREM NoPairMissedHolds ==
  ASSUME Separate
  PROVE  Spec => []NoPairMissed
<1>1. PlaceInv => NoPairMissed
  <2> SUFFICES ASSUME PlaceInv, NEW packet \in Numbers,
                      {Piece(packet, "start"), Piece(packet, "end")} \subseteq PiecesIn(handled),
                      ~IsMissed(packet)
               PROVE  WasJoined(packet)
    BY DEF NoPairMissed
  <2>1. /\ Piece(packet, "start") \notin cleaned /\ <<packet, packet + 1>> \notin overtaken
        /\ Piece(packet, "middle") \notin PiecesIn(0 .. Len(sent) - 1)
    BY DEF IsMissed
  <2>2. packet \in handled /\ Begins(sent, packet) /\ packet + 1 \in handled
    BY <2>1, HalvesHandled DEF PlaceInv
  <2>3. Joined(Processor, packet)
    BY <2>1, <2>2 DEF PlaceInv, JoinInv, Ready, Paired
  <2>4. PICK i \in DOMAIN full_packets :
          Len(full_packets[i]) = 2 /\ full_packets[i][1] = Piece(packet, "start")
    BY <2>3 DEF Joined, Processor
  <2> DEFINE pieces == full_packets[i]
  <2>5. IsWhole(pieces) \/ IsCutShort(pieces) \/ IsMistaken(pieces)
    BY SoundIs DEF PlaceInv, JoinInv, Ready, AllSound, Processor
  <2>6. ~IsMistaken(pieces)
    BY <2>4 DEF IsMissed
  <2>7. \A n : Piece(n, "start") = Piece(packet, "start") => n = packet
    BY DEF Piece
  <2>8. ~IsCutShort(pieces)
    <3> SUFFICES ASSUME NEW n \in Numbers, pieces = <<Piece(n, "start"), Piece(n, "middle")>>,
                        BeginsWith(n + 1, Piece(n, "middle"))
                 PROVE  FALSE
      BY DEF IsCutShort
    <3>1. n = packet
      BY <2>4, <2>7
    <3>2. n + 1 \in Int /\ (n + 1) + 1 \in 1 .. Len(sent)
      BY DEF BeginsWith, Numbers, PlaceInv, TypeInv
    <3>3. QED  BY <2>1, <3>1, <3>2, OpeningSent DEF BeginsWith, PlaceInv
  <2>9. IsWhole(pieces)
    BY <2>5, <2>6, <2>8
  <2>10. PICK n \in Numbers : pieces = <<Piece(n, "start"), Piece(n, "end")>>
    BY <2>4, <2>9 DEF IsWhole
  <2>11. n = packet
    BY <2>4, <2>7, <2>10
  <2>12. QED  BY <2>9, <2>10, <2>11 DEF WasJoined
<1>2. Init => PlaceInv
  BY PlaceInit
<1>3. PlaceInv /\ [Next]_vars => PlaceInv'
  BY PlaceStep
<1>4. QED  BY <1>1, <1>2, <1>3, PTL DEF Spec
=============================================================================
