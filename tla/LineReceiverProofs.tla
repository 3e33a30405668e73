-------------------------- MODULE LineReceiverProofs --------------------------
(***************************************************************************)
(* LineIntact, WordsRight and NumbersRight for a buffer of any size, lines  *)
(* of any length and commands of any number of words.                       *)
(*                                                                          *)
(* The inductive invariant says of a line that is still being received what *)
(* LineIntact says of one that is ready, and that no line is ready when the *)
(* next byte is read.  What tokenize makes of a line is proved by induction *)
(* on what is left of the line behind the cursor: see Good.                 *)
(***************************************************************************)
EXTENDS LineWords, NumbersProofs, SequenceTheorems

Lowered(sent) == [i \in 1 .. Len(sent) |-> Lower(sent[i])]

IInv ==
    /\ TypeOK
    /\ pc = "main" => ~line_ready
    /\ line_ready => text # <<>>
    /\ line_overflow <=> ~Acceptable(text)
    /\ ~line_overflow => line_buffer = Lowered(text)

-----------------------------------------------------------------------------
LEMMA LowerIsByte == ASSUME NEW byte \in 0 .. 255 PROVE Lower(byte) \in 0 .. 255
  BY DEF Lower, IsCapital

LEMMA LoweredLength ==
    ASSUME NEW sent \in Seq(0 .. 255)
    PROVE  /\ Lowered(sent) \in Seq(0 .. 255)
           /\ Len(Lowered(sent)) = Len(sent)
           /\ \A i \in 1 .. Len(sent) : Lowered(sent)[i] = Lower(sent[i])
  <1>1. ASSUME NEW i \in 1 .. Len(sent) PROVE Lower(sent[i]) \in 0 .. 255
    <2>1. sent[i] \in 0 .. 255
      BY ElementOfSeq
    <2> QED BY <2>1, LowerIsByte
  <1>2. Len(sent) \in Nat
    OBVIOUS
  <1> QED BY <1>1, <1>2 DEF Lowered

LEMMA LoweredAppend ==
    ASSUME NEW sent \in Seq(0 .. 255), NEW byte \in 0 .. 255
    PROVE  Append(Lowered(sent), Lower(byte)) = Lowered(Append(sent, byte))
  <1> DEFINE left == Append(Lowered(sent), Lower(byte))
             right == Lowered(Append(sent, byte))
  <1>1. Append(sent, byte) \in Seq(0 .. 255) /\ Len(Append(sent, byte)) = Len(sent) + 1
    OBVIOUS
  <1>2. /\ Lowered(sent) \in Seq(0 .. 255) /\ Len(Lowered(sent)) = Len(sent)
        /\ Lower(byte) \in 0 .. 255
    BY LoweredLength, LowerIsByte
  <1>3. left \in Seq(0 .. 255) /\ Len(left) = Len(sent) + 1
    BY <1>2
  <1>4. right \in Seq(0 .. 255) /\ Len(right) = Len(sent) + 1
    BY <1>1, LoweredLength
  <1> HIDE DEF right
  <1>5. ASSUME NEW i \in 1 .. Len(sent) + 1 PROVE left[i] = right[i]
    <2>1. right[i] = Lower(Append(sent, byte)[i])
      BY <1>1, LoweredLength DEF right
    <2>2. CASE i = Len(sent) + 1
      BY <1>2, <2>1, <2>2
    <2>3. CASE i \in 1 .. Len(sent)
      <3>1. Lowered(sent)[i] = Lower(sent[i])
        BY <2>3, LoweredLength
      <3>2. Append(sent, byte)[i] = sent[i] /\ left[i] = Lowered(sent)[i]
        BY <1>2, <2>3
      <3> QED BY <2>1, <3>1, <3>2
    <2>4. i = Len(sent) + 1 \/ i \in 1 .. Len(sent)
      BY LenProperties
    <2> QED BY <2>2, <2>3, <2>4
  <1> HIDE DEF left
  <1> USE DEF left, right
  <1> QED BY <1>3, <1>4, <1>5, SeqEqual

(* One more byte: a line stays acceptable if it fits and is printable, and *)
(* a line that is not acceptable does not become so.                       *)
LEMMA OneMoreByte ==
    ASSUME NEW sent \in Seq(0 .. 255), NEW byte \in 0 .. 255
    PROVE  Acceptable(Append(sent, byte))
             <=> /\ Acceptable(sent) /\ Printable(byte)
                 /\ Len(sent) < REPLUG_LINE_CAPACITY - 1
  <1>1. /\ Len(Append(sent, byte)) = Len(sent) + 1
        /\ \A i \in 1 .. Len(sent) : Append(sent, byte)[i] = sent[i]
        /\ Append(sent, byte)[Len(sent) + 1] = byte
    OBVIOUS
  <1>2. ASSUME Acceptable(Append(sent, byte))
        PROVE  Acceptable(sent) /\ Printable(byte)
               /\ Len(sent) < REPLUG_LINE_CAPACITY - 1
    BY <1>1, <1>2, ReceiverAssumption DEF Acceptable
  <1>3. ASSUME Acceptable(sent), Printable(byte), Len(sent) < REPLUG_LINE_CAPACITY - 1
        PROVE  Acceptable(Append(sent, byte))
    BY <1>1, <1>3, ReceiverAssumption DEF Acceptable
  <1> QED BY <1>2, <1>3

LEMMA Empty ==
    /\ <<>> \in Seq(0 .. 255) /\ Len(<<>>) = 0
    /\ Acceptable(<<>>) /\ Lowered(<<>>) = <<>>
  BY ReceiverAssumption, EmptySeq DEF Acceptable, Lowered

LEMMA Initially == Init => IInv
  <1> SUFFICES ASSUME Init PROVE IInv
    OBVIOUS
  <1>1. TypeOK
    <2>1. line_buffer \in Seq(0 .. 255) /\ Len(line_buffer) = 0 /\ text \in Seq(0 .. 255)
      BY Empty DEF Init
    <2>2. pc \in {"main", "poll"} /\ line_ready \in BOOLEAN /\ line_overflow \in BOOLEAN
      BY DEF Init
    <2> QED BY <2>1, <2>2, ReceiverAssumption DEF TypeOK
  <1>2. Acceptable(text) /\ Lowered(text) = line_buffer
    BY Empty DEF Init
  <1> QED BY <1>1, <1>2 DEF Init, IInv

LEMMA Inductive == IInv /\ [Next]_vars => IInv'
  <1> SUFFICES ASSUME IInv, [Next]_vars PROVE IInv'
    OBVIOUS
  <1> USE ReceiverAssumption
  <1>0. text \in Seq(0 .. 255)
    BY DEF IInv, TypeOK
  <1>1. ASSUME NEW byte \in Bytes, FeedByte(byte) PROVE IInv'
    <2>1. ~line_ready /\ pc' = "poll" /\ (EndOfLine(byte) \/ Character(byte))
      BY <1>1 DEF FeedByte, IInv
    <2>2. CASE EndOfLine(byte)
      <3>1. line_ready' => text # <<>>
        BY <2>2, Empty DEF EndOfLine, IInv
      <3> QED BY <2>1, <2>2, <3>1 DEF EndOfLine, IInv, TypeOK, Acceptable, Lowered
    <2>3. CASE Character(byte)
      <3> DEFINE fits == Printable(byte) /\ Len(line_buffer) < REPLUG_LINE_CAPACITY - 1
      <3>0. byte \in 0 .. 255 /\ Lower(byte) \in 0 .. 255
        BY LowerIsByte
      <3>1. text' = Append(text, byte) /\ line_ready' = FALSE
        BY <2>1, <2>3 DEF Character, IInv, TypeOK
      <3>2. TypeOK'
        <4>1. line_buffer' \in Seq(0 .. 255) /\ text' \in Seq(0 .. 255)
          <5>1. line_buffer' = line_buffer \/ line_buffer' = Append(line_buffer, Lower(byte))
            BY <2>3 DEF Character
          <5>2. line_buffer \in Seq(0 .. 255)
            BY DEF IInv, TypeOK
          <5>3. Append(line_buffer, Lower(byte)) \in Seq(0 .. 255)
            BY <3>0, <5>2, AppendProperties
          <5>4. Append(text, byte) \in Seq(0 .. 255)
            BY <1>0, <3>0, AppendProperties
          <5> QED BY <3>1, <5>1, <5>2, <5>3, <5>4
        <4>2. Len(line_buffer') < REPLUG_LINE_CAPACITY
          BY <2>3, <3>0, AppendProperties, LenProperties DEF Character, IInv, TypeOK
        <4>3. line_overflow' \in BOOLEAN
          BY <2>3 DEF Character, IInv, TypeOK
        <4> QED BY <2>1, <3>1, <4>1, <4>2, <4>3 DEF TypeOK
      <3>3. ~line_overflow => Len(line_buffer) = Len(text)
        BY <1>0, LoweredLength DEF IInv
      <3>4. Acceptable(text)' <=> Acceptable(text) /\ Printable(byte)
                                   /\ Len(text) < REPLUG_LINE_CAPACITY - 1
        BY <1>0, <3>0, <3>1, OneMoreByte DEF Acceptable
      <3>5. line_overflow' <=> line_overflow \/ ~fits
        BY <2>3 DEF Character, IInv, TypeOK
      <3>6. line_overflow' <=> ~Acceptable(text)'
        BY <3>3, <3>4, <3>5 DEF IInv
      <3>7. ~line_overflow' => line_buffer' = Lowered(text)'
        BY <1>0, <2>3, <3>0, <3>1, <3>5, LoweredAppend DEF Character, IInv, Lowered
      <3> QED BY <2>1, <3>1, <3>2, <3>6, <3>7 DEF IInv
    <2> QED BY <2>1, <2>2, <2>3
  <1>2. ASSUME Poll PROVE IInv'
    BY <1>2, Empty DEF Poll, IInv, TypeOK, Acceptable, Lowered
  <1>3. ASSUME Restart PROVE IInv'
    BY <1>3, Empty DEF Restart, IInv, TypeOK, Acceptable, Lowered
  <1>4. ASSUME UNCHANGED vars PROVE IInv'
    BY <1>4 DEF vars, IInv, TypeOK, Acceptable, Lowered
  <1> QED BY <1>1, <1>2, <1>3, <1>4 DEF Next

LEMMA Invariance == Spec => []IInv
  BY Initially, Inductive, PTL DEF Spec

(* The buffer holds at most one character less than it has places, whatever *)
(* the host sends: the NUL that ends the line is written inside of it.     *)
THEOREM BufferHolds == Spec => []TypeOK
  <1>1. IInv => TypeOK
    BY DEF IInv
  <1> QED BY <1>1, Invariance, PTL

(* A line that is processed is the line the host sent, or is known not to  *)
(* be.                                                                     *)
THEOREM LinesAreIntact == Spec => []LineIntact
  <1>1. IInv => LineIntact
    BY DEF IInv, LineIntact, Lowered
  <1> QED BY <1>1, Invariance, PTL

-----------------------------------------------------------------------------
(* What tokenize can find in a buffer, whatever is in it.                  *)
Found == [argc : Nat, args : Seq(Seq(Int))]

LEMMA WordEnds ==
    ASSUME NEW buffer \in Seq(Int), NEW cursor \in 1 .. Len(buffer)
    PROVE  LET end == WordEnd(buffer, cursor) IN
           /\ end \in cursor .. Len(buffer) + 1
           /\ end \leq Len(buffer) => is_space(buffer[end])
           /\ \A i \in cursor .. end - 1 : ~is_space(buffer[i])
<1> DEFINE N == Len(buffer)
           T == {i \in cursor .. N + 1 : i \leq N => is_space(buffer[i])}
<1>1. N \in Nat /\ cursor \in Nat /\ cursor \leq N
  BY Characters
<1>2. T \in SUBSET Nat /\ N + 1 \in T
  BY <1>1
<1>3. \E x \in T : \A y \in T : x \leq y
  <2>1. PICK x \in T : \A y \in T : ~(y < x)
    <3> HIDE DEF T
    <3> QED BY <1>2, NatMin
  <2> QED BY <1>2, <2>1
<1> DEFINE end == Min(T)
<1>4. end \in T /\ \A y \in T : end \leq y
  <2> HIDE DEF T
  <2> QED BY <1>3 DEF Min
<1> HIDE DEF end
<1>5. end \in cursor .. N + 1 /\ (end \leq N => is_space(buffer[end]))
  BY <1>4
<1>6. ASSUME NEW i \in cursor .. end - 1, is_space(buffer[i]) PROVE FALSE
  <2>1. i \in T /\ i < end /\ i \in Nat /\ end \in Nat
    BY <1>1, <1>5, <1>6
  <2> HIDE DEF T
  <2> QED BY <1>4, <2>1
<1>7. end = WordEnd(buffer, cursor)
  BY DEF end, WordEnd
<1> HIDE DEF T, N
<1> QED BY <1>5, <1>6, <1>7 DEF N

LEMMA WordIsText ==
    ASSUME NEW buffer \in Seq(Int), NEW cursor \in 1 .. Len(buffer)
    PROVE  LET end == WordEnd(buffer, cursor)
               word == SubSeq(buffer, cursor, end - 1)
           IN  /\ ~is_space(buffer[cursor]) => end \in cursor + 1 .. Len(buffer) + 1
               /\ word \in Seq(Int) /\ Len(word) = end - cursor
               /\ \A k \in 1 .. Len(word) : word[k] = buffer[cursor + k - 1]
<1> DEFINE N == Len(buffer)
           end == WordEnd(buffer, cursor)
           word == SubSeq(buffer, cursor, end - 1)
<1>1. N \in Nat /\ cursor \in 1 .. N
  BY Characters
<1>2. end \in cursor .. N + 1 /\ (end \leq N => is_space(buffer[end]))
  BY WordEnds
<1> HIDE DEF end
<1>3. ~is_space(buffer[cursor]) => end \in cursor + 1 .. N + 1
  BY <1>1, <1>2
<1>4. cursor \in Int /\ end - 1 \in Int /\ \A i \in cursor .. end - 1 : buffer[i] \in Int
  <2>1. \A i \in cursor .. end - 1 : i \in 1 .. N
    BY <1>1, <1>2
  <2> QED BY <1>1, <1>2, <2>1, Characters
<1>5. /\ word \in Seq(Int)
      /\ Len(word) = IF cursor \leq end - 1 THEN (end - 1) - cursor + 1 ELSE 0
      /\ \A k \in 1 .. (end - 1) - cursor + 1 : word[k] = buffer[cursor + k - 1]
  BY <1>4, SubSeqProperties
<1>6. /\ cursor \leq end - 1 => (end - 1) - cursor + 1 = end - cursor
      /\ ~(cursor \leq end - 1) => end - cursor = 0
  BY <1>1, <1>2
<1>7. Len(word) = end - cursor /\ (end - 1) - cursor + 1 = end - cursor
  BY <1>1, <1>2, <1>5, <1>6
<1> HIDE DEF N, word
<1>8. \A k \in 1 .. Len(word) : word[k] = buffer[cursor + k - 1]
  BY <1>5, <1>7
<1> QED BY <1>3, <1>5, <1>7, <1>8 DEF end, N, word

Places(buffer) == (1 .. Len(buffer) + 2) \X (0 .. REPLUG_MAX_ARGS)

(* The turns of the loop that follow the one at this place.                *)
LEMMA NextPlaces ==
    ASSUME NEW buffer \in Seq(Int), NEW at \in Places(buffer)
    PROVE  LET cursor == at[1]
               count == at[2]
               end == WordEnd(buffer, cursor)
           IN  /\ cursor \in Nat /\ count \in Nat /\ count \leq REPLUG_MAX_ARGS
               /\ cursor \leq Len(buffer) =>
                     /\ cursor \in 1 .. Len(buffer)
                     /\ <<cursor + 1, count>> \in Places(buffer)
                     /\ ~is_space(buffer[cursor]) /\ count # REPLUG_MAX_ARGS =>
                           /\ end \in cursor + 1 .. Len(buffer) + 1
                           /\ <<end + 1, count + 1>> \in Places(buffer)
<1> DEFINE N == Len(buffer)
           cursor == at[1]
           count == at[2]
           end == WordEnd(buffer, cursor)
<1>1. N \in Nat /\ cursor \in 1 .. N + 2 /\ count \in 0 .. REPLUG_MAX_ARGS
  BY Characters DEF Places
<1>2. cursor \leq N => cursor \in 1 .. N
  BY <1>1
<1>3. cursor \leq N /\ ~is_space(buffer[cursor]) => end \in cursor + 1 .. N + 1
  BY <1>2, WordIsText
<1> HIDE DEF N, cursor, count, end
<1>4. cursor \in Nat /\ count \in Nat /\ count \leq REPLUG_MAX_ARGS
  BY <1>1, WordsAssumption
<1>5. cursor \leq N => <<cursor + 1, count>> \in (1 .. N + 2) \X (0 .. REPLUG_MAX_ARGS)
  BY <1>1
<1>6. cursor \leq N /\ ~is_space(buffer[cursor]) /\ count # REPLUG_MAX_ARGS
        => <<end + 1, count + 1>> \in (1 .. N + 2) \X (0 .. REPLUG_MAX_ARGS)
  BY <1>1, <1>3, WordsAssumption
<1> QED BY <1>2, <1>3, <1>4, <1>5, <1>6 DEF N, cursor, count, end, Places

LEMMA ScanFinds ==
    ASSUME NEW buffer \in Seq(Int), NEW f \in [Places(buffer) -> Found], NEW at \in Places(buffer)
    PROVE  Scan(buffer, f, at[1], at[2]) \in Found
<1> DEFINE cursor == at[1]
           count == at[2]
           end == WordEnd(buffer, cursor)
           word == SubSeq(buffer, cursor, end - 1)
           rest == f[<<end + 1, count + 1>>]
<1>0. cursor \in Nat /\ count \in Nat /\ REPLUG_MAX_ARGS + 1 \in Nat
  <2>1. REPLUG_MAX_ARGS + 1 \in Nat
    BY WordsAssumption
  <2> QED BY <2>1, NextPlaces
<1>1. \A n \in Nat : [argc |-> n, args |-> <<>>] \in Found
  BY EmptySeq DEF Found
<1>2. CASE cursor > Len(buffer)
  BY <1>0, <1>1, <1>2 DEF Scan
<1>3. CASE ~(cursor > Len(buffer)) /\ is_space(buffer[cursor])
  <2>1. cursor \leq Len(buffer)
    BY <1>0, <1>3, Characters
  <2>2. f[<<cursor + 1, count>>] \in Found
    BY <2>1, NextPlaces
  <2> QED BY <1>3, <2>2 DEF Scan
<1>4. CASE ~(cursor > Len(buffer)) /\ ~is_space(buffer[cursor]) /\ count = REPLUG_MAX_ARGS
  BY <1>0, <1>1, <1>4 DEF Scan
<1>5. CASE ~(cursor > Len(buffer)) /\ ~is_space(buffer[cursor]) /\ count # REPLUG_MAX_ARGS
  <2>1. cursor \leq Len(buffer)
    BY <1>0, <1>5, Characters
  <2>2. rest \in Found /\ cursor \in 1 .. Len(buffer)
    BY <1>5, <2>1, NextPlaces
  <2>3. word \in Seq(Int)
    BY <2>2, WordIsText
  <2> HIDE DEF word, rest
  <2>4. <<word>> \in Seq(Seq(Int)) /\ rest.args \in Seq(Seq(Int))
    BY <2>2, <2>3 DEF Found
  <2>5. <<word>> \o rest.args \in Seq(Seq(Int))
    BY <2>4, ConcatProperties
  <2>6. [rest EXCEPT !.args = <<word>> \o @] \in Found
    BY <2>2, <2>5 DEF Found
  <2>7. Scan(buffer, f, cursor, count) = [rest EXCEPT !.args = <<word>> \o @]
    BY <1>5 DEF Scan, word, rest
  <2> QED BY <2>6, <2>7
<1> QED BY <1>2, <1>3, <1>4, <1>5

LEMMA ScanLooksAhead ==
    ASSUME NEW buffer \in Seq(Int), NEW f, NEW g, NEW at \in Places(buffer),
           \A e \in Places(buffer) : e[1] > at[1] => f[e] = g[e]
    PROVE  Scan(buffer, f, at[1], at[2]) = Scan(buffer, g, at[1], at[2])
<1> DEFINE cursor == at[1]
           count == at[2]
           end == WordEnd(buffer, cursor)
<1>0. cursor \in Nat /\ Len(buffer) \in Nat
  BY NextPlaces, Characters
<1>1. CASE cursor > Len(buffer)
  BY <1>1 DEF Scan
<1>2. CASE ~(cursor > Len(buffer)) /\ is_space(buffer[cursor])
  <2>0. cursor \leq Len(buffer)
    BY <1>0, <1>2
  <2>1. <<cursor + 1, count>> \in Places(buffer)
    BY <2>0, NextPlaces
  <2>2. <<cursor + 1, count>>[1] > cursor
    BY <1>0
  <2>3. f[<<cursor + 1, count>>] = g[<<cursor + 1, count>>]
    BY <2>1, <2>2
  <2> QED BY <1>2, <2>3 DEF Scan
<1>3. CASE ~(cursor > Len(buffer)) /\ ~is_space(buffer[cursor]) /\ count = REPLUG_MAX_ARGS
  BY <1>3 DEF Scan
<1>4. CASE ~(cursor > Len(buffer)) /\ ~is_space(buffer[cursor]) /\ count # REPLUG_MAX_ARGS
  <2>1. cursor \leq Len(buffer)
    BY <1>0, <1>4
  <2>2. <<end + 1, count + 1>> \in Places(buffer) /\ end \in cursor + 1 .. Len(buffer) + 1
    BY <1>4, <2>1, NextPlaces
  <2> HIDE DEF end
  <2>3. <<end + 1, count + 1>>[1] > cursor
    BY <1>0, <2>2
  <2>4. f[<<end + 1, count + 1>>] = g[<<end + 1, count + 1>>]
    BY <2>2, <2>3
  <2> QED BY <1>4, <2>4 DEF Scan, end
<1> QED BY <1>1, <1>2, <1>3, <1>4

LEMMA ScannedExists ==
    ASSUME NEW buffer \in Seq(Int)
    PROVE  \E f : f = [at \in Places(buffer) |-> Scan(buffer, f, at[1], at[2])]
<1> DEFINE N == Len(buffer)
           D == Places(buffer)
           F == [f \in [D -> Found] |-> [at \in D |-> Scan(buffer, f, at[1], at[2])]]
           m == [at \in D |-> (N + 2) - at[1]]
<1>1. N \in Nat
  BY Characters
<1>2. \A at \in D : at[1] \in 1 .. N + 2
  BY DEF Places
<1>3. m \in [D -> 0 .. N + 1] /\ N + 1 \in Nat
  <2> HIDE DEF N, D
  <2> QED BY <1>1, <1>2
<1>4. F \in [[D -> Found] -> [D -> Found]]
  <2>1. \A f \in [D -> Found], at \in D : Scan(buffer, f, at[1], at[2]) \in Found
    BY ScanFinds
  <2> HIDE DEF D, N
  <2> QED BY <2>1
<1>5. ASSUME NEW f \in [D -> Found], NEW g \in [D -> Found], NEW d \in D,
             \A e \in D : m[e] < m[d] => f[e] = g[e]
      PROVE  F[f][d] = F[g][d]
  <2>1. ASSUME NEW e \in D, e[1] > d[1] PROVE f[e] = g[e]
    <3>1. m[e] = (N + 2) - e[1] /\ m[d] = (N + 2) - d[1]
      OBVIOUS
    <3>2. e[1] \in Int /\ d[1] \in Int
      BY <1>2
    <3> HIDE DEF m, N, D
    <3>3. m[e] < m[d]
      BY <1>1, <2>1, <3>1, <3>2
    <3> QED BY <1>5, <3>3
  <2>2. Scan(buffer, f, d[1], d[2]) = Scan(buffer, g, d[1], d[2])
    BY <2>1, ScanLooksAhead
  <2> HIDE DEF D, N
  <2> QED BY <2>2
<1>6. Found # {}
  <2>1. 0 \in Nat /\ <<>> \in Seq(Seq(Int))
    BY EmptySeq
  <2>2. [argc |-> 0, args |-> <<>>] \in Found
    BY <2>1 DEF Found
  <2> QED BY <2>2
<1>7. Recursion(F, D, Found, m, N + 1)
  <2> HIDE DEF D, F, m, N
  <2> QED BY <1>3, <1>4, <1>5, <1>6 DEF Recursion
<1>8. PICK f \in [D -> Found] : F[f] = f
  <2> HIDE DEF D, F, m, N
  <2> QED BY <1>7, FixedPoint
<1>9. f = [at \in D |-> Scan(buffer, f, at[1], at[2])]
  <2> HIDE DEF D, N
  <2> QED BY <1>8
<1> QED BY <1>9

LEMMA ScannedTurns ==
    ASSUME NEW buffer \in Seq(Int), NEW at \in Places(buffer)
    PROVE  Scanned(buffer)[at] = Scan(buffer, Scanned(buffer), at[1], at[2])
<1>1. Scanned(buffer) = [a \in Places(buffer) |-> Scan(buffer, Scanned(buffer), a[1], a[2])]
  BY ScannedExists, Zenon DEF Scanned, Places
<1> QED BY <1>1

-----------------------------------------------------------------------------
(* The words that begin from the cursor on, and which of them begins at i. *)
From(buffer, cursor) == {i \in Starts(buffer) : i \geq cursor}
Rank(S, i) == Cardinality({k \in S : k \leq i})

(* The cursor is never inside a word when a turn begins.                   *)
Boundary(buffer, cursor) ==
    cursor = 1 \/ cursor > Len(buffer) \/ is_space(buffer[cursor - 1])

LEMMA FromFinite ==
    ASSUME NEW buffer \in Seq(Int), NEW cursor \in Nat
    PROVE  /\ IsFiniteSet(From(buffer, cursor)) /\ Cardinality(From(buffer, cursor)) \in Nat
           /\ \A i \in From(buffer, cursor) : i \in 1 .. Len(buffer) /\ i \geq cursor
<1>1. Len(buffer) \in Nat
  BY Characters
<1>2. IsFiniteSet(1 .. Len(buffer))
  BY <1>1, FS_Interval
<1>3. From(buffer, cursor) \subseteq 1 .. Len(buffer)
  BY DEF From, Starts
<1>4. IsFiniteSet(From(buffer, cursor))
  BY <1>2, <1>3, FS_Subset
<1> QED BY <1>3, <1>4, FS_CardinalityType DEF From

LEMMA NothingLeft ==
    ASSUME NEW buffer \in Seq(Int), NEW cursor \in Nat, cursor > Len(buffer)
    PROVE  From(buffer, cursor) = {} /\ Cardinality(From(buffer, cursor)) = 0
<1>1. Len(buffer) \in Nat
  BY Characters
<1>2. From(buffer, cursor) = {}
  BY <1>1 DEF From, Starts
<1> QED BY <1>2, FS_EmptySet

LEMMA AfterSpace ==
    ASSUME NEW buffer \in Seq(Int), NEW cursor \in 1 .. Len(buffer), is_space(buffer[cursor])
    PROVE  /\ From(buffer, cursor) = From(buffer, cursor + 1)
           /\ Boundary(buffer, cursor + 1)
<1>1. Len(buffer) \in Nat /\ cursor \in Nat /\ (cursor + 1) - 1 = cursor
  BY Characters
<1>2. cursor \notin Starts(buffer)
  BY DEF Starts
<1>3. \A i \in Starts(buffer) : i \in Nat
  BY <1>1 DEF Starts
<1>4. \A i \in Starts(buffer) : i \geq cursor <=> i \geq cursor + 1
  BY <1>1, <1>2, <1>3
<1> QED BY <1>1, <1>4 DEF From, Boundary

LEMMA AfterWord ==
    ASSUME NEW buffer \in Seq(Int), NEW cursor \in 1 .. Len(buffer),
           ~is_space(buffer[cursor]), Boundary(buffer, cursor)
    PROVE  LET end == WordEnd(buffer, cursor)
               S == From(buffer, end + 1)
           IN  /\ end \in Nat /\ cursor < end
               /\ From(buffer, cursor) = S \cup {cursor}
               /\ \A i \in S : i \in Nat /\ i > cursor
               /\ IsFiniteSet(S) /\ Cardinality(S) \in Nat
               /\ Cardinality(From(buffer, cursor)) = Cardinality(S) + 1
               /\ Boundary(buffer, end + 1)
<1> DEFINE N == Len(buffer)
           end == WordEnd(buffer, cursor)
           S == From(buffer, end + 1)
<1>1. N \in Nat /\ cursor \in Nat /\ cursor \in 1 .. N
  BY Characters
<1>2. /\ end \in cursor + 1 .. N + 1
      /\ end \leq N => is_space(buffer[end])
      /\ \A i \in cursor .. end - 1 : ~is_space(buffer[i])
  BY WordEnds, WordIsText
<1> HIDE DEF end
<1>3. end \in Nat /\ cursor < end /\ (end + 1) - 1 = end /\ end + 1 \in Nat
  BY <1>1, <1>2
<1>4. cursor \in Starts(buffer)
  BY <1>1 DEF Starts, Boundary
<1>5. ASSUME NEW i \in Starts(buffer), i \geq cursor, i # cursor PROVE i \geq end + 1
  <2>1. i \in 1 .. N /\ ~is_space(buffer[i]) /\ (i = 1 \/ is_space(buffer[i - 1]))
    BY DEF Starts
  <2>2. i \in Nat /\ i # 1 /\ i \geq cursor + 1
    BY <1>1, <1>5, <2>1
  <2>3. i # end
    BY <1>2, <2>1
  <2>4. ASSUME i < end PROVE FALSE
    <3>1. i - 1 \in cursor .. end - 1
      BY <1>1, <1>3, <2>2, <2>4
    <3> QED BY <1>2, <2>1, <2>2, <3>1
  <2> QED BY <1>3, <2>2, <2>3, <2>4
<1>6. \A i \in Starts(buffer) : i \in Nat
  BY <1>1 DEF Starts
<1>7. From(buffer, cursor) = S \cup {cursor}
  <2> DEFINE A == From(buffer, cursor)
  <2>1. ASSUME NEW i \in A, i # cursor PROVE i \in S
    <3>1. i \in Starts(buffer) /\ i \geq cursor
      BY DEF From
    <3>2. i \geq end + 1
      BY <1>5, <2>1, <3>1
    <3> QED BY <3>1, <3>2 DEF From
  <2>2. ASSUME NEW i \in S PROVE i \in A
    <3>1. i \in Starts(buffer) /\ i \geq end + 1
      BY DEF From
    <3>2. i \geq cursor
      BY <1>1, <1>3, <1>6, <3>1
    <3> QED BY <3>1, <3>2 DEF From
  <2>3. cursor \in A
    BY <1>1, <1>4 DEF From
  <2> HIDE DEF A, S
  <2>4. A = S \cup {cursor}
    BY <2>1, <2>2, <2>3
  <2> QED BY <2>4 DEF A
<1>8. \A i \in S : i \in Nat /\ i > cursor
  BY <1>1, <1>3, <1>6 DEF From
<1>9. IsFiniteSet(S) /\ Cardinality(S) \in Nat
  BY <1>3, FromFinite
<1>10. cursor \notin S
  BY <1>1, <1>8
<1>11. Cardinality(From(buffer, cursor)) = Cardinality(S) + 1
  <2> HIDE DEF S
  <2>1. Cardinality(S \cup {cursor}) = Cardinality(S) + 1
    BY <1>9, <1>10, FS_AddElement
  <2> QED BY <1>7, <2>1
<1>12. Boundary(buffer, end + 1)
  <2>1. CASE end \leq N
    BY <1>2, <1>3, <2>1 DEF Boundary
  <2>2. CASE ~(end \leq N)
    BY <1>1, <1>3, <2>2 DEF Boundary
  <2> QED BY <2>1, <2>2
<1> QED BY <1>3, <1>7, <1>8, <1>9, <1>11, <1>12 DEF end

(* One more in front: it comes first, and all others one later.            *)
LEMMA Ranks ==
    ASSUME NEW S, NEW c \in Nat, IsFiniteSet(S), \A i \in S : i \in Nat /\ i > c
    PROVE  /\ Rank(S \cup {c}, c) = 1
           /\ \A i \in S : /\ Rank(S, i) \in 1 .. Cardinality(S)
                           /\ Rank(S \cup {c}, i) = Rank(S, i) + 1
<1>1. Rank(S \cup {c}, c) = 1
  <2>1. {k \in S \cup {c} : k \leq c} = {c}
    OBVIOUS
  <2> QED BY <2>1, FS_Singleton DEF Rank
<1>2. ASSUME NEW i \in S
      PROVE  /\ Rank(S, i) \in 1 .. Cardinality(S)
             /\ Rank(S \cup {c}, i) = Rank(S, i) + 1
  <2> DEFINE U == {k \in S : k \leq i}
  <2>1. U \subseteq S /\ i \in U /\ c \notin U
    OBVIOUS
  <2>2. {k \in S \cup {c} : k \leq i} = U \cup {c}
    OBVIOUS
  <2>3. Rank(S, i) = Cardinality(U) /\ Rank(S \cup {c}, i) = Cardinality(U \cup {c})
    BY <2>2 DEF Rank
  <2> HIDE DEF U
  <2>4. IsFiniteSet(U) /\ Cardinality(U) \leq Cardinality(S)
    BY <2>1, FS_Subset
  <2>5. Cardinality(U \cup {c}) = Cardinality(U) + 1
    BY <2>1, <2>4, FS_AddElement
  <2>6. Cardinality(U) \in Nat /\ Cardinality(S) \in Nat
    BY <2>4, FS_CardinalityType
  <2>7. Cardinality(U) # 0
    BY <2>1, <2>4, FS_EmptySet
  <2> QED BY <2>3, <2>4, <2>5, <2>6, <2>7
<1> QED BY <1>1, <1>2

-----------------------------------------------------------------------------
(* What tokenize should find from the cursor on, after count words.        *)
Right(buffer, found, cursor, count) ==
    LET S == From(buffer, cursor)
        n == Cardinality(S) IN
    IF count + n > REPLUG_MAX_ARGS THEN found.argc = REPLUG_MAX_ARGS + 1
    ELSE /\ found.argc = count + n /\ Len(found.args) = n
         /\ \A i \in S : IsWordAt(buffer, found.args[Rank(S, i)], i)

NoneEmpty(words) == words \in Seq(Seq(Int)) /\ \A k \in 1 .. Len(words) : words[k] # <<>>

LEMMA ScannedWord ==
    ASSUME NEW buffer \in Seq(Int), NEW cursor \in 1 .. Len(buffer), ~is_space(buffer[cursor])
    PROVE  LET word == SubSeq(buffer, cursor, WordEnd(buffer, cursor) - 1) IN
           word \in Seq(Int) /\ word # <<>> /\ IsWordAt(buffer, word, cursor)
<1> DEFINE N == Len(buffer)
           end == WordEnd(buffer, cursor)
           word == SubSeq(buffer, cursor, end - 1)
<1>1. N \in Nat /\ cursor \in Nat
  BY Characters
<1>2. /\ end \in cursor + 1 .. N + 1
      /\ end \leq N => is_space(buffer[end])
      /\ \A i \in cursor .. end - 1 : ~is_space(buffer[i])
  BY WordEnds, WordIsText
<1>3. /\ word \in Seq(Int) /\ Len(word) = end - cursor
      /\ \A k \in 1 .. Len(word) : word[k] = buffer[cursor + k - 1]
  BY WordIsText
<1>4. word = SubSeq(buffer, cursor, end - 1)
  OBVIOUS
<1> HIDE DEF end, word, N
<1>5. cursor + Len(word) = end /\ Len(word) # 0
  <2>1. end \in cursor + 1 .. N + 1 /\ Len(word) = end - cursor
    BY <1>2, <1>3
  <2> QED BY <1>1, <2>1
<1>6. word # <<>>
  BY <1>5, EmptySeq
<1>7. ASSUME NEW k \in 1 .. Len(word) PROVE ~is_space(word[k])
  <2>1. cursor + k - 1 \in cursor .. end - 1
    BY <1>1, <1>2, <1>3
  <2> QED BY <1>2, <1>3, <2>1
<1>8. end \leq N + 1
  BY <1>1, <1>2
<1>9. IsWordAt(buffer, word, cursor)
  BY <1>2, <1>4, <1>5, <1>6, <1>7, <1>8 DEF IsWordAt, N
<1> QED BY <1>3, <1>6, <1>9 DEF word, end

(* One word in front of those that were found behind it.                   *)
LEMMA WordInFront ==
    ASSUME NEW word \in Seq(Int), word # <<>>, NEW words \in Seq(Seq(Int)), NoneEmpty(words)
    PROVE  /\ NoneEmpty(<<word>> \o words)
           /\ Len(<<word>> \o words) = Len(words) + 1
           /\ (<<word>> \o words)[1] = word
           /\ \A k \in 1 .. Len(words) : (<<word>> \o words)[k + 1] = words[k]
<1> DEFINE all == <<word>> \o words
<1>1. Len(words) \in Nat /\ <<word>> \in Seq(Seq(Int)) /\ Len(<<word>>) = 1 /\ <<word>>[1] = word
  OBVIOUS
<1>2. /\ all \in Seq(Seq(Int)) /\ Len(all) = 1 + Len(words)
      /\ \A i \in 1 .. 1 + Len(words) : all[i] = IF i \leq 1 THEN <<word>>[i] ELSE words[i - 1]
  BY <1>1, ConcatProperties
<1> HIDE DEF all
<1>3. all[1] = word
  BY <1>1, <1>2
<1>4. ASSUME NEW k \in 1 .. Len(words) PROVE all[k + 1] = words[k]
  <2>1. k + 1 \in 1 .. 1 + Len(words) /\ ~(k + 1 \leq 1) /\ (k + 1) - 1 = k
    BY <1>1
  <2> QED BY <1>2, <2>1
<1>5. ASSUME NEW i \in 1 .. Len(all) PROVE all[i] # <<>>
  <2>1. CASE i = 1
    BY <1>3, <2>1
  <2>2. CASE i # 1
    <3>1. i - 1 \in 1 .. Len(words) /\ (i - 1) + 1 = i
      BY <1>1, <1>2, <2>2
    <3>2. all[i] = words[i - 1]
      BY <1>4, <3>1
    <3> QED BY <3>1, <3>2 DEF NoneEmpty
  <2> QED BY <2>1, <2>2
<1>6. NoneEmpty(all) /\ Len(all) = Len(words) + 1
  BY <1>1, <1>2, <1>5 DEF NoneEmpty
<1> QED BY <1>3, <1>4, <1>6 DEF all

(* What a turn of the loop needs of the turns that follow, and ensures.    *)
Good(buffer, found, cursor, count) ==
    /\ found \in Found /\ NoneEmpty(found.args)
    /\ Boundary(buffer, cursor) => Right(buffer, found, cursor, count)

LEMMA GoodEnd ==
    ASSUME NEW buffer \in Seq(Int), NEW cursor \in Nat, NEW count \in Nat,
           count \leq REPLUG_MAX_ARGS, cursor > Len(buffer)
    PROVE  Good(buffer, [argc |-> count, args |-> <<>>], cursor, count)
<1> DEFINE found == [argc |-> count, args |-> <<>>]
<1>1. found.argc = count /\ found.args = <<>> /\ Len(<<>>) = 0 /\ <<>> \in Seq(Seq(Int))
  BY EmptySeq
<1>2. found \in Found /\ NoneEmpty(<<>>)
  BY <1>1 DEF Found, NoneEmpty
<1>3. From(buffer, cursor) = {} /\ Cardinality(From(buffer, cursor)) = 0
  BY NothingLeft
<1>4. ~(count + 0 > REPLUG_MAX_ARGS) /\ count + 0 = count
  BY WordsAssumption
<1> HIDE DEF found
<1>5. Right(buffer, found, cursor, count)
  BY <1>1, <1>3, <1>4 DEF Right
<1> QED BY <1>1, <1>2, <1>5 DEF Good, found

LEMMA GoodSpace ==
    ASSUME NEW buffer \in Seq(Int), NEW cursor \in 1 .. Len(buffer), is_space(buffer[cursor]),
           NEW count, NEW found, Good(buffer, found, cursor + 1, count)
    PROVE  Good(buffer, found, cursor, count)
BY AfterSpace DEF Good, Right

LEMMA GoodFull ==
    ASSUME NEW buffer \in Seq(Int), NEW cursor \in 1 .. Len(buffer), ~is_space(buffer[cursor])
    PROVE  Good(buffer, [argc |-> REPLUG_MAX_ARGS + 1, args |-> <<>>], cursor, REPLUG_MAX_ARGS)
<1> DEFINE found == [argc |-> REPLUG_MAX_ARGS + 1, args |-> <<>>]
<1>1. /\ found.argc = REPLUG_MAX_ARGS + 1 /\ found.args = <<>>
      /\ Len(<<>>) = 0 /\ <<>> \in Seq(Seq(Int)) /\ REPLUG_MAX_ARGS + 1 \in Nat
  BY EmptySeq, WordsAssumption
<1>2. found \in Found /\ NoneEmpty(<<>>)
  BY <1>1 DEF Found, NoneEmpty
<1>3. ASSUME Boundary(buffer, cursor)
      PROVE  REPLUG_MAX_ARGS + Cardinality(From(buffer, cursor)) > REPLUG_MAX_ARGS
  <2>1. PICK n \in Nat : Cardinality(From(buffer, cursor)) = n + 1
    BY <1>3, AfterWord
  <2> QED BY <2>1, WordsAssumption
<1> HIDE DEF found
<1>4. Boundary(buffer, cursor) => Right(buffer, found, cursor, REPLUG_MAX_ARGS)
  BY <1>1, <1>3 DEF Right
<1> QED BY <1>1, <1>2, <1>4 DEF Good, found

LEMMA GoodWord ==
    ASSUME NEW buffer \in Seq(Int), NEW cursor \in 1 .. Len(buffer), ~is_space(buffer[cursor]),
           NEW count \in Nat, NEW rest,
           Good(buffer, rest, WordEnd(buffer, cursor) + 1, count + 1)
    PROVE  Good(buffer,
                [rest EXCEPT !.args =
                     <<SubSeq(buffer, cursor, WordEnd(buffer, cursor) - 1)>> \o @],
                cursor, count)
<1> DEFINE end == WordEnd(buffer, cursor)
           word == SubSeq(buffer, cursor, end - 1)
           found == [rest EXCEPT !.args = <<word>> \o @]
           S == From(buffer, end + 1)
<1>1. word \in Seq(Int) /\ word # <<>> /\ IsWordAt(buffer, word, cursor)
  BY ScannedWord
<1>2. rest \in Found /\ rest.args \in Seq(Seq(Int)) /\ NoneEmpty(rest.args)
  BY DEF Good, Found
<1> HIDE DEF word
<1>3. /\ NoneEmpty(<<word>> \o rest.args)
      /\ Len(<<word>> \o rest.args) = Len(rest.args) + 1
      /\ (<<word>> \o rest.args)[1] = word
      /\ \A k \in 1 .. Len(rest.args) : (<<word>> \o rest.args)[k + 1] = rest.args[k]
  BY <1>1, <1>2, WordInFront
<1>4. found.argc = rest.argc /\ found.args = <<word>> \o rest.args
  BY <1>2 DEF Found
<1>5. found \in Found
  BY <1>2, <1>3 DEF Found, NoneEmpty
<1> HIDE DEF found
<1>6. ASSUME Boundary(buffer, cursor) PROVE Right(buffer, found, cursor, count)
  <2>1. /\ cursor \in Nat
        /\ From(buffer, cursor) = S \cup {cursor}
        /\ \A i \in S : i \in Nat /\ i > cursor
        /\ IsFiniteSet(S) /\ Cardinality(S) \in Nat
        /\ Cardinality(From(buffer, cursor)) = Cardinality(S) + 1
        /\ Boundary(buffer, end + 1)
    BY <1>6, AfterWord
  <2>2. Right(buffer, rest, end + 1, count + 1)
    BY <2>1 DEF Good
  <2> HIDE DEF end, S
  <2>3. (count + 1) + Cardinality(S) = count + (Cardinality(S) + 1)
    BY <2>1
  <2>4. CASE (count + 1) + Cardinality(S) > REPLUG_MAX_ARGS
    BY <1>4, <2>1, <2>2, <2>3, <2>4 DEF Right, S
  <2>5. CASE ~((count + 1) + Cardinality(S) > REPLUG_MAX_ARGS)
    <3>1. /\ rest.argc = (count + 1) + Cardinality(S) /\ Len(rest.args) = Cardinality(S)
          /\ \A i \in S : IsWordAt(buffer, rest.args[Rank(S, i)], i)
      BY <2>2, <2>5 DEF Right, S
    <3>2. /\ Rank(S \cup {cursor}, cursor) = 1
          /\ \A i \in S : /\ Rank(S, i) \in 1 .. Cardinality(S)
                          /\ Rank(S \cup {cursor}, i) = Rank(S, i) + 1
      BY <2>1, Ranks
    <3>3. ASSUME NEW i \in S
          PROVE  IsWordAt(buffer, found.args[Rank(S \cup {cursor}, i)], i)
      <4>1. Rank(S, i) \in 1 .. Len(rest.args)
        BY <3>1, <3>2
      <4>2. found.args[Rank(S, i) + 1] = rest.args[Rank(S, i)]
        BY <1>3, <1>4, <4>1
      <4> QED BY <3>1, <3>2, <4>2
    <3>4. IsWordAt(buffer, found.args[Rank(S \cup {cursor}, cursor)], cursor)
      BY <1>1, <1>3, <1>4, <3>2
    <3>5. \A i \in S \cup {cursor} :
              IsWordAt(buffer, found.args[Rank(S \cup {cursor}, i)], i)
      BY <3>3, <3>4
    <3>6. /\ found.argc = count + (Cardinality(S) + 1)
          /\ Len(found.args) = Cardinality(S) + 1
      BY <1>3, <1>4, <2>3, <3>1
    <3> QED BY <2>1, <2>3, <2>5, <3>5, <3>6 DEF Right
  <2> QED BY <2>4, <2>5
<1>7. NoneEmpty(found.args)
  BY <1>3, <1>4
<1> QED BY <1>5, <1>6, <1>7 DEF Good, found, word, end

(* One turn, from the cursor on.                                           *)
LEMMA GoodTurn ==
    ASSUME NEW buffer \in Seq(Int), NEW scanned, NEW at \in Places(buffer),
           \A e \in Places(buffer) :
               e[1] > at[1] => Good(buffer, scanned[e], e[1], e[2])
    PROVE  Good(buffer, Scan(buffer, scanned, at[1], at[2]), at[1], at[2])
<1> DEFINE cursor == at[1]
           count == at[2]
           end == WordEnd(buffer, cursor)
           next == <<cursor + 1, count>>
           behind == <<end + 1, count + 1>>
<1>1. cursor \in Nat /\ count \in Nat /\ count \leq REPLUG_MAX_ARGS /\ Len(buffer) \in Nat
  BY NextPlaces, Characters
<1>2. CASE cursor > Len(buffer)
  <2>1. Good(buffer, [argc |-> count, args |-> <<>>], cursor, count)
    BY <1>1, <1>2, GoodEnd
  <2> QED BY <1>2, <2>1 DEF Scan
<1>3. CASE ~(cursor > Len(buffer))
  <2>1. cursor \leq Len(buffer)
    BY <1>1, <1>3
  <2>2. cursor \in 1 .. Len(buffer) /\ next \in Places(buffer)
    BY <2>1, NextPlaces
  <2>3. CASE is_space(buffer[cursor])
    <3>1. next[1] > cursor
      BY <1>1
    <3>2. Good(buffer, scanned[next], next[1], next[2])
      BY <2>2, <3>1
    <3>3. Good(buffer, scanned[next], cursor + 1, count)
      BY <3>2
    <3> HIDE DEF next
    <3>4. Good(buffer, scanned[next], cursor, count)
      BY <2>2, <2>3, <3>3, GoodSpace
    <3> QED BY <1>3, <2>3, <3>4 DEF Scan, next
  <2>4. CASE ~is_space(buffer[cursor]) /\ count = REPLUG_MAX_ARGS
    <3>1. Good(buffer, [argc |-> REPLUG_MAX_ARGS + 1, args |-> <<>>], cursor, REPLUG_MAX_ARGS)
      BY <2>2, <2>4, GoodFull
    <3> QED BY <1>3, <2>4, <3>1 DEF Scan
  <2>5. CASE ~is_space(buffer[cursor]) /\ count # REPLUG_MAX_ARGS
    <3>1. end \in cursor + 1 .. Len(buffer) + 1 /\ behind \in Places(buffer)
      BY <2>1, <2>5, NextPlaces
    <3> HIDE DEF end
    <3>2. behind[1] > cursor
      BY <1>1, <3>1
    <3>3. Good(buffer, scanned[behind], behind[1], behind[2])
      BY <3>1, <3>2
    <3>4. Good(buffer, scanned[behind], end + 1, count + 1)
      BY <3>3
    <3> HIDE DEF behind
    <3>5. Good(buffer, [scanned[behind] EXCEPT !.args =
                            <<SubSeq(buffer, cursor, end - 1)>> \o @], cursor, count)
      BY <1>1, <2>2, <2>5, <3>4, GoodWord DEF end
    <3> QED BY <1>3, <2>5, <3>5 DEF Scan, behind, end
  <2> QED BY <2>3, <2>4, <2>5
<1> QED BY <1>2, <1>3

LEMMA ScannedGood ==
    ASSUME NEW buffer \in Seq(Int), NEW at \in Places(buffer)
    PROVE  Good(buffer, Scanned(buffer)[at], at[1], at[2])
<1> DEFINE N == Len(buffer)
           Left(e) == (N + 2) - e[1]
           T == {m \in Nat : \A e \in Places(buffer) :
                     Left(e) < m => Good(buffer, Scanned(buffer)[e], e[1], e[2])}
<1>1. N \in Nat /\ \A e \in Places(buffer) : e[1] \in Nat /\ e[1] \leq N + 2
  BY Characters DEF Places
<1>2. 0 \in T
  BY <1>1
<1>3. ASSUME NEW m \in Nat, m \in T PROVE m + 1 \in T
  <2>1. ASSUME NEW e \in Places(buffer), Left(e) < m + 1
        PROVE  Good(buffer, Scanned(buffer)[e], e[1], e[2])
    <3>1. ASSUME NEW d \in Places(buffer), d[1] > e[1]
          PROVE  Good(buffer, Scanned(buffer)[d], d[1], d[2])
      <4>1. Left(d) < m
        BY <1>1, <2>1, <3>1
      <4> QED BY <1>3, <4>1
    <3>2. Good(buffer, Scan(buffer, Scanned(buffer), e[1], e[2]), e[1], e[2])
      BY <3>1, GoodTurn
    <3> QED BY <3>2, ScannedTurns
  <2> QED BY <2>1
<1>4. Nat \subseteq T
  <2> HIDE DEF T
  <2> QED BY <1>2, <1>3, Induction
<1>5. (N + 3) \in T /\ Left(at) < N + 3
  BY <1>1, <1>4
<1> QED BY <1>5

LEMMA Tokenized ==
    ASSUME NEW buffer \in Seq(Int)
    PROVE  /\ NoneEmpty(tokenize(buffer).args)
           /\ Right(buffer, tokenize(buffer), 1, 0)
           /\ From(buffer, 1) = Starts(buffer) /\ Cardinality(Starts(buffer)) \in Nat
<1> DEFINE at == <<1, 0>>
<1>1. at \in Places(buffer) /\ at[1] = 1 /\ at[2] = 0
  BY Characters, WordsAssumption DEF Places
<1>2. Good(buffer, Scanned(buffer)[at], at[1], at[2])
  BY <1>1, ScannedGood
<1>3. Good(buffer, tokenize(buffer), 1, 0)
  BY <1>1, <1>2 DEF tokenize
<1>4. From(buffer, 1) = Starts(buffer)
  BY Characters DEF From, Starts
<1> QED BY <1>3, <1>4, FromFinite DEF Good, Boundary

LEMMA BufferIsText == IInv => line_buffer \in Seq(Int)
<1>1. 0 .. 255 \subseteq Int
  OBVIOUS
<1>2. Seq(0 .. 255) \subseteq Seq(Int)
  BY <1>1, SeqMonotonic
<1> QED BY <1>2 DEF IInv, TypeOK

LEMMA WordsOfText == ASSUME line_buffer \in Seq(Int) PROVE WordsRight
<1> DEFINE S == Starts(line_buffer)
           words == tokenize(line_buffer)
<1>1. Right(line_buffer, words, 1, 0) /\ From(line_buffer, 1) = S /\ Cardinality(S) \in Nat
  BY Tokenized
<1>2. 0 + Cardinality(S) = Cardinality(S)
  BY <1>1
<1> HIDE DEF words, S
<1>3. IF Cardinality(S) > REPLUG_MAX_ARGS THEN words.argc = REPLUG_MAX_ARGS + 1
      ELSE /\ words.argc = Cardinality(S) /\ Len(words.args) = Cardinality(S)
           /\ \A i \in S : IsWordAt(line_buffer,
                                    words.args[Cardinality({k \in S : k \leq i})], i)
  BY <1>1, <1>2 DEF Right, Rank
<1> QED BY <1>3 DEF WordsRight, words, S

LEMMA NumbersOfText == ASSUME line_buffer \in Seq(Int) PROVE NumbersRight
<1> DEFINE found == tokenize(line_buffer).args
<1>1. NoneEmpty(found)
  BY Tokenized
<1> HIDE DEF found
<1>2. ASSUME NEW k \in 1 .. Len(found)
      PROVE  parse_u16(found[k]) =
                 IF AllDigits(found[k]) /\ Decimal(found[k]) \leq UINT16_MAX
                 THEN Decimal(found[k]) ELSE NotANumber
  <2>1. found \in Seq(Seq(Int)) /\ found[k] # <<>>
    BY <1>1, Zenon DEF NoneEmpty
  <2>2. found[k] \in Seq(Int)
    BY <2>1, ElementOfSeq
  <2> QED BY <2>1, <2>2, NumberRead
<1> QED BY <1>2 DEF NumbersRight, found

(* The lines that are ready, in every state of the invariant.              *)
LEMMA LinesAreRead == IInv => WordsRight /\ NumbersRight
BY BufferIsText, WordsOfText, NumbersOfText

(* tokenize finds the words of every line that can be in the buffer, each  *)
(* whole and in its place, and refuses a line exactly when it has more     *)
(* than there is room for: the line's length, the separators in it and     *)
(* REPLUG_MAX_ARGS do not matter.                                          *)
THEOREM WordsAreRight == Spec => []WordsRight
BY LinesAreRead, Invariance, PTL

(* No word of any line is taken for another number than it is, and none    *)
(* that is a number and fits is refused.                                   *)
THEOREM NumbersAreRight == Spec => []NumbersRight
BY LinesAreRead, Invariance, PTL
=============================================================================
