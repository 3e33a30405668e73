------------------------------ MODULE HostProofs ------------------------------
(***************************************************************************)
(* Proofs about the host tools: a number they write is the number the       *)
(* dongle reads, the command lines they write are understood as they are    *)
(* meant, the serial number selects one dongle, and what a session reports  *)
(* is what it should, for any number of sessions of both tools, any         *)
(* commands and delays, and whatever the time limits.                       *)
(***************************************************************************)
EXTENDS HostSession, HostCommands, SerialNumber, NumbersProofs, SequenceTheorems

-----------------------------------------------------------------------------
(* HostCommands.                                                           *)

LEMMA QuotientsChain ==
    ASSUME NEW n \in Nat
    PROVE  LET Q == Quotients(n) IN
           /\ Q[0] = n
           /\ \A k \in 1 .. n + 1 : Q[k] = Q[k - 1] \div 10
           /\ \A k \in 0 .. n + 1 : Q[k] \in Nat
<1> DEFINE N == n + 1
           Q == Quotients(n)
           s == [x \in (1 .. N) \X Nat |-> x[2] \div 10]
<1>1. N \in Nat
  OBVIOUS
<1>2. Along(N, Nat, n, s)
  <2>1. \A x \in (1 .. N) \X Nat : x[2] \div 10 \in Nat
    OBVIOUS
  <2> HIDE DEF N
  <2> QED BY <1>1, <2>1 DEF Along
<1>3. PICK f : IsChain(f, N, Nat, n, s)
  <2> HIDE DEF s, N
  <2> QED BY <1>2, ChainExists
<1>4. \A k \in 0 .. N : k # 0 => k \in 1 .. N /\ k - 1 \in 0 .. N
  BY <1>1
<1>5. \A k \in 0 .. N : f[k] = IF k = 0 THEN n ELSE f[k - 1] \div 10
  <2> HIDE DEF N
  <2> QED BY <1>3, <1>4 DEF IsChain
<1>6. f = [k \in 0 .. N |-> IF k = 0 THEN n ELSE f[k - 1] \div 10]
  <2> HIDE DEF N, s
  <2> QED BY <1>3, <1>5 DEF IsChain
<1>7. Q = [k \in 0 .. N |-> IF k = 0 THEN n ELSE Q[k - 1] \div 10]
  BY <1>6, Zenon DEF Quotients
<1> HIDE DEF Q
<1>8. Q[0] = n /\ \A k \in 1 .. N : Q[k] = Q[k - 1] \div 10
  <2>1. \A k \in 1 .. N : k \in 0 .. N /\ k # 0
    BY <1>1
  <2>2. 0 \in 0 .. N
    BY <1>1
  <2> HIDE DEF N, s
  <2> QED BY <1>7, <2>1, <2>2
<1>9. \A k \in 0 .. N : Q[k] \in Nat
  <2>1. \A k \in 1 .. N : Q[k - 1] \in Nat => Q[k] \in Nat
    BY <1>8
  <2> HIDE DEF N, s
  <2> QED BY <1>1, <1>8, <2>1, ChainHolds
<1> QED BY <1>8, <1>9 DEF Q

(* Every division takes something off, so the quotients come to zero.      *)
LEMMA QuotientsEnd ==
    ASSUME NEW n \in Nat
    PROVE  Size(n) \in 1 .. n + 1 /\ Quotients(n)[Size(n)] = 0
<1> DEFINE N == n + 1
           Q == Quotients(n)
           S == {k \in Nat : k \leq N => Q[k] = 0 \/ Q[k] + k \leq n}
<1>1. /\ Q[0] = n
      /\ \A k \in 1 .. N : Q[k] = Q[k - 1] \div 10
      /\ \A k \in 0 .. N : Q[k] \in Nat
  BY QuotientsChain
<1> HIDE DEF Q
<1>2. 0 \in S
  BY <1>1
<1>3. ASSUME NEW k \in Nat, k \in S PROVE k + 1 \in S
  <2>1. CASE k + 1 \leq N
    <3> DEFINE q == Q[k]
    <3>1. /\ k + 1 \in 1 .. N /\ (k + 1) - 1 = k /\ k \leq N /\ k \in 0 .. N
      BY <2>1
    <3>2. q \in Nat /\ Q[k + 1] = q \div 10 /\ (q = 0 \/ q + k \leq n)
      BY <1>1, <1>3, <3>1
    <3> HIDE DEF q
    <3>3. q \div 10 \in Nat /\ (q # 0 => q \div 10 < q) /\ (q = 0 => q \div 10 = 0)
      BY <3>2
    <3>4. Q[k + 1] = 0 \/ Q[k + 1] + (k + 1) \leq n
      BY <3>2, <3>3
    <3> QED BY <3>4
  <2>2. CASE ~(k + 1 \leq N)
    BY <2>2
  <2> QED BY <2>1, <2>2
<1>4. Nat \subseteq S
  <2> HIDE DEF S
  <2> QED BY <1>2, <1>3, Induction
<1> DEFINE T == {k \in 1 .. N : Q[k] = 0}
<1>5. T \in SUBSET Nat /\ T # {}
  <2>1. N \in S /\ N \in 1 .. N
    BY <1>4
  <2>2. Q[N] = 0 \/ Q[N] + N \leq n
    BY <2>1
  <2>3. Q[N] = 0
    BY <1>1, <2>1, <2>2
  <2> QED BY <2>1, <2>3
<1>6. PICK k \in T : \A j \in T : ~(j < k)
  <2> HIDE DEF T
  <2> QED BY <1>5, NatMin
<1>7. k \in 1 .. n + 1 /\ Q[k] = 0 /\ \A j \in 1 .. k - 1 : Q[j] # 0
  BY <1>6
<1>8. \E k_1 \in 1 .. n + 1 : Q[k_1] = 0 /\ \A j \in 1 .. k_1 - 1 : Q[j] # 0
  BY <1>7
<1> QED BY <1>8 DEF Size, Q

LEMMA DigitsOf ==
    ASSUME NEW n \in Nat
    PROVE  /\ Digits(n) \in Seq(Int) /\ Digits(n) # <<>> /\ Len(Digits(n)) = Size(n)
           /\ AllDigits(Digits(n))
           /\ \A k \in 1 .. Size(n) :
                  DigitValue(Digits(n)[Size(n) - k + 1]) = Quotients(n)[k - 1] % 10
<1> DEFINE s == Size(n)
           Q == Quotients(n)
           D == Digits(n)
<1>1. s \in Nat /\ s \in 1 .. n + 1
  BY QuotientsEnd
<1>2. \A k \in 0 .. n + 1 : Q[k] \in Nat
  BY QuotientsChain
<1>3. D = [i \in 1 .. s |-> 48 + (Q[s - i] % 10)]
  BY DEF Digits
<1> HIDE DEF s, Q, D
<1>4. ASSUME NEW i \in 1 .. s
      PROVE  /\ Q[s - i] % 10 \in Int
             /\ 48 \leq 48 + (Q[s - i] % 10) /\ 48 + (Q[s - i] % 10) \leq 57
  <2> DEFINE q == Q[s - i]
  <2>1. s - i \in 0 .. n + 1
    BY <1>1
  <2>2. q \in Nat
    BY <1>2, <2>1
  <2> HIDE DEF q
  <2>3. q % 10 \in Int /\ 48 \leq 48 + (q % 10) /\ 48 + (q % 10) \leq 57
    BY <2>2
  <2> QED BY <2>3 DEF q
<1>5. D \in Seq(Int) /\ Len(D) = s /\ D # <<>>
  <2>1. D \in [1 .. s -> Int]
    BY <1>3, <1>4
  <2>2. D \in Seq(Int) /\ Len(D) = s
    BY <1>1, <2>1
  <2> QED BY <1>1, <2>2
<1>6. \A i \in 1 .. s : D[i] = 48 + (Q[s - i] % 10)
  BY <1>3
<1>7. AllDigits(D)
  <2>1. ASSUME NEW i \in 1 .. s PROVE D[i] \in Int /\ 48 \leq D[i] /\ D[i] \leq 57
    BY <1>4, <1>6
  <2>2. \A i \in 1 .. s : IsDigit(D[i])
    BY <2>1 DEF IsDigit
  <2> QED BY <1>5, <2>2 DEF AllDigits
<1>8. ASSUME NEW k \in 1 .. s PROVE DigitValue(D[s - k + 1]) = Q[k - 1] % 10
  <2>1. s - k + 1 \in 1 .. s /\ s - (s - k + 1) = k - 1
    BY <1>1
  <2> QED BY <1>4, <1>6, <2>1 DEF DigitValue
<1> QED BY <1>5, <1>7, <1>8 DEF s, Q, D

(* The last k digits make what the first k divisions took off.             *)
LEMMA DigitsMake ==
    ASSUME NEW n \in Nat
    PROVE  Decimal(Digits(n)) = n
<1> DEFINE s == Size(n)
           Q == Quotients(n)
           D == Digits(n)
           W == Weights(s)
           V == Values(D)
           S == {k \in Nat : k \leq s => Q[k] * W[k] + V[k] = n}
<1>1. s \in Nat /\ s \leq n + 1 /\ Q[s] = 0 /\ D \in Seq(Int) /\ Len(D) = s
  BY QuotientsEnd, DigitsOf
<1>2. /\ Q[0] = n
      /\ \A k \in 1 .. n + 1 : Q[k] = Q[k - 1] \div 10
      /\ \A k \in 0 .. n + 1 : Q[k] \in Nat
  BY QuotientsChain
<1>3. /\ W[0] = 1
      /\ \A k \in 1 .. s : W[k] = 10 * W[k - 1]
      /\ \A k \in 0 .. s : W[k] \in Nat \ {0}
  BY <1>1, WeightsChain
<1>4. /\ V[0] = 0
      /\ \A k \in 1 .. s : V[k] = V[k - 1] + DigitValue(D[s - k + 1]) * W[k - 1]
      /\ \A k \in 0 .. s : V[k] \in Int
  BY <1>1, ValuesChain
<1>5. \A k \in 1 .. s : DigitValue(D[s - k + 1]) = Q[k - 1] % 10
  BY DigitsOf
<1>6. Decimal(D) = V[s]
  BY <1>1 DEF Decimal
<1> HIDE DEF s, Q, D, W, V
<1>7. 0 \in S
  BY <1>2, <1>3, <1>4
<1>8. ASSUME NEW k \in Nat, k \in S PROVE k + 1 \in S
  <2>1. CASE k + 1 \leq s
    <3> DEFINE q == Q[k]
               p == Q[k + 1]
               d == q % 10
               w == W[k]
               v == V[k]
    <3>1. /\ k + 1 \in 1 .. s /\ k + 1 \in 1 .. n + 1 /\ (k + 1) - 1 = k
          /\ k \in 0 .. s /\ k \in 0 .. n + 1 /\ k \leq s
      BY <1>1, <2>1
    <3>2. q \in Nat /\ p = q \div 10 /\ w \in Nat /\ W[k + 1] = 10 * w /\ v \in Int
      BY <1>2, <1>3, <1>4, <3>1
    <3>3. V[k + 1] = v + d * w
      BY <1>4, <1>5, <3>1
    <3>4. q * w + v = n
      BY <1>8, <3>1
    <3>5. q \in Nat /\ p = q \div 10 /\ d = q % 10
      BY <3>2
    <3> HIDE DEF q, p, d, w, v
    <3>6. p \in Int /\ d \in Int /\ 10 * p + d = q
      BY <3>5
    <3>7. p * (10 * w) + (v + d * w) = (10 * p + d) * w + v
      BY <3>2, <3>6, Carry
    <3>8. p * W[k + 1] + V[k + 1] = n
      BY <3>2, <3>3, <3>4, <3>6, <3>7
    <3> QED BY <3>8 DEF p
  <2>2. CASE ~(k + 1 \leq s)
    BY <2>2
  <2> QED BY <2>1, <2>2
<1>9. Nat \subseteq S
  <2> HIDE DEF S
  <2> QED BY <1>7, <1>8, Induction
<1>10. Q[s] * W[s] + V[s] = n
  BY <1>1, <1>9
<1>11. W[s] \in Nat /\ V[s] \in Int
  BY <1>1, <1>3, <1>4
<1>12. V[s] = n
  BY <1>1, <1>10, <1>11
<1> QED BY <1>6, <1>12 DEF D

(* parse_u16 reads a number that %d or str wrote as that number when it has *)
(* 16 bits, and refuses it when it is greater, and when it is negative.    *)
THEOREM PrintedRead ==
    ASSUME NEW n \in Int
    PROVE  parse_u16(printed(n)) =
               IF 0 \leq n /\ n \leq UINT16_MAX THEN n ELSE NotANumber
<1>1. CASE n < 0
  <2> DEFINE D == Digits(-n)
             p == printed(n)
  <2>1. D \in Seq(Int) /\ p = <<45>> \o D
    <3>1. -n \in Nat
      BY <1>1
    <3>2. D \in Seq(Int)
      BY <3>1, DigitsOf
    <3> QED BY <1>1, <3>2 DEF printed
  <2> HIDE DEF D
  <2>2. p \in Seq(Int) /\ Len(p) = 1 + Len(D) /\ Len(D) \in Nat /\ p[1] = 45
    BY <2>1
  <2> HIDE DEF p
  <2>3. ~AllDigits(p) /\ p # <<>>
    BY <2>2 DEF AllDigits, IsDigit
  <2>4. parse_u16(p) = NotANumber
    BY <2>2, <2>3, NumberRead
  <2> QED BY <1>1, <2>4 DEF p
<1>2. CASE n \in Nat
  <2> DEFINE p == printed(n)
  <2>1. p = Digits(n)
    BY <1>2 DEF printed
  <2>2. p \in Seq(Int) /\ p # <<>> /\ AllDigits(p) /\ Decimal(p) = n
    BY <1>2, <2>1, DigitsOf, DigitsMake
  <2> HIDE DEF p
  <2>3. parse_u16(p) = IF n \leq UINT16_MAX THEN n ELSE NotANumber
    BY <2>2, NumberRead
  <2> QED BY <1>2, <2>3 DEF p
<1> QED BY <1>1, <1>2

(* Lines as far as the proofs look at them.                                *)
Cut == [text : Names \cup {"delay"}, number : Int]
Cuts == [overflow : BOOLEAN, args : Seq(Cut)]

LEMMA WrittenLine ==
    ASSUME NEW words \in Seq(Cut)
    PROVE  /\ Written(words) \in Cuts /\ ~Written(words).overflow
           /\ Written(words).args = words
BY DEF Written, Cuts

LEMMA NameFound ==
    ASSUME NEW l \in Cuts, ~l.overflow, NEW n \in 1 .. 2, Len(l.args) = n
    PROVE  ~TooLong(l) /\ ~Blank(l) /\ Named(l, l.args[1].text)
<1>1. ~TooLong(l)
  BY DEF TooLong, Cuts, REPLUG_MAX_ARGS
<1>2. ~Blank(l)
  <2>1. l.args # <<>>
    BY DEF Cuts
  <2> QED BY <2>1 DEF Blank
<1> QED BY <1>1, <1>2 DEF Named

LEMMA SingleWord ==
    ASSUME NEW l \in Cuts, ~l.overflow, Len(l.args) = 1,
           l.args[1].text \in Names
    PROVE  Understood(l.args[1].text, l)
<1>1. ~TooLong(l) /\ ~Blank(l) /\ Named(l, l.args[1].text)
  BY NameFound
<1>2. PortArgOk(l)
  BY DEF PortArgOk
<1>3. cycle_ms(l) = REPLUG_DEFAULT_CYCLE_MS
  BY DEF cycle_ms
<1>4. CycleArgsOk(l)
  BY <1>3, CycleAssumption DEF CycleArgsOk
<1> QED
  BY <1>1, <1>2, <1>4 DEF Understood, IsOn, IsOff, IsCycle, IsStatus, IsFault, IsInfo, Names

LEMMA CycleWords ==
    ASSUME NEW l \in Cuts, ~l.overflow, Len(l.args) = 2,
           l.args[1].text = "cycle"
    PROVE  /\ cycle_ms(l) = l.args[2].number
           /\ IF l.args[2].number \in REPLUG_MIN_CYCLE_MS .. REPLUG_MAX_CYCLE_MS
              THEN IsCycle(l) ELSE IsBadArg(l)
<1>1. Named(l, "cycle")
  BY NameFound
<1>2. cycle_ms(l) = l.args[2].number
  BY DEF cycle_ms
<1> QED BY <1>1, <1>2 DEF CycleArgsOk, IsCycle, IsBadArg

LEMMA WrittenWord ==
    ASSUME NEW command \in Names
    PROVE  Understood(command, Written(<<Name(command)>>))
<1> DEFINE w == Name(command)
           l == Written(<<w>>)
<1>1. w \in Cut /\ w.text = command
  <2>1. w = [text |-> command, number |-> NotANumber]
    BY DEF Name
  <2> QED BY <2>1 DEF Cut, NotANumber
<1> HIDE DEF w
<1>2. /\ l \in Cuts /\ ~l.overflow
      /\ Len(l.args) = 1 /\ l.args[1] = w
  BY <1>1 DEF Cuts, Written
<1> HIDE DEF l
<1>3. Understood(l.args[1].text, l)
  BY <1>1, <1>2, SingleWord
<1>4. Understood(command, l)
  BY <1>1, <1>2, <1>3
<1> QED BY <1>4 DEF l, w

(* `cycle` with a delay is taken exactly when the delay is in the bounds.   *)
LEMMA WrittenCycle ==
    ASSUME NEW ms \in Int
    PROVE  IF ms \in REPLUG_MIN_CYCLE_MS .. REPLUG_MAX_CYCLE_MS
           THEN /\ IsCycle(Written(<<Name("cycle"), DelayWord(ms)>>))
                /\ cycle_ms(Written(<<Name("cycle"), DelayWord(ms)>>)) = ms
           ELSE IsBadArg(Written(<<Name("cycle"), DelayWord(ms)>>))
<1> DEFINE w == Name("cycle")
           n == parse_u16(printed(ms))
           d == DelayWord(ms)
           l == Written(<<w, d>>)
<1>1. /\ n \in Int
      /\ ms \in REPLUG_MIN_CYCLE_MS .. REPLUG_MAX_CYCLE_MS => n = ms
      /\ ms \notin REPLUG_MIN_CYCLE_MS .. REPLUG_MAX_CYCLE_MS
           => n \notin REPLUG_MIN_CYCLE_MS .. REPLUG_MAX_CYCLE_MS
  <2>1. n = IF 0 \leq ms /\ ms \leq UINT16_MAX THEN ms ELSE NotANumber
    BY PrintedRead
  <2> HIDE DEF n
  <2>2. /\ REPLUG_MIN_CYCLE_MS \in Nat \ {0} /\ REPLUG_MAX_CYCLE_MS \in Nat
        /\ REPLUG_MAX_CYCLE_MS \leq UINT16_MAX /\ UINT16_MAX \in Nat
    BY CycleAssumption DEF UINT16_MAX
  <2>3. CASE 0 \leq ms /\ ms \leq UINT16_MAX
    BY <2>1, <2>3
  <2>4. CASE ~(0 \leq ms /\ ms \leq UINT16_MAX)
    <3>1. n = -1
      BY <2>1, <2>4 DEF NotANumber
    <3> QED BY <2>2, <2>4, <3>1
  <2> QED BY <2>3, <2>4
<1> HIDE DEF n
<1>2. w \in Cut /\ w.text = "cycle"
  BY DEF Name, NotANumber, Cut, Names
<1>3. d \in Cut /\ d.number = n
  <2>1. d = [text |-> "delay", number |-> n]
    BY DEF DelayWord, n
  <2> QED BY <1>1, <2>1 DEF Cut
<1> HIDE DEF w, d
<1>4. /\ l \in Cuts /\ ~l.overflow
      /\ Len(l.args) = 2 /\ l.args[1] = w /\ l.args[2] = d
  <2>1. <<w, d>> \in Seq(Cut) /\ Len(<<w, d>>) = 2
    BY <1>2, <1>3
  <2>2. /\ l \in Cuts /\ ~l.overflow
        /\ l.args = <<w, d>>
    BY <2>1, WrittenLine
  <2>3. l.args[1] = w /\ l.args[2] = d
    BY <2>2
  <2> QED BY <2>1, <2>2, <2>3
<1> HIDE DEF l
<1>5. /\ cycle_ms(l) = n
      /\ IF n \in REPLUG_MIN_CYCLE_MS .. REPLUG_MAX_CYCLE_MS
         THEN IsCycle(l) ELSE IsBadArg(l)
  <2>1. l.args[1].text = "cycle" /\ l.args[2].number = n
    BY <1>2, <1>3, <1>4
  <2> QED BY <1>4, <2>1, CycleWords, Zenon
<1>6. IF ms \in REPLUG_MIN_CYCLE_MS .. REPLUG_MAX_CYCLE_MS
      THEN IsCycle(l) /\ cycle_ms(l) = ms ELSE IsBadArg(l)
  BY <1>1, <1>5, Zenon
<1> QED BY <1>6 DEF l, w, d

(* Whatever usb_replug.py lets its user ask for, the dongle takes the line  *)
(* it writes for that command, with the delay parse_u16 finds in the digits *)
(* of it, when the two have the same bounds: it never answers               *)
(* ERR invalid_arg or ERR invalid_command to it.                           *)
THEOREM ReplugUnderstood ==
    ASSUME REPLUG_MIN_CYCLE_MS = MIN_CYCLE_DELAY_MS,
           REPLUG_MAX_CYCLE_MS = MAX_CYCLE_DELAY_MS,
           NEW command \in Names, NEW delay_ms \in cycle_delay_ms \cup {None}
    PROVE  LET l == build_device_command(command, delay_ms)
           IN  /\ Understood(command, l)
               /\ command = "cycle" /\ delay_ms # None => cycle_ms(l) = delay_ms
<1>1. CASE command = "cycle" /\ delay_ms # None
  <2>1. delay_ms \in REPLUG_MIN_CYCLE_MS .. REPLUG_MAX_CYCLE_MS /\ delay_ms \in Int
    BY <1>1, CycleAssumption DEF cycle_delay_ms
  <2> QED BY <1>1, <2>1, WrittenCycle DEF build_device_command, Understood
<1>2. CASE ~(command = "cycle" /\ delay_ms # None)
  BY <1>2, WrittenWord DEF build_device_command
<1> QED BY <1>1, <1>2

(* portpulse.c checks nothing: the dongle does, and refuses exactly the     *)
(* delays that are out of its bounds, whatever int is printed: none is      *)
(* taken for another one, for its sign or for the length of its digits.    *)
THEOREM PortpulseChecked ==
    ASSUME NEW command \in Names, NEW delay \in Int
    PROVE  LET l == request(command, delay) IN
           IF command # "cycle" \/ delay \in REPLUG_MIN_CYCLE_MS .. REPLUG_MAX_CYCLE_MS
           THEN /\ Understood(command, l)
                /\ command = "cycle" => cycle_ms(l) = delay
           ELSE IsBadArg(l)
<1>1. CASE command = "cycle"
  BY <1>1, WrittenCycle DEF request, Understood
<1>2. CASE command # "cycle"
  BY <1>2, WrittenWord DEF request
<1> QED BY <1>1, <1>2

-----------------------------------------------------------------------------
(* SerialNumber.                                                           *)

LEMMA HexDigitTells ==
    ASSUME NEW m \in Nat, NEW n \in Nat, hex_digit(m) = hex_digit(n)
    PROVE  m % 16 = n % 16
BY DEF hex_digit

LEMMA NibblesMakeByte ==
    ASSUME NEW m \in 0 .. 255, NEW n \in 0 .. 255,
           (m \div 16) % 16 = (n \div 16) % 16, m % 16 = n % 16
    PROVE  m = n
<1> DEFINE high(byte) == byte \div 16
<1>1. \A byte \in 0 .. 255 : high(byte) \in 0 .. 15 /\ byte = 16 * high(byte) + (byte % 16)
  OBVIOUS
<1>2. \A nibble \in 0 .. 15 : nibble % 16 = nibble
  OBVIOUS
<1>3. high(m) = high(n)
  BY <1>1, <1>2
<1> QED BY <1>1, <1>3

LEMMA DigitIsSent ==
    ASSUME NEW id \in ChipId, NEW k \in 0 .. 9
    PROVE  serial_number(id)[6 + k] = Digit(id, k)
<1>1. 6 + k \in 1 .. 15 /\ 2 * (6 + k) + 1 \in 1 .. 32 /\ 2 * (6 + k) + 1 = 13 + 2 * k
  OBVIOUS
<1>2. serial_number(id)[6 + k] = usb_build_serial_descriptor(id)[13 + 2 * k]
  BY <1>1 DEF serial_number
<1>3. (13 + 2 * k) % 2 = 1 /\ (13 + 2 * k - 13) \div 2 = k
  OBVIOUS
<1> QED
  BY <1>1, <1>2, <1>3 DEF usb_build_serial_descriptor, USB_SERIAL_DESCRIPTOR_LENGTH

(* usb_build_serial_descriptor writes every byte of the chip's id so that  *)
(* the serial number tells two chips apart, wherever in one the other is   *)
(* looked for.                                                             *)
THEOREM SerialTellsApart ==
    ASSUME NEW a \in ChipId, NEW b \in ChipId,
           Contains(serial_number(a), serial_number(b))
    PROVE  a = b
<1>1. Len(serial_number(a)) = 15 /\ Len(serial_number(b)) = 15
  BY DEF serial_number
<1>2. \A k \in 1 .. 15 : serial_number(a)[k] = serial_number(b)[k]
  BY <1>1 DEF Contains
<1>3. \A k \in 0 .. 9 : Digit(a, k) = Digit(b, k)
  <2> TAKE k \in 0 .. 9
  <2>1. serial_number(a)[6 + k] = serial_number(b)[6 + k]
    BY <1>2
  <2> QED BY <2>1, DigitIsSent
<1>4. ASSUME NEW i \in 1 .. 5 PROVE a[i] = b[i]
  <2>1. a[i] \in 0 .. 255 /\ b[i] \in 0 .. 255
    BY DEF ChipId
  <2>2. hex_digit(a[i] \div 16) = hex_digit(b[i] \div 16)
    <3>1. Digit(a, 2 * (i - 1)) = Digit(b, 2 * (i - 1))
      BY <1>3
    <3>2. (2 * (i - 1)) % 2 = 0 /\ (2 * (i - 1)) \div 2 + 1 = i
      OBVIOUS
    <3> QED BY <3>1, <3>2 DEF Digit
  <2>3. hex_digit(a[i]) = hex_digit(b[i])
    <3>1. Digit(a, 2 * (i - 1) + 1) = Digit(b, 2 * (i - 1) + 1)
      BY <1>3
    <3>2. (2 * (i - 1) + 1) % 2 = 1 /\ (2 * (i - 1) + 1) \div 2 + 1 = i
      OBVIOUS
    <3> QED BY <3>1, <3>2 DEF Digit
  <2>4. a[i] \in Nat /\ b[i] \in Nat /\ a[i] \div 16 \in Nat /\ b[i] \div 16 \in Nat
    BY <2>1
  <2>5. (a[i] \div 16) % 16 = (b[i] \div 16) % 16
    BY <2>2, <2>4, HexDigitTells
  <2>6. a[i] % 16 = b[i] % 16
    BY <2>3, <2>4, HexDigitTells
  <2> QED BY <2>1, <2>5, <2>6, NibblesMakeByte
<1> QED BY <1>4 DEF ChipId

(* `usb_replug --serial` with the whole serial number of an attached dongle *)
(* opens that dongle's port, however many dongles are attached.            *)
THEOREM SerialSelects ==
    ASSUME NEW Device, NEW vid, NEW pid,
           NEW dongles \in SUBSET [device : Device, chip_id : ChipId],
           \A d, e \in dongles : d.chip_id = e.chip_id => d = e,
           NEW mine \in dongles
    PROVE  {port.device : port \in resolve_port(Listed(dongles, vid, pid), vid, pid,
                                                serial_number(mine.chip_id))}
             = {mine.device}
<1> DEFINE port == [device |-> mine.device, vid |-> vid, pid |-> pid,
                    serial |-> serial_number(mine.chip_id)]
           ports == Listed(dongles, vid, pid)
           matches(p) == port_matches(p, vid, pid, serial_number(mine.chip_id))
<1>1. \A d \in dongles : d.chip_id \in ChipId
  OBVIOUS
<1>2. port \in ports
  BY DEF Listed
<1>3. matches(port)
  <2>1. Len(serial_number(mine.chip_id)) = 15
    BY <1>1 DEF serial_number
  <2>2. Contains(serial_number(mine.chip_id), serial_number(mine.chip_id))
    BY <2>1 DEF Contains
  <2> QED BY <2>2 DEF port_matches
<1>4. ASSUME NEW other \in ports, matches(other) PROVE other = port
  <2>1. PICK d \in dongles : other = [device |-> d.device, vid |-> vid, pid |-> pid,
                                      serial |-> serial_number(d.chip_id)]
    BY DEF Listed
  <2>2. Contains(serial_number(d.chip_id), serial_number(mine.chip_id))
    BY <1>4, <2>1 DEF port_matches
  <2>3. d = mine
    BY <1>1, <2>2, SerialTellsApart
  <2> QED BY <2>1, <2>3
<1>5. resolve_port(ports, vid, pid, serial_number(mine.chip_id)) = {port}
  BY <1>2, <1>3, <1>4 DEF resolve_port
<1> QED BY <1>5

-----------------------------------------------------------------------------
(* HostSession.                                                            *)

HasWritten == host.stage \in {"writing", "reading"}

(* The last command that was written.                                      *)
Latest == IF HasWritten THEN host.session ELSE result.session

Counting ==
    /\ host.stage # "closed" => host.session = result.session + 1
    /\ host.stage = "opened" => host.spent = 0
    /\ result.answer \leq result.session

(* Whatever is still to come is later than the answer that was printed      *)
(* last, and the places it passes through are in the order of the commands. *)
InputInOrder ==
    /\ \A i \in 1 .. Len(input) : result.answer < input[i] /\ input[i] \leq Latest
    /\ \A i, j \in 1 .. Len(input) : i < j => input[i] < input[j]

DeviceInOrder ==
    device.stage # "waiting" =>
        /\ result.answer < device.session /\ device.session \leq Latest
        /\ \A i \in 1 .. Len(input) : input[i] < device.session
        /\ \A i \in 1 .. Len(sent) : device.session < sent[i].session

SentInOrder ==
    /\ \A i \in 1 .. Len(sent) :
         /\ result.answer < sent[i].session /\ sent[i].session \leq Latest
         /\ \A j \in 1 .. Len(input) : input[j] < sent[i].session
    /\ \A i, j \in 1 .. Len(sent) : i < j => sent[i].session < sent[j].session

(* What a session of usb_replug may still be given.                        *)
Mine == host.ahead \cup {host.session}
InputMine == \A i \in 1 .. Len(input) : input[i] \in Mine
DeviceMine == device.stage # "waiting" => device.session \in Mine
SentMine == \A i \in 1 .. Len(sent) : sent[i].session \in Mine
AllMine ==
    host.tool = "usb_replug" /\ HasWritten => InputMine /\ DeviceMine /\ SentMine

(* The time a cycle takes is within the limit, and a line that is silent    *)
(* now has failed the session.                                             *)
Limited ==
    /\ host.stage # "closed" /\ host.tool = "usb_replug" /\ InTime
         => Duration(host.command) < host.limit
    /\ host.stage # "closed" /\ ~host.failed => line

(* A session that finds the dongle idle has its command in one place at a   *)
(* time, and there is time enough left for it.                             *)
OnItsWay ==
    /\ input = <<>> /\ device.stage = "waiting" /\ Len(sent) = 1
    /\ sent[1].session = host.session /\ sent[1].command = host.command /\ host.spent = 0
Working ==
    /\ sent = <<>> /\ input = <<>> /\ device.stage = "working"
    /\ device.session = host.session
    /\ host.spent + device.left \leq Duration(host.command)
Answering ==
    /\ sent = <<>> /\ input = <<>> /\ device.stage = "sending"
    /\ device.session = host.session /\ host.spent \leq Duration(host.command)
Answered ==
    /\ sent = <<>> /\ device.stage = "waiting" /\ Len(input) = 1
    /\ input[1] = host.session

Undelayed == host.tool = "usb_replug" /\ HasWritten /\ host.ahead = {} /\ ~host.failed
Alone == Undelayed => OnItsWay \/ Working \/ Answering \/ Answered

Ordered == Counting /\ InputInOrder /\ DeviceInOrder /\ SentInOrder
IInv == TypeOK /\ Ordered /\ AllMine /\ Limited /\ Alone

-----------------------------------------------------------------------------
(* The times.                                                              *)
LEMMA Times ==
    ASSUME NEW command, command \in SomeCommand
    PROVE  /\ Duration(command) \in Nat
           /\ command.name = "cycle" => Duration(command) < Delay(command) + CYCLE_MARGIN
           /\ Delay(command) \in Nat
  <1> USE HostAssumption, MarginAssumption
  <1>1. /\ Delay(command) \in Nat /\ command.name \in {"status", "on", "cycle"}
    BY DEF Delay, Command, NoCommand, SomeCommand
  <1>2. /\ Duration(command) \in Nat
        /\ Duration(command) = CASE command.name = "status" -> 0
                                 [] command.name = "on" -> SETTLE
                                 [] command.name = "cycle" -> Delay(command) + SETTLE
    BY <1>1 DEF Duration
  <1> QED
    BY <1>1, <1>2

LEMMA Limits ==
    ASSUME NEW tool \in ToolNames, NEW timeout \in Timeouts, NEW command \in Commands
    PROVE  /\ Limit(tool, timeout, command) \in Nat
           /\ tool = "usb_replug" /\ command.name = "cycle"
                => Duration(command) < Limit(tool, timeout, command)
  <1>1. timeout \in Nat /\ CYCLE_MARGIN \in Nat /\ NATIVE_TIMEOUT \in Nat
    BY HostAssumption
  <1>2. /\ Duration(command) \in Nat /\ Delay(command) \in Nat
        /\ command.name = "cycle" => Duration(command) < Delay(command) + CYCLE_MARGIN
    BY Times DEF SomeCommand
  <1>3. /\ effective_timeout(timeout, command) \in Nat
        /\ command.name = "cycle" => Duration(command) < effective_timeout(timeout, command)
    BY <1>1, <1>2 DEF effective_timeout
  <1> QED
    BY <1>1, <1>3 DEF Limit

LEMMA SessionNumbers ==
    ASSUME TypeOK
    PROVE  /\ host.session \in Nat /\ host.spent \in Nat /\ host.limit \in Nat
           /\ host.command \in SomeCommand /\ Duration(host.command) \in Nat
           /\ device.session \in Nat /\ device.left \in Nat
           /\ result.session \in Nat /\ result.answer \in Nat
           /\ \A i \in 1 .. Len(input) : input[i] \in Nat
           /\ \A i \in 1 .. Len(sent) : sent[i].session \in Nat
  <1>1. Sessions \subseteq Nat
    BY HostAssumption DEF Sessions
  <1>2. /\ host \in Host /\ device \in Dongle /\ result \in Result
        /\ sent \in Seq(Sent) /\ input \in Seq(Sessions)
    BY DEF TypeOK
  <1>3. \A i \in 1 .. Len(input) : input[i] \in Sessions
    BY <1>2
  <1>4. \A i \in 1 .. Len(sent) : sent[i] \in Sent
    BY <1>2
  <1>5. host.command \in SomeCommand
    BY <1>2 DEF Host
  <1> QED
    BY <1>1, <1>2, <1>3, <1>4, <1>5, Times DEF Host, Dongle, Result, Sent

LEMMA Rest ==
    /\ Closed \in Host /\ Waiting \in Dongle
    /\ Closed.stage = "closed" /\ Closed.spent = 0 /\ Closed.limit = 0
    /\ Waiting.stage = "waiting"
  BY HostAssumption
     DEF Closed, Waiting, Host, Dongle, Sessions, Stages, ToolNames, SomeCommand

-----------------------------------------------------------------------------
(* Every step keeps the invariant.                                         *)
LEMMA InitInv == Init => IInv
  <1> SUFFICES ASSUME Init
               PROVE  IInv
    OBVIOUS
  <1>1. /\ host = Closed /\ sent = <<>> /\ device = Waiting /\ input = <<>>
        /\ arrived = FALSE /\ line = TRUE
        /\ result.session = 0 /\ result.answer = 0 /\ result \in Result
    BY HostAssumption DEF Init, Result, Sessions
  <1>2. TypeOK
    <2>1. sent \in Seq(Sent) /\ input \in Seq(Sessions)
      BY <1>1
    <2>2. host.spent \leq host.limit /\ host.stage # "reading"
      BY <1>1, Rest
    <2> QED
      BY <1>1, <2>1, <2>2, Rest DEF TypeOK
  <1>3. ~HasWritten /\ host.stage = "closed"
    BY <1>1, Rest DEF HasWritten
  <1>4. Ordered
    BY <1>1, <1>3, Rest DEF Ordered, Counting, InputInOrder, DeviceInOrder, SentInOrder
  <1> QED
    BY <1>2, <1>3, <1>4 DEF IInv, AllMine, Limited, Alone, Undelayed

LEMMA OpenInv ==
    ASSUME IInv, NEW tool \in Tools, NEW timeout \in Timeouts, NEW command \in Commands,
           Open(tool, timeout, command)
    PROVE  IInv'
  <1> DEFINE limit == Limit(tool, timeout, command)
             n == result.session + 1
  <1>1. /\ host.stage = "closed" /\ sent' = sent /\ arrived' = arrived /\ device' = device
        /\ input' = input /\ line' = line /\ result' = result
        /\ host' = [stage |-> "opened", tool |-> tool, session |-> n, command |-> command,
                    limit |-> limit, spent |-> 0, ahead |-> {}, failed |-> ~line]
    BY DEF Open
  <1>2. n \in Sessions /\ tool \in ToolNames
    BY HostAssumption DEF Open, IInv, TypeOK, Result, Sessions
  <1>3. /\ limit \in Nat
        /\ tool = "usb_replug" /\ command.name = "cycle" => Duration(command) < limit
    BY <1>2, Limits
  <1> HIDE DEF limit, n
  <1>4. host' \in Host
    <2>1. {} \in SUBSET Sessions /\ "opened" \in Stages /\ command \in SomeCommand
      BY DEF Stages, SomeCommand
    <2> QED
      BY <1>1, <1>2, <1>3, <2>1 DEF Host
  <1>5. /\ host'.stage = "opened" /\ host'.spent = 0 /\ host'.limit = limit
        /\ host'.tool = tool /\ host'.command = command /\ host'.session = n
        /\ host'.failed = ~line
    BY <1>1
  <1>6. TypeOK'
    BY <1>1, <1>3, <1>4, <1>5 DEF IInv, TypeOK
  <1>7. ~HasWritten /\ ~HasWritten'
    BY <1>1, <1>5 DEF HasWritten
  <1>8. Ordered'
    BY <1>1, <1>5, <1>7
       DEF IInv, Ordered, Counting, InputInOrder, DeviceInOrder, SentInOrder, Latest, n
  <1>9. Limited'
    BY <1>1, <1>3, <1>5 DEF Limited, InTime
  <1> QED
    BY <1>6, <1>7, <1>8, <1>9 DEF IInv, AllMine, Alone, Undelayed

(* A command is put behind those under way.                                *)
LEMMA WriteInv ==
    ASSUME IInv, Write
    PROVE  IInv'
  <1> DEFINE n == host.session
             entry == [session |-> n, command |-> host.command]
             stage == IF host.tool = "usb_replug" THEN "writing" ELSE "reading"
  <1>1. /\ host.stage = "opened" /\ device' = device /\ result' = result
        /\ arrived' = arrived /\ line' = line
        /\ host' = [host EXCEPT !.stage = stage, !.ahead = UnderWay]
        /\ sent' = Append(sent, entry)
        /\ input' = IF host.tool = "usb_replug" THEN <<>> ELSE input
    BY DEF Write, WriteTo
  <1>2. /\ TypeOK /\ sent \in Seq(Sent) /\ input \in Seq(Sessions)
        /\ host \in Host /\ device \in Dongle /\ result \in Result
    BY DEF IInv, TypeOK
  <1>3. /\ n \in Sessions /\ n \in Nat /\ result.session \in Nat /\ n = result.session + 1
        /\ host.spent = 0 /\ result.answer \leq result.session /\ result.answer \in Nat
    BY <1>1, <1>2, SessionNumbers DEF IInv, Ordered, Counting, Host
  <1>4. entry \in Sent /\ entry.session = n /\ entry.command = host.command
    BY <1>2, <1>3 DEF Sent, Host
  <1> HIDE DEF entry
  <1>5. /\ sent' \in Seq(Sent) /\ Len(sent') = Len(sent) + 1 /\ Len(sent) \in Nat
        /\ sent'[Len(sent) + 1] = entry
        /\ \A i \in 1 .. Len(sent) : sent'[i] = sent[i]
    BY <1>1, <1>2, <1>4
  <1>6. /\ stage \in Stages /\ stage \in {"writing", "reading"}
        /\ stage = "reading" => host.tool # "usb_replug"
    BY DEF Stages
  <1>7. UnderWay \in SUBSET Sessions
    <2>1. \A i \in DOMAIN sent : sent[i].session \in Sessions
      <3>1. \A i \in 1 .. Len(sent) : sent[i] \in Sent
        BY <1>2
      <3> QED
        BY <1>2, <3>1 DEF Sent
    <2>2. device.session \in Sessions
      BY <1>2 DEF Dongle
    <2> QED
      BY <2>1, <2>2 DEF UnderWay
  <1> HIDE DEF stage
  <1>8. /\ host' \in Host /\ host'.stage = stage /\ host'.ahead = UnderWay
        /\ host'.tool = host.tool /\ host'.session = n /\ host'.command = host.command
        /\ host'.limit = host.limit /\ host'.spent = 0 /\ host'.failed = host.failed
    <2> DEFINE ahead == UnderWay
    <2>1. ahead \in SUBSET Sessions /\ stage \in Stages
      BY <1>6, <1>7
    <2>2. host' = [host EXCEPT !.stage = stage, !.ahead = ahead]
      BY <1>1
    <2> HIDE DEF ahead, n
    <2>3. /\ host' \in Host /\ host'.stage = stage /\ host'.ahead = ahead
          /\ host'.tool = host.tool /\ host'.session = host.session
          /\ host'.command = host.command
          /\ host'.limit = host.limit /\ host'.spent = host.spent
          /\ host'.failed = host.failed
      BY <1>2, <2>1, <2>2 DEF Host
    <2> QED
      BY <1>3, <2>3 DEF ahead, n
  <1>9. input' \in Seq(Sessions) /\ (input' = <<>> \/ input' = input)
    BY <1>1, <1>2
  <1>10. TypeOK'
    <2>1. host'.stage = "reading" => host'.tool # "usb_replug"
      BY <1>6, <1>8
    <2>2. sent' # <<>>
      BY <1>5
    <2>3. arrived' \in BOOLEAN /\ line' \in BOOLEAN
      BY <1>1, <1>2, Zenon DEF TypeOK
    <2> QED
      BY <1>1, <1>2, <1>5, <1>8, <1>9, <2>1, <2>2, <2>3, SessionNumbers DEF TypeOK
  <1>11. ~HasWritten /\ HasWritten' /\ Latest = result.session /\ Latest' = n
    BY <1>1, <1>6, <1>8 DEF HasWritten, Latest
  <1> HIDE DEF n
  <1>12. Counting'
    BY <1>1, <1>3, <1>6, <1>8 DEF Counting, n
  <1>13. /\ \A i \in 1 .. Len(input) : result.answer < input[i] /\ input[i] < n
         /\ device.stage # "waiting" => device.session < n
         /\ \A i \in 1 .. Len(sent) : sent[i].session < n
    BY <1>2, <1>3, <1>11, SessionNumbers
       DEF IInv, Ordered, InputInOrder, DeviceInOrder, SentInOrder
  <1>14. Len(input') \in Nat /\ \A j \in 1 .. Len(input') : j \in 1 .. Len(input) /\ input'[j] = input[j]
    BY <1>2, <1>9
  <1>15. InputInOrder'
    <2>1. InputInOrder /\ result.answer < n
      BY <1>3 DEF IInv, Ordered
    <2> QED
      BY <1>1, <1>3, <1>11, <1>13, <1>14, <2>1, SessionNumbers, <1>2 DEF InputInOrder
  <1>16. DeviceInOrder'
    <2>1. DeviceInOrder
      BY DEF IInv, Ordered
    <2>2. \A i \in 1 .. Len(sent) + 1 : i \in 1 .. Len(sent) \/ i = Len(sent) + 1
      BY <1>5
    <2> QED
      BY <1>1, <1>2, <1>3, <1>4, <1>5, <1>11, <1>13, <1>14, <2>1, <2>2, SessionNumbers
         DEF DeviceInOrder
  <1>17. SentInOrder'
    <2>1. /\ \A i \in 1 .. Len(sent) : sent'[i] = sent[i] /\ sent[i].session < n
          /\ sent'[Len(sent) + 1].session = n /\ result.answer < n
          /\ \A i \in 1 .. Len(input) : input[i] < n
      BY <1>3, <1>4, <1>5, <1>13
    <2>2. \A i \in 1 .. Len(sent) + 1 :
            /\ result.answer < sent'[i].session /\ sent'[i].session \leq n
            /\ \A j \in 1 .. Len(input) : input[j] < sent'[i].session
      <3> SUFFICES ASSUME NEW i \in 1 .. Len(sent) + 1
                   PROVE  /\ result.answer < sent'[i].session /\ sent'[i].session \leq n
                          /\ \A j \in 1 .. Len(input) : input[j] < sent'[i].session
        OBVIOUS
      <3>1. CASE i = Len(sent) + 1
        BY <1>3, <2>1, <3>1 DEF n
      <3>2. CASE i \in 1 .. Len(sent)
        BY <1>2, <1>3, <2>1, <3>2, SessionNumbers DEF IInv, Ordered, SentInOrder, n
      <3> QED
        BY <1>5, <3>1, <3>2
    <2>3. \A i, j \in 1 .. Len(sent) + 1 : i < j => sent'[i].session < sent'[j].session
      <3> SUFFICES ASSUME NEW i \in 1 .. Len(sent) + 1, NEW j \in 1 .. Len(sent) + 1, i < j
                   PROVE  sent'[i].session < sent'[j].session
        OBVIOUS
      <3>1. i \in 1 .. Len(sent)
        BY <1>5
      <3>2. CASE j = Len(sent) + 1
        BY <2>1, <3>1, <3>2
      <3>3. CASE j \in 1 .. Len(sent)
        BY <2>1, <3>1, <3>3 DEF IInv, Ordered, SentInOrder
      <3> QED
        BY <1>5, <3>2, <3>3
    <2> QED
      BY <1>1, <1>5, <1>11, <1>14, <2>2, <2>3 DEF SentInOrder
  <1>18. AllMine'
    <2> SUFFICES ASSUME host.tool = "usb_replug"
                 PROVE  InputMine' /\ DeviceMine' /\ SentMine'
      BY <1>8 DEF AllMine
    <2>1. Mine' = UnderWay \cup {n}
      BY <1>8 DEF Mine
    <2>2. InputMine'
      BY <1>1 DEF InputMine
    <2>3. DeviceMine'
      BY <1>1, <2>1 DEF DeviceMine, UnderWay
    <2>4. SentMine'
      <3>1. \A i \in 1 .. Len(sent) : sent[i].session \in UnderWay
        BY <1>2 DEF UnderWay
      <3>2. \A i \in 1 .. Len(sent) + 1 : i \in 1 .. Len(sent) \/ i = Len(sent) + 1
        BY <1>5
      <3> QED
        BY <1>4, <1>5, <2>1, <3>1, <3>2 DEF SentMine
    <2> QED
      BY <2>2, <2>3, <2>4
  <1>19. Limited'
    BY <1>1, <1>8 DEF IInv, Limited, InTime
  <1>20. Alone'
    <2> SUFFICES ASSUME host.tool = "usb_replug", UnderWay = {}
                 PROVE  OnItsWay'
      BY <1>8 DEF Alone, Undelayed
    <2>1. device.stage = "waiting" /\ Len(sent) = 0
      <3>1. \A i \in 1 .. Len(sent) : sent[i].session \in UnderWay
        BY <1>2 DEF UnderWay
      <3>2. 1 \notin 1 .. Len(sent)
        BY <3>1
      <3> QED
        BY <1>5, <3>2 DEF UnderWay
    <2> QED
      BY <1>1, <1>4, <1>5, <1>8, <2>1 DEF OnItsWay
  <1> QED
    BY <1>10, <1>12, <1>15, <1>16, <1>17, <1>18, <1>19, <1>20 DEF IInv, Ordered

LEMMA FlushInv ==
    ASSUME IInv, Flush
    PROVE  IInv'
  <1>1. /\ host.stage = "writing" /\ Flushed
        /\ host' = [host EXCEPT !.stage = "reading"]
        /\ sent' = sent /\ arrived' = arrived /\ device' = device /\ input' = input
        /\ line' = line /\ result' = result
    BY DEF Flush
  <1>2. TypeOK /\ host \in Host
    BY DEF IInv, TypeOK
  <1>3. /\ host' \in Host /\ host'.stage = "reading" /\ host'.tool = host.tool
        /\ host'.session = host.session /\ host'.command = host.command
        /\ host'.limit = host.limit /\ host'.spent = host.spent
        /\ host'.ahead = host.ahead /\ host'.failed = host.failed
    BY <1>1, <1>2 DEF Host, Stages
  <1>4. HasWritten /\ HasWritten' /\ Latest' = Latest /\ Mine' = Mine
    BY <1>1, <1>3 DEF HasWritten, Latest, Mine
  <1>5. TypeOK'
    BY <1>1, <1>2, <1>3 DEF TypeOK, Flushed
  <1>6. Ordered'
    BY <1>1, <1>3, <1>4
       DEF IInv, Ordered, Counting, InputInOrder, DeviceInOrder, SentInOrder
  <1>7. AllMine' /\ Limited'
    BY <1>1, <1>3, <1>4
       DEF IInv, AllMine, InputMine, DeviceMine, SentMine, Limited, InTime
  <1>8. Alone'
    BY <1>1, <1>3, <1>4
       DEF IInv, Alone, Undelayed, OnItsWay, Working, Answering, Answered
  <1> QED
    BY <1>5, <1>6, <1>7, <1>8 DEF IInv

-----------------------------------------------------------------------------
(* A session ends.  What is kept of the commands are the first of them.    *)
LEMMA FinishKeeps ==
    ASSUME TypeOK, NEW answer \in Sessions, NEW left \in Seq(Sessions), Finish(answer, left)
    PROVE  /\ sent' \in Seq(Sent) /\ Len(sent') \in Nat
           /\ \A i \in 1 .. Len(sent') : i \in 1 .. Len(sent) /\ sent'[i] = sent[i]
           /\ arrived => sent' # <<>>
           /\ TypeOK' /\ ~HasWritten' /\ host' = Closed /\ host'.stage = "closed"
           /\ Latest' = host.session
  <1>1. /\ host' = Closed /\ result' = [session |-> host.session, answer |-> answer]
        /\ input' = left \/ input' = <<>>
        /\ sent' = sent \/ sent' = IF arrived THEN <<Head(sent)>> ELSE <<>>
        /\ arrived' = arrived /\ device' = device /\ line' = line
    BY DEF Finish
  <1>2. /\ sent \in Seq(Sent)
        /\ arrived => sent # <<>>
        /\ host \in Host /\ device \in Dongle
    BY DEF TypeOK
  <1>3. /\ sent' \in Seq(Sent) /\ Len(sent') \in Nat
        /\ \A i \in 1 .. Len(sent') : i \in 1 .. Len(sent) /\ sent'[i] = sent[i]
        /\ arrived => sent' # <<>>
    <2>1. CASE sent' = sent
      BY <1>2, <2>1
    <2>2. CASE arrived /\ sent' = <<Head(sent)>>
      <3>1. sent \in Seq(Sent) /\ sent # <<>>
        BY <1>2, <2>2
      <3>2. Len(sent) \in Nat /\ Len(sent) # 0 /\ Head(sent) = sent[1] /\ sent[1] \in Sent
        BY <3>1
      <3> QED
        BY <2>2, <3>2
    <2>3. CASE ~arrived /\ sent' = <<>>
      BY <2>3
    <2> QED
      BY <1>1, <2>1, <2>2, <2>3
  <1>4. ~HasWritten' /\ host'.stage = "closed" /\ Latest' = host.session
    BY <1>1, Rest DEF HasWritten, Latest
  <1>5. input' \in Seq(Sessions) /\ result' \in Result
    <2>1. host.session \in Sessions
      BY <1>2 DEF Host
    <2>2. result' \in Result
      BY <1>1, <2>1 DEF Result
    <2>3. CASE input' = left
      BY <2>2, <2>3
    <2>4. CASE input' = <<>>
      BY <2>2, <2>4
    <2> QED
      BY <1>1, <2>3, <2>4
  <1>6. TypeOK'
    <2>1. arrived' \in BOOLEAN /\ line' \in BOOLEAN
      BY <1>1, Zenon DEF TypeOK
    <2> QED
      BY <1>1, <1>2, <1>3, <1>4, <1>5, <2>1, Rest DEF TypeOK
  <1> QED
    BY <1>1, <1>3, <1>4, <1>6

LEMMA ClosedRest ==
    ASSUME ~HasWritten', host'.stage = "closed"
    PROVE  AllMine' /\ Limited' /\ Alone'
  BY DEF AllMine, Limited, Alone, Undelayed

LEMMA ReadLineInv ==
    ASSUME IInv, ReadLine
    PROVE  IInv'
  <1>1. /\ host.stage = "reading" /\ input # <<>> /\ Finish(Head(input), Tail(input))
        /\ device' = device
        /\ result' = [session |-> host.session, answer |-> Head(input)]
        /\ input' = Tail(input) \/ input' = <<>>
    BY DEF ReadLine, Finish
  <1>2. /\ TypeOK /\ input \in Seq(Sessions) /\ host \in Host
        /\ host.session = result.session + 1
    BY <1>1 DEF IInv, TypeOK, Ordered, Counting
  <1>3. /\ Len(input) \in Nat /\ Len(input) # 0 /\ Head(input) = input[1]
        /\ Tail(input) \in Seq(Sessions) /\ Len(Tail(input)) = Len(input) - 1
        /\ \A i \in 1 .. Len(input) - 1 : Tail(input)[i] = input[i + 1]
        /\ input[1] \in Sessions
    BY <1>1, <1>2
  <1>4. /\ Len(input') \in Nat /\ Len(input') \leq Len(input) - 1
        /\ \A i \in 1 .. Len(input') : i + 1 \in 1 .. Len(input) /\ input'[i] = input[i + 1]
    <2>1. CASE input' = Tail(input)
      BY <1>3, <2>1
    <2>2. CASE input' = <<>>
      BY <1>3, <2>2
    <2> QED
      BY <1>1, <2>1, <2>2
  <1>5. result'.session = host.session /\ result'.answer = input[1]
    BY <1>1, <1>3
  <1>6. /\ \A i \in 1 .. Len(sent') : i \in 1 .. Len(sent) /\ sent'[i] = sent[i]
        /\ TypeOK' /\ ~HasWritten' /\ host'.stage = "closed"
        /\ Latest' = host.session
    BY <1>1, <1>2, <1>3, FinishKeeps
  <1>7. Latest = host.session
    BY <1>1 DEF Latest, HasWritten
  <1>8. Ordered'
    <2>1. Counting'
      BY <1>1, <1>3, <1>5, <1>6, <1>7 DEF Counting, IInv, Ordered, InputInOrder
    <2>2. InputInOrder'
      <3>1. /\ \A i \in 1 .. Len(input) : input[i] \leq host.session
            /\ \A i, j \in 1 .. Len(input) : i < j => input[i] < input[j]
        BY <1>7 DEF IInv, Ordered, InputInOrder
      <3>2. \A i \in 1 .. Len(input') : 1 < i + 1 /\ 1 \in 1 .. Len(input)
        BY <1>3
      <3>3. \A i, j \in 1 .. Len(input') : i < j => i + 1 < j + 1
        BY <1>4
      <3> QED
        BY <1>4, <1>5, <1>6, <3>1, <3>2, <3>3 DEF InputInOrder
    <2>3. DeviceInOrder'
      BY <1>1, <1>2, <1>3, <1>4, <1>5, <1>6, <1>7 DEF IInv, Ordered, DeviceInOrder
    <2>4. SentInOrder'
      <3>1. /\ \A i \in 1 .. Len(sent) :
                 /\ sent[i].session \leq host.session
                 /\ \A j \in 1 .. Len(input) : input[j] < sent[i].session
            /\ \A i, j \in 1 .. Len(sent) : i < j => sent[i].session < sent[j].session
        BY <1>7 DEF IInv, Ordered, SentInOrder
      <3>2. 1 \in 1 .. Len(input)
        BY <1>3
      <3> QED
        BY <1>4, <1>5, <1>6, <3>1, <3>2 DEF SentInOrder
    <2> QED
      BY <2>1, <2>2, <2>3, <2>4 DEF Ordered
  <1> QED
    BY <1>6, <1>8, ClosedRest DEF IInv

LEMMA ReadTimesOutInv ==
    ASSUME IInv, ReadTimesOut
    PROVE  IInv'
  <1>1. /\ host.stage = "reading" /\ input = <<>> /\ input' = <<>> /\ Finish(0, <<>>)
        /\ device' = device /\ result' = [session |-> host.session, answer |-> 0]
    BY DEF ReadTimesOut, TimedOut, Finish
  <1>2. TypeOK /\ 0 \in Sessions /\ <<>> \in Seq(Sessions)
    BY HostAssumption DEF IInv, Sessions
  <1>3. result'.session = host.session /\ result'.answer = 0 /\ host.session \in Nat
    BY <1>1, <1>2, SessionNumbers
  <1>4. /\ \A i \in 1 .. Len(sent') : i \in 1 .. Len(sent) /\ sent'[i] = sent[i]
        /\ TypeOK' /\ ~HasWritten' /\ host'.stage = "closed" /\ Latest' = host.session
    BY <1>1, <1>2, FinishKeeps
  <1>5. Latest = host.session
    BY <1>1 DEF Latest, HasWritten
  <1>6. /\ device.stage # "waiting" => 0 < device.session
        /\ \A i \in 1 .. Len(sent) : 0 < sent[i].session
    BY <1>2, SessionNumbers DEF IInv, Ordered, DeviceInOrder, SentInOrder
  <1>7. Ordered'
    <2>1. Counting' /\ InputInOrder'
      BY <1>1, <1>3, <1>4 DEF Counting, InputInOrder
    <2>2. DeviceInOrder'
      BY <1>1, <1>3, <1>4, <1>5, <1>6 DEF IInv, Ordered, DeviceInOrder
    <2>3. SentInOrder'
      BY <1>1, <1>3, <1>4, <1>5, <1>6 DEF IInv, Ordered, SentInOrder
    <2> QED
      BY <2>1, <2>2, <2>3 DEF Ordered
  <1> QED
    BY <1>4, <1>7, ClosedRest DEF IInv

-----------------------------------------------------------------------------
(* The steps of the dongle and of time.                                    *)
LEMMA SameHost ==
    ASSUME host' = host
    PROVE  /\ HasWritten' = HasWritten /\ Mine' = Mine /\ Undelayed' = Undelayed
           /\ InTime' = InTime
           /\ result' = result => Latest' = Latest
  BY DEF HasWritten, Mine, Undelayed, InTime, Latest

LEMMA CommandArrivesInv ==
    ASSUME IInv, CommandArrives
    PROVE  IInv'
  <1>1. /\ sent # <<>> /\ ~arrived /\ arrived' = TRUE
        /\ host' = host /\ sent' = sent /\ device' = device /\ input' = input
        /\ line' = line /\ result' = result
    BY DEF CommandArrives
  <1>2. TypeOK'
    BY <1>1 DEF IInv, TypeOK, Flushed
  <1> QED
    BY <1>1, <1>2
       DEF IInv, Ordered, Counting, InputInOrder, DeviceInOrder, SentInOrder, Latest, HasWritten,
           AllMine, Mine, InputMine, DeviceMine, SentMine, Limited, InTime,
           Alone, Undelayed, OnItsWay, Working, Answering, Answered

LEMMA TakeCommandInv ==
    ASSUME IInv, TakeCommand
    PROVE  IInv'
  <1> DEFINE entry == Head(sent)
  <1>1. /\ device.stage = "waiting" /\ arrived /\ sent' = Tail(sent) /\ arrived' = FALSE
        /\ device' = [stage |-> "working", session |-> entry.session,
                      left |-> Duration(entry.command)]
        /\ host' = host /\ input' = input /\ line' = line /\ result' = result
    BY DEF TakeCommand
  <1>2. TypeOK /\ sent \in Seq(Sent) /\ sent # <<>>
    BY <1>1 DEF IInv, TypeOK
  <1>3. /\ Len(sent) \in Nat /\ Len(sent) # 0 /\ entry = sent[1] /\ sent[1] \in Sent
        /\ sent' \in Seq(Sent) /\ Len(sent') = Len(sent) - 1
        /\ \A i \in 1 .. Len(sent) - 1 : i + 1 \in 1 .. Len(sent) /\ sent'[i] = sent[i + 1]
    BY <1>1, <1>2
  <1> HIDE DEF entry
  <1>4. entry.session \in Sessions /\ entry.command \in SomeCommand
    BY <1>3 DEF Sent
  <1>5. /\ device' \in Dongle /\ device'.stage = "working"
        /\ device'.session = sent[1].session /\ device'.left = Duration(entry.command)
    BY <1>1, <1>3, <1>4, Times DEF Dongle
  <1>6. /\ HasWritten' = HasWritten /\ Mine' = Mine /\ Undelayed' = Undelayed
        /\ InTime' = InTime /\ Latest' = Latest
    BY <1>1, SameHost
  <1>7. TypeOK'
    <2>1. Flushed => Flushed'
      <3>1. Flushed => Len(sent) = 1
        BY <1>2 DEF Flushed
      <3>2. Len(sent) = 1 => sent' = <<>>
        BY <1>3
      <3> QED
        BY <3>1, <3>2 DEF Flushed
    <2> QED
      BY <1>1, <1>2, <1>3, <1>5, <2>1 DEF TypeOK
  <1>8. 1 \in 1 .. Len(sent)
    BY <1>3
  <1>9. Ordered'
    <2>1. Counting' /\ InputInOrder'
      BY <1>1, <1>6 DEF IInv, Ordered, Counting, InputInOrder
    <2>2. DeviceInOrder'
      <3>1. \A i \in 1 .. Len(sent') : 1 < i + 1
        BY <1>3
      <3> QED
        BY <1>1, <1>3, <1>5, <1>6, <1>8, <3>1 DEF IInv, Ordered, SentInOrder, DeviceInOrder
    <2>3. SentInOrder'
      BY <1>1, <1>3, <1>6 DEF IInv, Ordered, SentInOrder
    <2> QED
      BY <2>1, <2>2, <2>3 DEF Ordered
  <1>10. AllMine'
    BY <1>1, <1>3, <1>5, <1>6, <1>8
       DEF IInv, AllMine, InputMine, DeviceMine, SentMine
  <1>11. Limited'
    BY <1>1, <1>6 DEF IInv, Limited
  <1>12. Alone'
    <2> SUFFICES ASSUME Undelayed
                 PROVE  Working'
      BY <1>6 DEF Alone
    <2>1. OnItsWay
      BY <1>1, <1>2 DEF IInv, Alone, Working, Answering, Answered
    <2>2. sent' = <<>>
      BY <1>3, <2>1 DEF OnItsWay
    <2>3. host.spent = 0 /\ entry.command = host.command /\ device'.session = host.session
      BY <1>3, <1>5, <2>1 DEF OnItsWay
    <2>4. Duration(host.command) \in Nat
      BY <1>2, SessionNumbers
    <2> QED
      BY <1>1, <1>5, <2>1, <2>2, <2>3, <2>4 DEF Working, OnItsWay
  <1> QED
    BY <1>7, <1>9, <1>10, <1>11, <1>12 DEF IInv

LEMMA AnswerReadyInv ==
    ASSUME IInv, AnswerReady
    PROVE  IInv'
  <1>1. /\ device.stage = "working"
        /\ device' = [device EXCEPT !.stage = "sending", !.left = TX_PATIENCE]
        /\ host' = host /\ sent' = sent /\ arrived' = arrived /\ input' = input
        /\ line' = line /\ result' = result
    BY DEF AnswerReady
  <1>2. /\ device' \in Dongle /\ device'.stage = "sending"
        /\ device'.session = device.session
    BY <1>1, HostAssumption DEF IInv, TypeOK, Dongle
  <1>3. TypeOK' /\ Ordered' /\ AllMine' /\ Limited'
    BY <1>1, <1>2
       DEF IInv, TypeOK, Flushed, Ordered, Counting, InputInOrder, DeviceInOrder, SentInOrder,
           Latest, HasWritten, AllMine, Mine, InputMine, DeviceMine, SentMine, Limited, InTime
  <1>4. Alone'
    <2> SUFFICES ASSUME Undelayed
                 PROVE  Answering'
      BY <1>1, SameHost DEF Alone
    <2>1. Working
      BY <1>1 DEF IInv, Alone, OnItsWay, Answering, Answered
    <2>2. /\ host.spent \in Nat /\ device.left \in Nat /\ Duration(host.command) \in Nat
      BY SessionNumbers DEF IInv
    <2>3. host.spent \leq Duration(host.command)
      BY <2>1, <2>2 DEF Working
    <2> QED
      BY <1>1, <1>2, <2>1, <2>3 DEF Working, Answering
  <1> QED
    BY <1>3, <1>4 DEF IInv

LEMMA AnswerFetchedInv ==
    ASSUME IInv, AnswerFetched
    PROVE  IInv'
  <1>1. /\ device.stage = "sending" /\ device' = Waiting
        /\ input' = Append(input, device.session)
        /\ host' = host /\ sent' = sent /\ arrived' = arrived
        /\ line' = line /\ result' = result
    BY DEF AnswerFetched
  <1>2. TypeOK /\ input \in Seq(Sessions) /\ device.session \in Sessions
    BY DEF IInv, TypeOK, Dongle
  <1>3. /\ Len(input) \in Nat /\ input' \in Seq(Sessions) /\ Len(input') = Len(input) + 1
        /\ input'[Len(input) + 1] = device.session
        /\ \A i \in 1 .. Len(input) : input'[i] = input[i]
    BY <1>1, <1>2
  <1>4. /\ HasWritten' = HasWritten /\ Mine' = Mine /\ Undelayed' = Undelayed
        /\ InTime' = InTime /\ Latest' = Latest
    BY <1>1, SameHost
  <1>5. TypeOK' /\ Counting' /\ Limited'
    BY <1>1, <1>2, <1>3, <1>4, Rest
       DEF IInv, TypeOK, Flushed, Ordered, Counting, Limited
  <1>6. \A i \in 1 .. Len(input) + 1 : i \in 1 .. Len(input) \/ i = Len(input) + 1
    BY <1>3
  <1>7. Ordered'
    <2>1. DeviceInOrder'
      BY <1>1, Rest DEF DeviceInOrder
    <2>2. InputInOrder'
      BY <1>1, <1>3, <1>4, <1>6 DEF IInv, Ordered, InputInOrder, DeviceInOrder
    <2>3. SentInOrder'
      BY <1>1, <1>3, <1>4, <1>6 DEF IInv, Ordered, SentInOrder, DeviceInOrder
    <2> QED
      BY <1>5, <2>1, <2>2, <2>3 DEF Ordered
  <1>8. AllMine'
    BY <1>1, <1>3, <1>4, <1>6, Rest DEF IInv, AllMine, InputMine, DeviceMine, SentMine
  <1>9. Alone'
    <2> SUFFICES ASSUME Undelayed
                 PROVE  Answered'
      BY <1>4 DEF Alone
    <2>1. Answering
      BY <1>1 DEF IInv, Alone, OnItsWay, Working, Answered
    <2>2. Len(input') = 1 /\ input'[1] = host.session
      BY <1>3, <2>1 DEF Answering
    <2> QED
      BY <1>1, <2>1, <2>2, Rest DEF Answering, Answered
  <1> QED
    BY <1>5, <1>7, <1>8, <1>9 DEF IInv

(* The answer of an undelayed session is asked for, so it is not dropped.   *)
LEMMA AnswerDroppedInv ==
    ASSUME IInv, AnswerDropped
    PROVE  IInv'
  <1>1. /\ device.stage = "sending" /\ ~Asked /\ device' = Waiting
        /\ host' = host /\ sent' = sent /\ arrived' = arrived /\ input' = input
        /\ line' = line /\ result' = result
    BY DEF AnswerDropped
  <1>2. ~Undelayed /\ Undelayed' = Undelayed
    BY <1>1, SameHost DEF Asked, IInv, Limited, Undelayed, HasWritten
  <1> QED
    BY <1>1, <1>2, Rest
       DEF IInv, TypeOK, Flushed, Ordered, Counting, InputInOrder, DeviceInOrder, SentInOrder,
           Latest, HasWritten, AllMine, Mine, InputMine, DeviceMine, SentMine, Limited, InTime,
           Alone

LEMMA LineChangesInv ==
    ASSUME IInv, LineChanges
    PROVE  IInv'
  <1>1. /\ line' = ~line
        /\ host' = IF line /\ host.stage # "closed" THEN [host EXCEPT !.failed = TRUE]
                   ELSE host
        /\ sent' = sent /\ arrived' = arrived /\ device' = device /\ input' = input
        /\ result' = result
    BY DEF LineChanges
  <1>2. TypeOK /\ host \in Host /\ line \in BOOLEAN
    BY DEF IInv, TypeOK
  <1>3. /\ host' \in Host /\ host'.stage = host.stage /\ host'.tool = host.tool
        /\ host'.session = host.session /\ host'.command = host.command
        /\ host'.limit = host.limit /\ host'.spent = host.spent /\ host'.ahead = host.ahead
        /\ ~host'.failed => ~host.failed
        /\ host.stage # "closed" /\ ~host'.failed => line'
    BY <1>1, <1>2 DEF Host
  <1>4. line' \in BOOLEAN
    BY <1>1, <1>2
  <1>5. TypeOK'
    BY <1>1, <1>2, <1>3, <1>4 DEF TypeOK, Flushed
  <1>6. Ordered' /\ AllMine'
    BY <1>1, <1>3
       DEF IInv, Ordered, Counting, InputInOrder, DeviceInOrder, SentInOrder,
           Latest, HasWritten, AllMine, Mine, InputMine, DeviceMine, SentMine
  <1>7. Limited'
    BY <1>3 DEF IInv, Limited, InTime
  <1>8. Alone'
    BY <1>1, <1>3
       DEF IInv, Alone, Undelayed, HasWritten, OnItsWay, Working, Answering, Answered
  <1> QED
    BY <1>5, <1>6, <1>7, <1>8 DEF IInv

(* Time is spent on both sides at once.                                    *)
LEMMA TickInv ==
    ASSUME IInv, Tick
    PROVE  IInv'
  <1>1. /\ ~Due
        /\ host' = IF host.stage = "reading" THEN [host EXCEPT !.spent = @ + 1] ELSE host
        /\ device' = IF device.stage # "waiting" THEN [device EXCEPT !.left = @ - 1]
                     ELSE device
        /\ sent' = sent /\ arrived' = arrived /\ input' = input
        /\ line' = line /\ result' = result
    BY DEF Tick
  <1>2. TypeOK /\ host \in Host /\ device \in Dongle
    BY DEF IInv, TypeOK
  <1>3. /\ host.spent \in Nat /\ device.left \in Nat /\ host.spent \leq host.limit
        /\ host.limit \in Nat
    BY <1>2, SessionNumbers DEF TypeOK
  <1>4. /\ host' \in Host /\ host'.stage = host.stage /\ host'.session = host.session
        /\ host'.command = host.command /\ host'.tool = host.tool
        /\ host'.limit = host.limit /\ host'.ahead = host.ahead
        /\ host'.failed = host.failed
        /\ host'.spent = IF host.stage = "reading" THEN host.spent + 1 ELSE host.spent
    BY <1>1, <1>2 DEF Host
  <1>5. /\ device' \in Dongle /\ device'.stage = device.stage
        /\ device'.session = device.session
        /\ device.stage # "waiting" => device'.left = device.left - 1
    BY <1>1, <1>2, <1>3 DEF Dongle, Due
  <1>6. /\ ~(host.stage = "opened") /\ ~(host.stage = "writing" /\ Flushed)
        /\ ~(host.stage = "reading" /\ input # <<>>) /\ ~TimedOut
        /\ ~(line /\ sent # <<>> /\ ~arrived) /\ ~(device.stage = "waiting" /\ arrived)
        /\ ~(device.stage = "sending" /\ Asked)
    BY <1>1 DEF Due
  <1>7. host'.spent \leq host'.limit
    <2>1. CASE host.stage = "reading"
      <3>1. ~(host.spent \geq host.limit)
        BY <1>6, <2>1 DEF TimedOut
      <3> QED
        BY <1>3, <1>4, <3>1
    <2>2. CASE host.stage # "reading"
      BY <1>3, <1>4, <2>2
    <2> QED
      BY <2>1, <2>2
  <1>8. TypeOK'
    BY <1>1, <1>2, <1>4, <1>5, <1>7 DEF TypeOK, Flushed
  <1>9. Ordered' /\ AllMine' /\ Limited'
    BY <1>1, <1>4, <1>5, <1>6
       DEF IInv, Ordered, Counting, InputInOrder, DeviceInOrder, SentInOrder, Latest, HasWritten,
           AllMine, Mine, InputMine, DeviceMine, SentMine, Limited, InTime
  <1>10. Alone'
    <2> SUFFICES ASSUME Undelayed
                 PROVE  Working'
      BY <1>4 DEF Alone, Undelayed, HasWritten
    <2>1. line /\ Asked /\ host.stage \in {"writing", "reading"}
      BY DEF IInv, Limited, Undelayed, HasWritten, Asked
    <2>2. Working
      <3>1. ~OnItsWay
        BY <1>2, <1>6, <2>1 DEF OnItsWay, TypeOK
      <3>2. ~Answering
        BY <1>6, <2>1 DEF Answering
      <3>3. ~Answered
        BY <1>6, <2>1 DEF Answered, Flushed
      <3> QED
        BY <3>1, <3>2, <3>3 DEF IInv, Alone
    <2>3. host'.spent + device'.left \leq host.spent + device.left
      BY <1>3, <1>4, <1>5, <2>2 DEF Working
    <2>4. host'.spent \in Nat /\ device'.left \in Nat /\ Duration(host.command) \in Nat
      BY <1>2, <1>3, <1>4, <1>5, SessionNumbers DEF Dongle
    <2> QED
      BY <1>1, <1>3, <1>4, <1>5, <2>2, <2>3, <2>4 DEF Working
  <1> QED
    BY <1>8, <1>9, <1>10 DEF IInv

LEMMA UnchangedInv ==
    ASSUME IInv, UNCHANGED vars
    PROVE  IInv'
  BY DEF vars, IInv, TypeOK, Flushed, Ordered, Counting, InputInOrder, DeviceInOrder,
         SentInOrder, Latest, HasWritten, AllMine, Mine, InputMine, DeviceMine, SentMine,
         Limited, InTime, Alone, Undelayed, OnItsWay, Working, Answering, Answered

LEMMA StepInv ==
    ASSUME IInv, [Next]_vars
    PROVE  IInv'
  BY OpenInv, WriteInv, FlushInv, ReadLineInv, ReadTimesOutInv, CommandArrivesInv,
     TakeCommandInv, AnswerReadyInv, AnswerFetchedInv, AnswerDroppedInv, LineChangesInv,
     TickInv, UnchangedInv DEF Next

(* The inductive invariant holds whatever sessions of either tool follow    *)
(* each other, whatever they leave behind, and however often the line falls *)
(* silent.                                                                 *)
THEOREM SessionInvariant == Spec => []IInv
  BY InitInv, StepInv, PTL DEF Spec

(* No session reads beyond its time limit, and that of usb_replug starts    *)
(* when its command is in the dongle.                                      *)
THEOREM TypeCorrect == Spec => []TypeOK
  <1>1. IInv => TypeOK
    BY DEF IInv
  <1> QED
    BY <1>1, SessionInvariant, PTL

-----------------------------------------------------------------------------
(* A session that reads is ended by a line or by its time limit.           *)
LEMMA ClosedBy ==
    ASSUME TypeOK, [Next]_vars, Closes
    PROVE  ReadLine \/ ReadTimesOut
  <1>1. host.stage = "reading" /\ host'.stage = "closed" /\ host \in Host
    BY DEF Closes, TypeOK
  <1>2. ~(UNCHANGED vars) /\ ~CommandArrives /\ ~TakeCommand /\ ~AnswerReady /\ ~AnswerFetched
        /\ ~AnswerDropped
    BY <1>1 DEF vars, CommandArrives, TakeCommand, AnswerReady, AnswerFetched, AnswerDropped
  <1>3. ASSUME NEW tool \in Tools, NEW timeout \in Timeouts, NEW command \in Commands
        PROVE  ~Open(tool, timeout, command)
    BY <1>1 DEF Open
  <1>4. ~Write /\ ~Flush
    BY <1>1 DEF Write, WriteTo, Flush
  <1>5. ~LineChanges /\ ~Tick
    <2>1. /\ [host EXCEPT !.failed = TRUE].stage = host.stage
          /\ [host EXCEPT !.spent = @ + 1].stage = host.stage
      BY <1>1 DEF Host
    <2> QED
      BY <1>1, <2>1 DEF LineChanges, Tick
  <1> QED
    BY <1>2, <1>3, <1>4, <1>5 DEF Next

(* What usb_replug.py prints is the answer to the command of this session,  *)
(* or to one that was under way when it was written, whichever tools were   *)
(* run before, with whatever time limits, and whatever was in the buffer.   *)
THEOREM OwnAnswerAlways == Spec => OwnAnswer
  <1>1. ASSUME IInv, [Next]_vars, Closes, host.tool = "usb_replug"
        PROVE  result'.answer \in {0, host.session} \cup host.ahead
    <2>1. CASE ReadLine
      <3>1. /\ host.stage = "reading" /\ input # <<>> /\ input \in Seq(Sessions)
            /\ result' = [session |-> host.session, answer |-> Head(input)]
        BY <1>1, <2>1 DEF ReadLine, Finish, IInv, TypeOK
      <3>2. 1 \in 1 .. Len(input) /\ Head(input) = input[1]
        BY <3>1
      <3>3. input[1] \in Mine
        BY <1>1, <3>1, <3>2 DEF IInv, AllMine, InputMine, HasWritten
      <3> QED
        BY <3>1, <3>2, <3>3 DEF Mine
    <2>2. CASE ReadTimesOut
      BY <2>2 DEF ReadTimesOut, Finish
    <2> QED
      BY <1>1, <2>1, <2>2, ClosedBy DEF IInv
  <1>2. IInv /\ [Next]_vars
          => [Closes /\ host.tool = "usb_replug"
                => result'.answer \in {0, host.session} \cup host.ahead]_vars
    BY <1>1
  <1> QED
    BY <1>2, SessionInvariant, PTL DEF Spec, OwnAnswer

(* usb_replug.py prints the answer of a command it writes to an idle dongle *)
(* on a line that stays up: of a cycle whatever its delay and --timeout     *)
(* (effective_timeout_s), as long as the margin that is added to the delay  *)
(* is longer than the settle times of target_on, and of any other command   *)
(* that takes less than --timeout.                                         *)
THEOREM EveryCommandReportedAlways == Spec => EveryCommandReported
  <1>1. ASSUME IInv, [Next]_vars, Closes, host.tool = "usb_replug", InTime,
               host.ahead = {}, ~host.failed
        PROVE  result'.answer = host.session
    <2>1. host.stage = "reading" /\ TypeOK /\ (OnItsWay \/ Working \/ Answering \/ Answered)
      BY <1>1 DEF Closes, IInv, Alone, Undelayed, HasWritten
    <2>2. CASE ReadLine
      <3>1. /\ input # <<>> /\ input \in Seq(Sessions)
            /\ result' = [session |-> host.session, answer |-> Head(input)]
        BY <2>1, <2>2 DEF ReadLine, Finish, TypeOK
      <3>2. Answered /\ Head(input) = input[1]
        BY <2>1, <3>1 DEF OnItsWay, Working, Answering
      <3> QED
        BY <3>1, <3>2 DEF Answered
    <2>3. CASE ReadTimesOut
      <3>1. host.spent \geq host.limit /\ input = <<>>
        BY <2>3 DEF ReadTimesOut, TimedOut
      <3>2. /\ Duration(host.command) < host.limit /\ Duration(host.command) \in Nat
            /\ host.spent \in Nat /\ host.limit \in Nat /\ device.left \in Nat
        BY <1>1, <2>1, SessionNumbers DEF IInv, Limited
      <3>3. ~Answered
        BY <3>1 DEF Answered
      <3>4. ~OnItsWay /\ ~Working /\ ~Answering
        BY <3>1, <3>2 DEF OnItsWay, Working, Answering
      <3> QED
        BY <2>1, <3>3, <3>4
    <2> QED
      BY <1>1, <2>1, <2>2, <2>3, ClosedBy
  <1>2. IInv /\ [Next]_vars
          => [Closes /\ host.tool = "usb_replug" /\ InTime /\ host.ahead = {} /\ ~host.failed
                => result'.answer = host.session]_vars
    BY <1>1
  <1> QED
    BY <1>2, SessionInvariant, PTL DEF Spec, EveryCommandReported

(* The places in a row.                                                    *)
LEMMA PendingInOrder == IInv => AnswersInOrder
  <1> SUFFICES ASSUME IInv
               PROVE  AnswersInOrder
    OBVIOUS
  <1> DEFINE atDevice == IF device.stage = "waiting" THEN <<>> ELSE <<device.session>>
             ahead == [i \in DOMAIN sent |-> sent[i].session]
             before == input \o atDevice
             a == Len(input)
             b == Len(atDevice)
             c == Len(sent)
  <1>1. TypeOK /\ input \in Seq(Sessions) /\ sent \in Seq(Sent)
    BY DEF IInv, TypeOK
  <1>2. /\ atDevice \in Seq(Sessions) /\ b \in {0, 1}
        /\ b = 1 => device.stage # "waiting" /\ atDevice[1] = device.session
    <2>1. device.session \in Sessions
      BY <1>1 DEF TypeOK, Dongle
    <2> QED
      BY <2>1
  <1>3. /\ ahead \in Seq(Sessions) /\ Len(ahead) = c /\ c \in Nat
        /\ \A i \in 1 .. c : ahead[i] = sent[i].session
    <2>1. \A i \in 1 .. Len(sent) : sent[i].session \in Sessions
      <3>1. \A i \in 1 .. Len(sent) : sent[i] \in Sent
        BY <1>1
      <3> QED
        BY <3>1 DEF Sent
    <2> QED
      BY <1>1, <2>1
  <1> HIDE DEF atDevice, ahead
  <1>4. /\ before \in Seq(Sessions) /\ Len(before) = a + b /\ a \in Nat
        /\ \A i \in 1 .. a + b : before[i] = IF i \leq a THEN input[i] ELSE atDevice[i - a]
    BY <1>1, <1>2, ConcatProperties
  <1> HIDE DEF before
  <1>5. /\ Pending = before \o ahead
        /\ Pending \in Seq(Sessions) /\ Len(Pending) = a + b + c
        /\ \A i \in 1 .. a + b + c :
             Pending[i] = IF i \leq a + b THEN before[i] ELSE ahead[i - (a + b)]
    <2>1. Pending = before \o ahead
      BY DEF Pending, before, atDevice, ahead
    <2>2. /\ before \o ahead \in Seq(Sessions)
          /\ Len(before \o ahead) = Len(before) + Len(ahead)
          /\ \A i \in 1 .. Len(before) + Len(ahead) :
               (before \o ahead)[i] = IF i \leq Len(before) THEN before[i]
                                      ELSE ahead[i - Len(before)]
      <3>1. before \in Seq(Sessions) /\ ahead \in Seq(Sessions)
        BY <1>3, <1>4
      <3> QED
        BY ONLY <3>1, ConcatProperties
    <2>3. Len(before) = a + b /\ Len(ahead) = c
      BY <1>3, <1>4
    <2> HIDE DEF a, b, c
    <2> QED
      BY <2>1, <2>2, <2>3
  <1> HIDE DEF a, b, c
  <1>6. \A i \in 1 .. a + b + c :
          \/ i \in 1 .. a /\ Pending[i] = input[i]
          \/ i = a + 1 /\ b = 1 /\ Pending[i] = device.session
          \/ i > a + b /\ i - (a + b) \in 1 .. c /\ Pending[i] = sent[i - (a + b)].session
    BY <1>2, <1>3, <1>4, <1>5
  <1>7. \A i, j \in 1 .. a + b + c : i < j => Pending[i] < Pending[j]
    <2> SUFFICES ASSUME NEW i \in 1 .. a + b + c, NEW j \in 1 .. a + b + c, i < j
                 PROVE  Pending[i] < Pending[j]
      OBVIOUS
    <2>1. CASE i \in 1 .. a /\ Pending[i] = input[i]
      BY <1>2, <1>6, <2>1 DEF a, c, IInv, Ordered, InputInOrder, DeviceInOrder, SentInOrder
    <2>2. CASE i = a + 1 /\ b = 1 /\ Pending[i] = device.session
      <3>1. \A k \in 1 .. c : device.session < sent[k].session
        BY <1>2, <2>2 DEF c, IInv, Ordered, DeviceInOrder
      <3>2. j - (a + b) \in 1 .. c /\ Pending[j] = sent[j - (a + b)].session
        BY <1>3, <1>4, <1>6, <2>2
      <3> QED
        BY <2>2, <3>1, <3>2
    <2>3. CASE i > a + b /\ i - (a + b) \in 1 .. c /\ Pending[i] = sent[i - (a + b)].session
      <3>1. \A k, l \in 1 .. c : k < l => sent[k].session < sent[l].session
        BY DEF c, IInv, Ordered, SentInOrder
      <3>2. j - (a + b) \in 1 .. c /\ Pending[j] = sent[j - (a + b)].session
        BY <1>2, <1>3, <1>4, <1>6, <2>3
      <3>3. i - (a + b) < j - (a + b)
        BY <1>2, <1>4
      <3> QED
        BY <2>3, <3>1, <3>2, <3>3
    <2> QED
      BY <1>6, <2>1, <2>2, <2>3
  <1>8. \A i \in 1 .. a + b + c : result.answer < Pending[i]
    BY <1>2, <1>6 DEF a, c, IInv, Ordered, InputInOrder, DeviceInOrder, SentInOrder
  <1>9. DOMAIN Pending = 1 .. a + b + c
    BY <1>5
  <1> QED
    BY <1>7, <1>8, <1>9 DEF AnswersInOrder

(* No answer is printed twice, and none after the answer of a later         *)
(* command, whatever both tools give up on and find in the buffer.         *)
THEOREM AnswersInOrderAlways == Spec => []AnswersInOrder
  BY PendingInOrder, SessionInvariant, PTL
=============================================================================
