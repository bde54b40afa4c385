------------------------- MODULE Application_proofs -------------------------
(***************************************************************************)
(* What a cycle leaves behind, for any readings the two drivers can give   *)
(* (-50 .. 255), any number of presses of up to nine digits, and any exit: *)
(* the five texts stand in their places and the LEDs follow the            *)
(* application's copy of them.                                             *)
(*                                                                         *)
(* The invariant follows a cycle by its steps: where cursor and line stand *)
(* before each message that matters, which texts have been written by then *)
(* and which LEDs toggled.  Texts are short enough that none reaches the   *)
(* place of another (Lengths, Apart): four glyphs, and the button alone on *)
(* its line.                                                               *)
(***************************************************************************)
EXTENDS Application, TLAPS

\* The steps of a cycle by number.
LEMMA CycleLength == Len(Cycle) = 32
BY DEF Cycle, Labels, Dht11Lines, Aht10Lines, ButtonLine, Readings, Saves

LEMMA LabelSteps ==
  /\ Cycle[1] = Cursor(5) /\ Cycle[2] = Line(0) /\ Cycle[3] = Message("DHT11")
  /\ Cycle[4] = Cursor(70) /\ Cycle[5] = Line(0) /\ Cycle[6] = Message("AHT10")
BY DEF Cycle, Labels, Dht11Lines, Aht10Lines, ButtonLine, Readings, Saves

LEMMA Dht11Steps ==
  /\ Cycle[7] = Cursor(5) /\ Cycle[8] = Line(2) /\ Cycle[9] = Message("dht11_temperature")
  /\ Cycle[10] = Line(4) /\ Cycle[11] = Cursor(5) /\ Cycle[12] = Message("dht11_humidity")
BY DEF Cycle, Labels, Dht11Lines, Aht10Lines, ButtonLine, Readings, Saves

LEMMA Aht10Steps ==
  /\ Cycle[13] = Cursor(70) /\ Cycle[14] = Line(2) /\ Cycle[15] = Message("aht10_temperature")
  /\ Cycle[16] = Line(4) /\ Cycle[17] = Cursor(70) /\ Cycle[18] = Message("aht10_humidity")
BY DEF Cycle, Labels, Dht11Lines, Aht10Lines, ButtonLine, Readings, Saves

LEMMA ButtonSteps ==
  Cycle[19] = Line(6) /\ Cycle[20] = Cursor(40) /\ Cycle[21] = Message("button_push")
BY DEF Cycle, Labels, Dht11Lines, Aht10Lines, ButtonLine, Readings, Saves

LEMMA SensorSteps ==
  /\ Cycle[22] = [do |-> "update"]
  /\ Cycle[23] = Get("dht11_temperature") /\ Cycle[24] = Get("dht11_humidity")
  /\ Cycle[25] = Get("aht10_temperature") /\ Cycle[26] = Get("aht10_humidity")
BY DEF Cycle, Labels, Dht11Lines, Aht10Lines, ButtonLine, Readings, Saves

LEMMA LastSteps ==
  /\ Cycle[27] = Toggle("led1") /\ Cycle[28] = Toggle("led2")
  /\ Cycle[29].do = "save" /\ Cycle[30].do = "save"
  /\ Cycle[31].do = "save" /\ Cycle[32].do = "save"
BY DEF Cycle, Labels, Dht11Lines, Aht10Lines, ButtonLine, Readings, Saves, Save

LEMMA Kinds ==
  ASSUME NEW n \in 1 .. 32
  PROVE  /\ Cycle[n].do = "cursor"  => n \in {1, 4, 7, 11, 13, 17, 20}
         /\ Cycle[n].do = "line"    => n \in {2, 5, 8, 10, 14, 16, 19}
         /\ Cycle[n].do = "message" => n \in {3, 6, 9, 12, 15, 18, 21}
         /\ Cycle[n].do = "update"  => n = 22
         /\ Cycle[n].do = "get"     => n \in {23, 24, 25, 26}
         /\ Cycle[n].do = "toggle"  => n \in {27, 28}
         /\ Cycle[n].do = "save"    => n \in {29, 30, 31, 32}
<1>1. CASE n \in 1 .. 6
  BY <1>1, LabelSteps DEF Cursor, Line, Message
<1>2. CASE n \in 7 .. 12
  BY <1>2, Dht11Steps DEF Cursor, Line, Message
<1>3. CASE n \in 13 .. 18
  BY <1>3, Aht10Steps DEF Cursor, Line, Message
<1>4. CASE n \in 19 .. 21
  BY <1>4, ButtonSteps DEF Cursor, Line, Message
<1>5. CASE n \in 22 .. 26
  BY <1>5, SensorSteps DEF Get
<1>6. CASE n \in 27 .. 32
  BY <1>6, LastSteps DEF Toggle
<1> QED BY <1>1, <1>2, <1>3, <1>4, <1>5, <1>6
-----------------------------------------------------------------------------
Texts == Sensors \cup {"button_push"}

\* The step of the cycle at which a text is written.
WrittenAt ==
  [ dht11_temperature |-> 9, dht11_humidity |-> 12, aht10_temperature |-> 15,
    aht10_humidity |-> 18, button_push |-> 21 ]

\* A text stands at its place.
InPlace(s) ==
  \A k \in 1 .. Len(text[s]) :
    Glyph(s, k) \in DOMAIN screen /\ screen[Glyph(s, k)] = text[s][k]

\* A reading has three digits, or two and a sign, and a unit at most; the
\* presses have nine.
Longest(s) == IF s = "button_push" THEN 9 ELSE 4

Lengths == DOMAIN text = Texts /\ \A s \in Texts : Len(text[s]) \in 0 .. Longest(s)

\* Where cursor and line stand before the steps that use them.
Position ==
  at = "cycle" =>
    /\ step \in {8, 9, 12} => cursor = 5
    /\ step \in {14, 15, 18} => cursor = 70
    /\ step = 21 => cursor = 40
    /\ step \in {9, 15} => line = 2
    /\ step \in {11, 12, 17, 18} => line = 4
    /\ step \in {20, 21} => line = 6

\* The texts and the LEDs this cycle has been at so far.
TextsSoFar == at = "cycle" => \A s \in Texts : step > WrittenAt[s] => InPlace(s)

LedsSoFar ==
  at = "cycle" => /\ step > 27 => led["led1"] = shadow["led1"]
                  /\ step > 28 => led["led2"] = shadow["led2"]

\* Between cycles, all of them; before the first, nothing has been saved.
Rested ==
  /\ at = "wait" => \/ saved = <<>>
                    \/ (\A s \in Texts : InPlace(s)) /\ \A l \in Leds : led[l] = shadow[l]
  /\ at \in {"timer", "signal", "clear", "register"} => saved = <<>>

Typed == TypeOK /\ step \in 1 .. 33 /\ Lengths

IInv == Typed /\ Position /\ TextsSoFar /\ LedsSoFar /\ Rested
-----------------------------------------------------------------------------
LEMMA MostShownBound == MostShown \in Nat /\ 255 < MostShown
BY SMT DEF MostShown

LEMMA NineDigits == MostShown < 1000000000
BY SMT DEF MostShown

\* The power of ten that a number of up to nine digits begins with.
LEMMA WidthBound ==
  ASSUME NEW n \in 0 .. MostShown
  PROVE  Width(n) \in 1 .. 9 /\ (n <= 255 => Width(n) \in 1 .. 3) /\ (n <= 50 => Width(n) \in 1 .. 2)
<1> DEFINE Fits(k) == n < 10 * Powers[k] /\ (k = 1 \/ Powers[k] <= n)
<1>1. /\ Powers[1] = 1 /\ Powers[2] = 10 /\ Powers[3] = 100 /\ Powers[4] = 1000
      /\ Powers[5] = 10000 /\ Powers[6] = 100000 /\ Powers[7] = 1000000
      /\ Powers[8] = 10000000 /\ Powers[9] = 100000000
  BY SMT DEF Powers
<1>2. \E k \in 1 .. 9 : Fits(k)
  <2>0. n < 1000000000
    BY MostShownBound, NineDigits, SMT
  <2>1. CASE n < 10
    BY <1>1, <2>1, SMT
  <2>2. CASE 10 <= n /\ n < 100
    BY <1>1, <2>2, SMT
  <2>3. CASE 100 <= n /\ n < 1000
    BY <1>1, <2>3, SMT
  <2>4. CASE 1000 <= n /\ n < 10000
    BY <1>1, <2>4, SMT
  <2>5. CASE 10000 <= n /\ n < 100000
    BY <1>1, <2>5, SMT
  <2>6. CASE 100000 <= n /\ n < 1000000
    BY <1>1, <2>6, SMT
  <2>7. CASE 1000000 <= n /\ n < 10000000
    BY <1>1, <2>7, SMT
  <2>8. CASE 10000000 <= n /\ n < 100000000
    BY <1>1, <2>8, SMT
  <2>9. CASE 100000000 <= n
    BY <1>1, <2>0, <2>9, SMT
  <2> QED BY <2>1, <2>2, <2>3, <2>4, <2>5, <2>6, <2>7, <2>8, <2>9, SMT
<1>3. Width(n) = CHOOSE k \in 1 .. 9 : Fits(k)
  BY DEF Width
<1>4. Width(n) \in 1 .. 9 /\ Fits(Width(n))
  <2> HIDE DEF Fits
  <2> QED BY <1>2, <1>3, Zenon
<1> DEFINE w == Width(n)
<1>5. w \in 1 .. 9 /\ (w = 1 \/ Powers[w] <= n)
  BY <1>4
<1> HIDE DEF w
<1>6. ASSUME n <= 255 PROVE w \in 1 .. 3
  <2>1. \A k \in 4 .. 9 : Powers[k] \in Int /\ Powers[k] >= 1000
    BY <1>1, SMT
  <2>2. CASE w \in 4 .. 9
    <3> DEFINE p == Powers[w]
    <3>1. w # 1 /\ p \in Int /\ p >= 1000
      BY <2>1, <2>2, SMT
    <3>2. p <= n
      BY <1>5, <3>1, Zenon
    <3>3. n \in Int
      BY MostShownBound, SMT
    <3> HIDE DEF p
    <3> QED BY <1>6, <3>1, <3>2, <3>3, SMT
  <2>3. CASE w \notin 4 .. 9
    BY <1>5, <2>3, SMT
  <2> QED BY <2>2, <2>3, Zenon
<1>7. ASSUME n <= 50 PROVE w \in 1 .. 2
  <2>1. \A k \in 3 .. 9 : Powers[k] \in Int /\ Powers[k] >= 100
    BY <1>1, SMT
  <2>2. CASE w \in 3 .. 9
    <3> DEFINE p == Powers[w]
    <3>1. w # 1 /\ p \in Int /\ p >= 100
      BY <2>1, <2>2, SMT
    <3>2. p <= n
      BY <1>5, <3>1, Zenon
    <3>3. n \in Int
      BY MostShownBound, SMT
    <3> HIDE DEF p
    <3> QED BY <1>7, <3>1, <3>2, <3>3, SMT
  <2>3. CASE w \notin 3 .. 9
    BY <1>5, <2>3, SMT
  <2> QED BY <2>2, <2>3, Zenon
<1> QED BY <1>5, <1>6, <1>7 DEF w

LEMMA DigitsLength ==
  ASSUME NEW n \in 0 .. MostShown
  PROVE  Digits(n) \in Seq({Digits(n)[i] : i \in 1 .. Width(n)}) /\ Len(Digits(n)) = Width(n)
<1>1. Width(n) \in Nat
  BY WidthBound
<1> DEFINE w == Width(n)
           d(i) == Digit((n \div Powers[w - i + 1]) % 10)
<1>2. Digits(n) = [i \in 1 .. w |-> d(i)]
  BY DEF Digits
<1> HIDE DEF d, w
<1>3. w \in Nat
  BY <1>1 DEF w
<1> QED BY <1>2, <1>3 DEF w

\* The text of a reading.
LEMMA ReadingLength ==
  ASSUME NEW s \in Sensors, data[s] \in -50 .. 255
  PROVE  Len(Reading(s)) \in 0 .. 4
<1> DEFINE n == IF data[s] < 0 THEN -data[s] ELSE data[s]
           D == Digits(n)
           S == {D[i] : i \in 1 .. Width(n)} \cup {"-", Unit(s)}
<1>1. /\ n \in 0 .. MostShown /\ n <= 255
      /\ data[s] < 0 => n <= 50
  <2> DEFINE d == data[s]
  <2>1. d \in -50 .. 255
    OBVIOUS
  <2>2. n = IF d < 0 THEN -d ELSE d
    OBVIOUS
  <2> HIDE DEF d, n
  <2>3. /\ n \in 0 .. MostShown /\ n <= 255
        /\ d < 0 => n <= 50
    BY <2>1, <2>2, MostShownBound, SMT
  <2> QED BY <2>3, Zenon DEF d
<1>2. Width(n) \in 1 .. 3 /\ (data[s] < 0 => Width(n) \in 1 .. 2)
  <2> HIDE DEF n
  <2> QED BY <1>1, WidthBound
<1>3. D \in Seq(S) /\ Len(D) = Width(n)
  <2> HIDE DEF n
  <2>1. D \in Seq({D[i] : i \in 1 .. Width(n)}) /\ Len(D) = Width(n)
    BY <1>1, DigitsLength
  <2> HIDE DEF D
  <2> QED BY <2>1
<1>4. /\ <<"-">> \in Seq(S) /\ Len(<<"-">>) = 1
      /\ <<Unit(s)>> \in Seq(S) /\ Len(<<Unit(s)>>) = 1
  OBVIOUS
<1>5. Reading(s) = (IF data[s] < 0 THEN <<"-">> \o D ELSE D) \o <<Unit(s)>>
  BY DEF Reading
<1> HIDE DEF D, S, n
<1>6. \A a, b \in Seq(S) : a \o b \in Seq(S) /\ Len(a \o b) = Len(a) + Len(b)
  OBVIOUS
<1>7. CASE data[s] < 0
  <2>1. <<"-">> \o D \in Seq(S) /\ Len(<<"-">> \o D) = 1 + Len(D)
    BY <1>3, <1>4, <1>6
  <2>2. Len(Reading(s)) = 2 + Len(D)
    <3>1. Len(Reading(s)) = Len(<<"-">> \o D) + 1
      BY <1>4, <1>5, <1>6, <1>7, <2>1, Zenon
    <3> QED BY <1>2, <1>3, <2>1, <3>1
  <2> QED BY <1>2, <1>3, <1>7, <2>2
<1>8. CASE ~(data[s] < 0)
  <2>1. Len(Reading(s)) = Len(D) + 1
    BY <1>3, <1>4, <1>5, <1>6, <1>8, Zenon
  <2> QED BY <1>2, <1>3, <2>1
<1> QED BY <1>7, <1>8

\* No two texts share a glyph's place.
LEMMA Apart ==
  ASSUME NEW s \in Texts, NEW r \in Texts, s # r,
         NEW j \in 1 .. Longest(s), NEW k \in 1 .. Longest(r)
  PROVE  Glyph(s, j) # Glyph(r, k)
<1>1. CASE s = "button_push" \/ r = "button_push"
  BY <1>1 DEF Texts, Sensors, Glyph, Place
<1>2. CASE s # "button_push" /\ r # "button_push"
  <2>1. j \in 1 .. 4 /\ k \in 1 .. 4
    BY <1>2 DEF Longest
  <2> QED BY <1>2, <2>1 DEF Texts, Sensors, Glyph, Place, Column
<1> QED BY <1>1, <1>2

\* Written from its place, a text stands there and covers no other.
LEMMA MessageWrites ==
  ASSUME NEW s \in Texts, SendMessage, Cycle[step] = Message(s), Lengths,
         line = Place[s][1], cursor = Place[s][2]
  PROVE  InPlace(s)' /\ \A r \in Texts \ {s} : InPlace(r) => InPlace(r)'
<1> DEFINE t == text[s]
           cells == {<<line, Column(cursor, k)>> : k \in 1 .. Len(t)}
<1>1. Named(Arg) = t
  BY DEF Named, Arg, Message, Texts, Sensors
<1>2. screen' = [c \in DOMAIN screen \cup cells |->
                   IF c \in cells THEN t[(c[2] - cursor) \div 6 + 1] ELSE screen[c]]
  BY <1>1 DEF SendMessage
<1>3. text' = text
  BY DEF SendMessage, Proceed
<1>4. Len(t) \in 0 .. Longest(s) /\ \A r \in Texts : Len(text[r]) \in 0 .. Longest(r)
  BY DEF Lengths
<1>5. cells = {Glyph(s, k) : k \in 1 .. Len(t)}
  BY DEF Glyph
<1>6. cursor \in Int
  BY DEF Place, Texts, Sensors
<1>7. ASSUME NEW k \in 1 .. Len(t)
      PROVE  Glyph(s, k) \in DOMAIN screen' /\ screen'[Glyph(s, k)] = t[k]
  <2>1. Glyph(s, k) \in cells
    BY <1>5
  <2>2. (Glyph(s, k)[2] - cursor) \div 6 + 1 = k
    <3>1. Glyph(s, k)[2] = cursor + 6 * (k - 1)
      BY DEF Glyph, Column
    <3>2. (Glyph(s, k)[2] - cursor) \div 6 = k - 1
      <4> DEFINE g == Glyph(s, k)[2]
      <4>1. g = cursor + 6 * (k - 1) /\ k \in Int
        BY <3>1
      <4> HIDE DEF g
      <4>2. g - cursor = 6 * (k - 1)
        BY <1>6, <4>1, SMT
      <4>3. (6 * (k - 1)) \div 6 = k - 1
        BY <4>1, SMT
      <4> QED BY <4>2, <4>3, Zenon DEF g
    <3> QED BY <3>2, SMT
  <2> QED BY <2>1, <2>2, <1>2, Zenon
<1>8. ASSUME NEW r \in Texts \ {s}, InPlace(r), NEW k \in 1 .. Len(text[r])
      PROVE  Glyph(r, k) \in DOMAIN screen' /\ screen'[Glyph(r, k)] = text[r][k]
  <2>1. Glyph(r, k) \in DOMAIN screen /\ screen[Glyph(r, k)] = text[r][k]
    BY <1>8, Zenon DEF InPlace
  <2>2. k \in 1 .. Longest(r) /\ \A j \in 1 .. Len(t) : j \in 1 .. Longest(s)
    <3>1. \A x \in Texts : Longest(x) \in Nat
      BY DEF Longest
    <3>2. Len(text[r]) \in 0 .. Longest(r)
      BY <1>4
    <3> HIDE DEF t
    <3> QED BY <1>4, <3>1, <3>2
  <2>3. Glyph(r, k) \notin cells
    BY <1>5, <2>2, Apart, Zenon
  <2> QED BY <2>1, <2>3, <1>2, Zenon
<1> QED BY <1>3, <1>7, <1>8, Zenon DEF InPlace, Glyph

LEMMA Unwritten ==
  ASSUME UNCHANGED <<text, screen>>
  PROVE  \A s \in Texts : InPlace(s) => InPlace(s)'
BY Zenon DEF InPlace, Glyph

LEMMA Stepping ==
  ASSUME Typed, at = "cycle", step <= Len(Cycle)
  PROVE  step \in 1 .. 32
BY CycleLength DEF Typed

LEMMA InitInv == Init => IInv
<1> SUFFICES ASSUME Init PROVE IInv
  OBVIOUS
<1>1. TypeOK
  <2>1. /\ at = "timer" /\ step = 1 /\ flag = FALSE /\ button_push = 0
        /\ led \in [Leds -> BOOLEAN]
    BY Zenon DEF Init
  <2>2. step \in 1 .. Len(Cycle) + 1
    BY <2>1, CycleLength
  <2>3. data \in [Sensors -> Values \cup {0}]
    BY DEF Init
  <2>4. shadow \in [Leds -> BOOLEAN]
    BY Zenon DEF Init
  <2>5. button_push \in 0 .. MaxPresses
    BY <2>1, ApplicationAssumption DEF ApplicationAssumption
  <2> QED BY <2>1, <2>2, <2>3, <2>4, <2>5, Zenon DEF TypeOK
<1>2. Lengths
  <2>1. \A s \in Texts : Len(<<>>) \in 0 .. Longest(s)
    BY DEF Longest
  <2> QED BY <2>1, Zenon DEF Init, Lengths, Texts
<1>3. step \in 1 .. 33
  BY DEF Init
<1> QED BY <1>1, <1>2, <1>3, Zenon DEF Init, IInv, Typed, Position, TextsSoFar, LedsSoFar, Rested

\* What every step of the cycle does to the rest.
LEMMA StepTyped ==
  ASSUME Typed, at = "cycle", step <= Len(Cycle), Proceed
  PROVE  /\ at' = at /\ step \in 1 .. 32 /\ step' = step + 1 /\ step' \in 1 .. 33
         /\ step' \in 1 .. Len(Cycle) + 1
         /\ flag' \in BOOLEAN /\ button_push' \in 0 .. MaxPresses
         /\ Lengths'
<1>1. step \in 1 .. 32 /\ step' = step + 1
  BY Stepping, Zenon DEF Proceed
<1>2. step' \in 1 .. 33 /\ step' \in 1 .. Len(Cycle) + 1
  BY <1>1, CycleLength
<1> QED BY <1>1, <1>2, Zenon DEF Proceed, Typed, TypeOK, Lengths

LEMMA CursorStep == IInv /\ SendCursorPos => IInv'
<1> SUFFICES ASSUME IInv, SendCursorPos PROVE IInv'
  OBVIOUS
<1>1. at = "cycle" /\ step <= Len(Cycle) /\ Cycle[step].do = "cursor" /\ Proceed
  BY Zenon DEF SendCursorPos, Doing
<1>2. /\ at' = "cycle" /\ step \in 1 .. 32 /\ step' = step + 1 /\ Typed'
  BY <1>1, StepTyped, Zenon DEF IInv, Typed, TypeOK, SendCursorPos
<1>3. step \in {1, 4, 7, 11, 13, 17, 20}
  BY <1>1, <1>2, Kinds, Zenon
<1>4. Position'
  <2>1. cursor' = Cycle[step].arg /\ line' = line
    BY Zenon DEF SendCursorPos, Arg
  <2>2. /\ Cycle[7].arg = 5 /\ Cycle[11].arg = 5 /\ Cycle[13].arg = 70
        /\ Cycle[17].arg = 70 /\ Cycle[20].arg = 40
    BY Dht11Steps, Aht10Steps, ButtonSteps DEF Cursor
  <2>3. /\ step = 11 => line = 4
        /\ step = 17 => line = 4
        /\ step = 20 => line = 6
    BY <1>1 DEF IInv, Position
  <2> QED BY <1>2, <1>3, <2>1, <2>2, <2>3 DEF Position
<1>5. TextsSoFar'
  <2>1. \A s \in Texts : step' > WrittenAt[s] => step > WrittenAt[s]
    BY <1>2, <1>3 DEF WrittenAt, Texts, Sensors
  <2>2. UNCHANGED <<text, screen>>
    BY <1>1, Zenon DEF SendCursorPos, Proceed
  <2> QED BY <1>1, <2>1, <2>2, Unwritten, Zenon DEF IInv, TextsSoFar
<1>6. LedsSoFar' /\ Rested'
  <2>1. ~(step' > 27) /\ ~(step' > 28)
    BY <1>2, <1>3
  <2> QED BY <1>2, <2>1, Zenon DEF LedsSoFar, Rested
<1> QED BY <1>2, <1>4, <1>5, <1>6, Zenon DEF IInv

LEMMA LineStep == IInv /\ SendLineNum => IInv'
<1> SUFFICES ASSUME IInv, SendLineNum PROVE IInv'
  OBVIOUS
<1>1. at = "cycle" /\ step <= Len(Cycle) /\ Cycle[step].do = "line" /\ Proceed
  BY Zenon DEF SendLineNum, Doing
<1>2. /\ at' = "cycle" /\ step \in 1 .. 32 /\ step' = step + 1 /\ Typed'
  BY <1>1, StepTyped, Zenon DEF IInv, Typed, TypeOK, SendLineNum
<1>3. step \in {2, 5, 8, 10, 14, 16, 19}
  BY <1>1, <1>2, Kinds, Zenon
<1>4. Position'
  <2>1. line' = Cycle[step].arg /\ cursor' = cursor
    BY Zenon DEF SendLineNum, Arg
  <2>2. /\ Cycle[8].arg = 2 /\ Cycle[10].arg = 4 /\ Cycle[14].arg = 2
        /\ Cycle[16].arg = 4 /\ Cycle[19].arg = 6
    BY Dht11Steps, Aht10Steps, ButtonSteps DEF Line
  <2>3. (step = 8 => cursor = 5) /\ (step = 14 => cursor = 70)
    BY <1>1 DEF IInv, Position
  <2> QED BY <1>2, <1>3, <2>1, <2>2, <2>3 DEF Position
<1>5. TextsSoFar'
  <2>1. \A s \in Texts : step' > WrittenAt[s] => step > WrittenAt[s]
    BY <1>2, <1>3 DEF WrittenAt, Texts, Sensors
  <2>2. UNCHANGED <<text, screen>>
    BY <1>1, Zenon DEF SendLineNum, Proceed
  <2> QED BY <1>1, <2>1, <2>2, Unwritten, Zenon DEF IInv, TextsSoFar
<1>6. LedsSoFar' /\ Rested'
  <2>1. ~(step' > 27) /\ ~(step' > 28)
    BY <1>2, <1>3
  <2> QED BY <1>2, <2>1, Zenon DEF LedsSoFar, Rested
<1> QED BY <1>2, <1>4, <1>5, <1>6, Zenon DEF IInv

\* Cursor and line are at a text's place when it is written.
LEMMA MessageAt ==
  ASSUME Position, at = "cycle", NEW s \in Texts, step = WrittenAt[s]
  PROVE  /\ Cycle[step] = Message(s)
         /\ line = Place[s][1] /\ cursor = Place[s][2]
<1>1. CASE s = "dht11_temperature"
  BY <1>1, Dht11Steps DEF WrittenAt, Place, Position
<1>2. CASE s = "dht11_humidity"
  BY <1>2, Dht11Steps DEF WrittenAt, Place, Position
<1>3. CASE s = "aht10_temperature"
  BY <1>3, Aht10Steps DEF WrittenAt, Place, Position
<1>4. CASE s = "aht10_humidity"
  BY <1>4, Aht10Steps DEF WrittenAt, Place, Position
<1>5. CASE s = "button_push"
  BY <1>5, ButtonSteps DEF WrittenAt, Place, Position
<1> QED BY <1>1, <1>2, <1>3, <1>4, <1>5, Zenon DEF Texts, Sensors

LEMMA MessageStep == IInv /\ SendMessage => IInv'
<1> SUFFICES ASSUME IInv, SendMessage PROVE IInv'
  OBVIOUS
<1>1. at = "cycle" /\ step <= Len(Cycle) /\ Cycle[step].do = "message" /\ Proceed
  BY Zenon DEF SendMessage, Doing
<1>2. /\ at' = "cycle" /\ step \in 1 .. 32 /\ step' = step + 1 /\ Typed'
  BY <1>1, StepTyped, Zenon DEF IInv, Typed, TypeOK, SendMessage
<1>3. step \in {3, 6, 9, 12, 15, 18, 21}
  BY <1>1, <1>2, Kinds, Zenon
<1>4. Position'
  <2>1. line' = line
    BY Zenon DEF SendMessage
  <2> QED BY <1>2, <1>3, <2>1 DEF Position
<1>5. TextsSoFar'
  <2>1. CASE step \in {3, 6}
    <3>1. \A s \in Texts : ~(step' > WrittenAt[s])
      BY <1>2, <2>1 DEF WrittenAt, Texts, Sensors
    <3> QED BY <3>1, Zenon DEF TextsSoFar
  <2>2. CASE step \in {9, 12, 15, 18, 21}
    <3>1. PICK s \in Texts : step = WrittenAt[s]
      BY <2>2 DEF WrittenAt, Texts, Sensors
    <3>2. /\ Cycle[step] = Message(s)
          /\ line = Place[s][1] /\ cursor = Place[s][2]
      BY <1>1, <3>1, MessageAt, Zenon DEF IInv
    <3>3. InPlace(s)' /\ \A r \in Texts \ {s} : InPlace(r) => InPlace(r)'
      BY <3>2, MessageWrites, Zenon DEF IInv, Typed
    <3>4. \A r \in Texts \ {s} : step' > WrittenAt[r] => step > WrittenAt[r]
      BY <1>2, <2>2, <3>1 DEF WrittenAt, Texts, Sensors
    <3> QED BY <1>1, <3>3, <3>4, Zenon DEF IInv, TextsSoFar
  <2> QED BY <1>3, <2>1, <2>2, Zenon
<1>6. LedsSoFar' /\ Rested'
  <2>1. ~(step' > 27) /\ ~(step' > 28)
    BY <1>2, <1>3
  <2> QED BY <1>2, <2>1, Zenon DEF LedsSoFar, Rested
<1> QED BY <1>2, <1>4, <1>5, <1>6, Zenon DEF IInv

\* From step 22 on, nothing is written on the display.
LEMMA AfterTexts ==
  ASSUME IInv, at = "cycle", at' = "cycle", step \in 22 .. 32, step' = step + 1,
         UNCHANGED <<text, screen>>
  PROVE  Position' /\ TextsSoFar' /\ Rested'
<1>1. Position'
  BY DEF Position
<1>2. \A s \in Texts : step > WrittenAt[s]
  BY DEF WrittenAt, Texts, Sensors
<1>3. TextsSoFar'
  BY <1>2, Unwritten, Zenon DEF IInv, TextsSoFar
<1> QED BY <1>1, <1>3, Zenon DEF Rested

LEMMA UpdateStep == IInv /\ ReadUpdate => IInv'
<1> SUFFICES ASSUME IInv, ReadUpdate PROVE IInv'
  OBVIOUS
<1>1. at = "cycle" /\ step <= Len(Cycle) /\ Cycle[step].do = "update" /\ Proceed
  BY Zenon DEF ReadUpdate, Doing
<1>2. /\ at' = "cycle" /\ step \in 1 .. 32 /\ step' = step + 1 /\ Typed'
  BY <1>1, StepTyped, Zenon DEF IInv, Typed, TypeOK, ReadUpdate
<1>3. step = 22
  BY <1>1, <1>2, Kinds, Zenon
<1>4. Position' /\ TextsSoFar' /\ Rested'
  <2>1. UNCHANGED <<text, screen>>
    BY <1>1, Zenon DEF ReadUpdate, Proceed, display
  <2>2. step \in 22 .. 32
    BY <1>3
  <2> QED BY <1>1, <1>2, <2>1, <2>2, AfterTexts, Zenon
<1>5. LedsSoFar'
  <2>1. ~(step' > 27) /\ ~(step' > 28)
    BY <1>2, <1>3
  <2> QED BY <2>1, Zenon DEF LedsSoFar
<1> QED BY <1>2, <1>4, <1>5, Zenon DEF IInv

LEMMA SensorStep == IInv /\ ReadSensor => IInv'
<1> SUFFICES ASSUME IInv, ReadSensor PROVE IInv'
  OBVIOUS
<1>1. at = "cycle" /\ step <= Len(Cycle) /\ Cycle[step].do = "get" /\ Proceed
  BY Zenon DEF ReadSensor, Doing
<1>2. /\ at' = "cycle" /\ step \in 1 .. 32 /\ step' = step + 1 /\ Typed'
  <2>1. data' \in [Sensors -> Values \cup {0}]
    <3>1. PICK v \in Values : data' = [data EXCEPT ![Arg] = v]
      BY Zenon DEF ReadSensor
    <3> QED BY <3>1, Zenon DEF IInv, Typed, TypeOK
  <2> QED BY <1>1, <2>1, StepTyped, Zenon DEF IInv, Typed, TypeOK, ReadSensor
<1>3. step \in {23, 24, 25, 26}
  BY <1>1, <1>2, Kinds, Zenon
<1>4. Position' /\ TextsSoFar' /\ Rested'
  <2>1. UNCHANGED <<text, screen>>
    BY <1>1, Zenon DEF ReadSensor, Proceed, display
  <2>2. step \in 22 .. 32
    BY <1>3
  <2> QED BY <1>1, <1>2, <2>1, <2>2, AfterTexts, Zenon
<1>5. LedsSoFar'
  <2>1. ~(step' > 27) /\ ~(step' > 28)
    BY <1>2, <1>3
  <2> QED BY <2>1, Zenon DEF LedsSoFar
<1> QED BY <1>2, <1>4, <1>5, Zenon DEF IInv

LEMMA ToggleStep == IInv /\ LedToggle => IInv'
<1> SUFFICES ASSUME IInv, LedToggle PROVE IInv'
  OBVIOUS
<1>1. at = "cycle" /\ step <= Len(Cycle) /\ Cycle[step].do = "toggle" /\ Proceed
  BY Zenon DEF LedToggle, Doing
<1>2. /\ led' = [led EXCEPT ![Arg] = ~shadow[Arg]] /\ shadow' = [shadow EXCEPT ![Arg] = ~@]
      /\ led \in [Leds -> BOOLEAN] /\ shadow \in [Leds -> BOOLEAN]
  BY Zenon DEF LedToggle, IInv, Typed, TypeOK
<1>3. /\ at' = "cycle" /\ step \in 1 .. 32 /\ step' = step + 1 /\ Typed'
  <2>1. led' \in [Leds -> BOOLEAN] /\ shadow' \in [Leds -> BOOLEAN]
    BY <1>2, Zenon
  <2> QED BY <1>1, <2>1, StepTyped, Zenon DEF IInv, Typed, TypeOK, LedToggle
<1>4. step \in {27, 28}
  BY <1>1, <1>3, Kinds, Zenon
<1>5. Position' /\ TextsSoFar' /\ Rested'
  <2>1. UNCHANGED <<text, screen>>
    BY <1>1, Zenon DEF LedToggle, Proceed, display
  <2>2. step \in 22 .. 32
    BY <1>4
  <2> QED BY <1>1, <1>3, <2>1, <2>2, AfterTexts, Zenon
<1>6. LedsSoFar'
  <2>1. (step = 27 => Arg = "led1") /\ (step = 28 => Arg = "led2")
    BY LastSteps DEF Arg, Toggle
  <2>2. "led1" \in Leds /\ "led2" \in Leds /\ "led1" # "led2"
    BY DEF Leds
  <2>3. CASE step = 27
    <3>1. led'["led1"] = shadow'["led1"]
      BY <1>2, <2>1, <2>2, <2>3, Zenon
    <3>2. ~(step' > 28)
      BY <1>3, <2>3
    <3> QED BY <3>1, <3>2, Zenon DEF LedsSoFar
  <2>4. CASE step = 28
    <3>1. led'["led2"] = shadow'["led2"]
      BY <1>2, <2>1, <2>2, <2>4, Zenon
    <3>2. led["led1"] = shadow["led1"]
      BY <1>1, <2>4 DEF IInv, LedsSoFar
    <3>3. led'["led1"] = shadow'["led1"]
      BY <1>2, <2>1, <2>2, <2>4, <3>2, Zenon
    <3> QED BY <3>1, <3>3, Zenon DEF LedsSoFar
  <2> QED BY <1>4, <2>3, <2>4, Zenon
<1> QED BY <1>3, <1>5, <1>6, Zenon DEF IInv

LEMMA SaveStep == IInv /\ WriteAt24c64 => IInv'
<1> SUFFICES ASSUME IInv, WriteAt24c64 PROVE IInv'
  OBVIOUS
<1>1. at = "cycle" /\ step <= Len(Cycle) /\ Cycle[step].do = "save" /\ Proceed
  BY Zenon DEF WriteAt24c64, Doing
<1>2. /\ at' = "cycle" /\ step \in 1 .. 32 /\ step' = step + 1 /\ Typed'
  BY <1>1, StepTyped, Zenon DEF IInv, Typed, TypeOK, WriteAt24c64
<1>3. step \in {29, 30, 31, 32}
  BY <1>1, <1>2, Kinds, Zenon
<1>4. Position' /\ TextsSoFar' /\ Rested'
  <2>1. UNCHANGED <<text, screen>>
    BY <1>1, Zenon DEF WriteAt24c64, Proceed, display
  <2>2. step \in 22 .. 32
    BY <1>3
  <2> QED BY <1>1, <1>2, <2>1, <2>2, AfterTexts, Zenon
<1>5. LedsSoFar'
  <2>1. step > 27 /\ step > 28
    BY <1>3
  <2> QED BY <1>1, <2>1, Zenon DEF WriteAt24c64, IInv, LedsSoFar
<1> QED BY <1>2, <1>4, <1>5, Zenon DEF IInv
-----------------------------------------------------------------------------
LEMMA StartInv == IInv /\ StartCycle => IInv'
<1> SUFFICES ASSUME IInv, StartCycle PROVE IInv'
  OBVIOUS
<1>1. /\ at' = "cycle" /\ step' = 1
      /\ text' = [s \in Texts |->
                    IF s = "button_push" THEN Digits(button_push) ELSE Reading(s)]
      /\ UNCHANGED <<flag, button_push, data, display, shadow, led, saved>>
  BY Zenon DEF StartCycle, Texts
<1>2. Typed'
  <2>1. Lengths'
    <3>1. button_push \in 0 .. MostShown /\ \A s \in Sensors : data[s] \in -50 .. 255
      <4>1. /\ button_push \in 0 .. MaxPresses /\ data \in [Sensors -> Values \cup {0}]
            /\ MaxPresses \in 0 .. MostShown /\ Values \subseteq -50 .. 255
        BY ApplicationAssumption, Zenon DEF ApplicationAssumption, IInv, Typed, TypeOK
      <4>2. button_push \in 0 .. MostShown
        <5> DEFINE b == button_push
        <5>1. b \in 0 .. MaxPresses /\ MaxPresses \in 0 .. MostShown /\ MostShown \in Nat
          BY <4>1, MostShownBound, Zenon
        <5> HIDE DEF b
        <5>2. b \in 0 .. MostShown
          BY <5>1, SMT
        <5> QED BY <5>2 DEF b
      <4>3. \A v \in Values \cup {0} : v \in -50 .. 255
        BY <4>1
      <4> QED BY <4>1, <4>2, <4>3, Zenon
    <3>2. \A s \in Sensors : Len(Reading(s)) \in 0 .. 4
      BY <3>1, ReadingLength, Zenon
    <3>3. Len(Digits(button_push)) \in 0 .. 9
      <4>1. Len(Digits(button_push)) \in 1 .. 9
        BY <3>1, DigitsLength, WidthBound, Zenon
      <4> QED BY <4>1
    <3>4. ASSUME NEW s \in Texts PROVE Len(text'[s]) \in 0 .. Longest(s)
      <4>1. CASE s = "button_push"
        BY <1>1, <3>3, <4>1 DEF Longest
      <4>2. CASE s # "button_push"
        <5>1. s \in Sensors /\ text'[s] = Reading(s)'
          BY <1>1, <4>2 DEF Texts, Reading
        <5>2. Reading(s)' = Reading(s)
          BY <1>1, Zenon DEF Reading
        <5> QED BY <3>2, <4>2, <5>1, <5>2, Zenon DEF Longest
      <4> QED BY <4>1, <4>2
    <3> QED BY <1>1, <3>4, Zenon DEF Lengths
  <2>2. 1 \in 1 .. 33 /\ 1 \in 1 .. Len(Cycle) + 1
    BY CycleLength
  <2> QED BY <1>1, <2>1, <2>2, Zenon DEF IInv, Typed, TypeOK
<1>3. Position'
  BY <1>1 DEF Position
<1>4. TextsSoFar'
  <2>1. \A s \in Texts : ~(step' > WrittenAt[s])
    BY <1>1 DEF WrittenAt, Texts, Sensors
  <2> QED BY <2>1, Zenon DEF TextsSoFar
<1>5. LedsSoFar'
  BY <1>1 DEF LedsSoFar
<1> QED BY <1>1, <1>2, <1>3, <1>4, <1>5, Zenon DEF IInv, Rested

LEMMA EndInv == IInv /\ EndCycle => IInv'
<1> SUFFICES ASSUME IInv, EndCycle PROVE IInv'
  OBVIOUS
<1>1. /\ at = "cycle" /\ step > Len(Cycle)
      /\ at' = "wait" /\ step' = 1 /\ flag' = FALSE
      /\ UNCHANGED <<button_push, data, text, cursor, line, screen, shadow, led, saved>>
  BY Zenon DEF EndCycle, display
<1>2. step = 33
  BY <1>1, CycleLength DEF IInv, Typed
<1>3. Typed'
  <2>1. 1 \in 1 .. 33 /\ 1 \in 1 .. Len(Cycle) + 1
    BY CycleLength
  <2> QED BY <1>1, <2>1, Zenon DEF IInv, Typed, TypeOK, Lengths
<1>4. \A s \in Texts : InPlace(s)'
  <2>1. \A s \in Texts : step > WrittenAt[s]
    BY <1>2 DEF WrittenAt, Texts, Sensors
  <2> QED BY <1>1, <2>1, Unwritten, Zenon DEF IInv, TextsSoFar
<1>5. \A l \in Leds : led'[l] = shadow'[l]
  <2>1. step > 27 /\ step > 28
    BY <1>2
  <2> QED BY <1>1, <2>1, Zenon DEF IInv, LedsSoFar, Leds
<1>6. "wait" # "cycle" /\ "wait" \notin {"timer", "signal", "clear", "register"}
  OBVIOUS
<1> QED BY <1>1, <1>3, <1>4, <1>5, <1>6, Zenon
      DEF IInv, Position, TextsSoFar, LedsSoFar, Rested

\* Start-up and the end of the process: nothing has been saved, or all is over.
LEMMA Outside ==
  ASSUME IInv, at' # "cycle", at' # "wait",
         at' \in {"timer", "signal", "clear", "register"} => saved' = <<>>, Typed'
  PROVE  IInv'
BY Zenon DEF IInv, Position, TextsSoFar, LedsSoFar, Rested

LEMMA StartUpInv == IInv /\ (RegTimer \/ ButtonSignal \/ SendCommand \/ Fail \/ Hang) => IInv'
<1> SUFFICES ASSUME IInv, RegTimer \/ ButtonSignal \/ SendCommand \/ Fail \/ Hang PROVE IInv'
  OBVIOUS
<1>1. /\ at' \in {"signal", "clear", "register", "hung", "exited"}
      /\ at' \notin {"hung", "exited"} => at \in {"timer", "signal", "clear", "register"}
      /\ UNCHANGED <<step, flag, button_push, data, text, shadow, led, saved>>
  BY Zenon DEF RegTimer, ButtonSignal, SendCommand, Fail, Hang
<1>2. at' # "cycle" /\ at' # "wait" /\ (at' \in {"timer", "signal", "clear", "register"} => at' \notin {"hung", "exited"})
  BY <1>1
<1>3. Typed'
  BY <1>1, Zenon DEF IInv, Typed, TypeOK, Lengths
<1> QED BY <1>1, <1>2, <1>3, Outside, Zenon DEF IInv, Rested

LEMMA RegisterInv == IInv /\ ButtonSignalReg => IInv'
<1> SUFFICES ASSUME IInv, ButtonSignalReg PROVE IInv'
  OBVIOUS
<1>1. /\ at = "register" /\ at' = "wait"
      /\ UNCHANGED <<step, flag, button_push, data, text, shadow, led, saved>>
  BY Zenon DEF ButtonSignalReg
<1>2. Typed'
  BY <1>1, Zenon DEF IInv, Typed, TypeOK, Lengths
<1>3. saved' = <<>>
  BY <1>1, Zenon DEF IInv, Rested
<1>4. "wait" # "cycle" /\ "wait" \notin {"timer", "signal", "clear", "register"}
  OBVIOUS
<1> QED BY <1>1, <1>2, <1>3, <1>4, Zenon DEF IInv, Position, TextsSoFar, LedsSoFar, Rested

LEMMA HandlersInv == IInv /\ (SigHandler \/ ButtonSignalHandler \/ UNCHANGED vars) => IInv'
<1> SUFFICES ASSUME IInv, SigHandler \/ ButtonSignalHandler \/ UNCHANGED vars PROVE IInv'
  OBVIOUS
<1>1. UNCHANGED <<at, step, data, text, cursor, line, screen, shadow, led, saved>>
  BY Zenon DEF SigHandler, ButtonSignalHandler, vars, display
<1>2. flag' \in BOOLEAN
  BY Zenon DEF SigHandler, ButtonSignalHandler, vars, IInv, Typed, TypeOK
<1>3. button_push' \in 0 .. MaxPresses
  <2>1. CASE ButtonSignalHandler
    BY <2>1, ApplicationAssumption
       DEF ButtonSignalHandler, ApplicationAssumption, IInv, Typed, TypeOK
  <2>2. CASE button_push' = button_push
    BY <2>2, Zenon DEF IInv, Typed, TypeOK
  <2> QED BY <2>1, <2>2, Zenon DEF SigHandler, vars
<1>4. Typed'
  BY <1>1, <1>2, <1>3, Zenon DEF IInv, Typed, TypeOK, Lengths
<1>5. \A s \in Texts : InPlace(s) => InPlace(s)'
  BY <1>1, Unwritten, Zenon
<1>6. Position' /\ LedsSoFar'
  BY <1>1, Zenon DEF IInv, Position, LedsSoFar
<1>7. TextsSoFar' /\ Rested'
  BY <1>1, <1>5, Zenon DEF IInv, TextsSoFar, Rested
<1> QED BY <1>4, <1>6, <1>7, Zenon DEF IInv

LEMMA NextInv == IInv /\ [Next]_vars => IInv'
BY CursorStep, LineStep, MessageStep, UpdateStep, SensorStep, ToggleStep, SaveStep,
   StartInv, EndInv, StartUpInv, RegisterInv, HandlersInv, Zenon DEF Next, Main

LEMMA Invariance == Spec => []IInv
BY InitInv, NextInv, PTL DEF Spec
-----------------------------------------------------------------------------
\* All variables keep their types: the program counter stays within the cycle
\* (main.c:36-103) and the presses within their bound.
THEOREM TypeCorrect == Spec => []TypeOK
<1>1. IInv => TypeOK
  BY Zenon DEF IInv, Typed
<1> QED BY <1>1, Invariance, PTL

\* After every cycle each of the five texts stands at its place, whatever the
\* readings, whatever stood there before and in whichever of the two orders
\* main.c:51-75 sets cursor and line.
THEOREM TextsStand == Spec => []TextsInPlace
<1>1. IInv => TextsInPlace
  <2> SUFFICES ASSUME IInv PROVE TextsInPlace
    OBVIOUS
  <2>1. Settled => \A s \in Texts : InPlace(s)
    BY Zenon DEF IInv, Rested, Settled
  <2>2. DOMAIN text = Texts
    BY Zenon DEF IInv, Typed, Lengths
  <2> QED BY <2>1, <2>2, Zenon DEF TextsInPlace, InPlace
<1> QED BY <1>1, Invariance, PTL

\* After every cycle the LEDs show what leds_data says, whatever an earlier run of
\* the application has left them at (led.c:39-60).
THEOREM LedsAsCopied == Spec => []LedsFollow
<1>1. IInv => LedsFollow
  <2> SUFFICES ASSUME IInv, Settled PROVE led = shadow
    BY Zenon DEF LedsFollow
  <2>1. \A l \in Leds : led[l] = shadow[l]
    BY Zenon DEF IInv, Rested, Settled
  <2>2. led \in [Leds -> BOOLEAN] /\ shadow \in [Leds -> BOOLEAN]
    BY Zenon DEF IInv, Typed, TypeOK
  <2> QED BY <2>1, <2>2
<1> QED BY <1>1, Invariance, PTL
=============================================================================
