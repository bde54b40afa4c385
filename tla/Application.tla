---------------------------- MODULE Application ----------------------------
(***************************************************************************)
(* The weather station, application/main.c with common.c, ssd1306.c,       *)
(* dht11.c, aht10.c, led.c and at24c64.c: one process and its two signals. *)
(*                                                                         *)
(* SIGALRM sets a flag every 500 ms; the loop waits for it, runs a cycle   *)
(* (display, read the sensors, toggle the LEDs, save to the EEPROM) and    *)
(* clears it.  The button's signal counts a press.  Both handlers run      *)
(* between any two steps.  A cycle is a fixed list of steps, one per call  *)
(* of a helper; a helper opens a driver's file, reads or writes it and     *)
(* closes it, and exits the process when that fails.                       *)
(*                                                                         *)
(* The drivers are seen as main.c uses them: the display writes a text     *)
(* from its cursor and line on, leaving the rest of the line as it was.    *)
(***************************************************************************)
EXTENDS Integers, Sequences, TLC

CONSTANTS
  Values,       \* readings of a sensor
  MaxPresses,   \* bound: presses of the button
  MayFail       \* TRUE: a helper may find a driver missing or failing

MostShown == 999999999    \* str_button_push[10] has room for nine digits

\* The DHT11 gives a byte and the AHT10 -50 .. 149.
ASSUME ApplicationAssumption ==
  /\ Values \subseteq -50 .. 255 /\ Values # {}
  /\ MaxPresses \in 0 .. MostShown
  /\ MayFail \in BOOLEAN

Sensors == {"dht11_temperature", "dht11_humidity", "aht10_temperature", "aht10_humidity"}
Leds    == {"led1", "led2"}
Unit(s) == IF s \in {"dht11_temperature", "aht10_temperature"} THEN "C" ELSE "%"

VARIABLES
  at,            \* where main is: a step of start-up, "wait", "cycle", "hung", "exited"
  step,          \* next step of the cycle
  flag,          \* set by sig_handler, cleared by main
  button_push,   \* presses counted by button_signal_handler
  data,          \* dht11_data and aht10_data: the last readings
  text,          \* str_dht11_temperature .. str_button_push
  cursor, line,  \* the display driver's cursor_pos and line_num
  screen,        \* glyphs on the display, by line and column
  shadow, led,   \* leds_data and what the LEDs show
  saved          \* texts in the EEPROM, by the offset they begin at

vars == <<at, step, flag, button_push, data, text, cursor, line, screen, shadow, led, saved>>
display == <<cursor, line, screen>>
----------------------------------------------------------------------------
\* sprintf of a number of up to nine digits, and of a reading with its unit; the
\* labels are five glyphs.
Powers == <<1, 10, 100, 1000, 10000, 100000, 1000000, 10000000, 100000000>>

Width(n) == CHOOSE k \in 1 .. 9 : n < 10 * Powers[k] /\ (k = 1 \/ Powers[k] <= n)

Digit(n) == <<"0", "1", "2", "3", "4", "5", "6", "7", "8", "9">>[n + 1]
Digits(n) == [i \in 1 .. Width(n) |-> Digit((n \div Powers[Width(n) - i + 1]) % 10)]
Label(name) == [i \in 1 .. 5 |-> name]

Reading(s) ==
  (IF data[s] < 0 THEN <<"-">> \o Digits(-data[s]) ELSE Digits(data[s])) \o <<Unit(s)>>

\* A glyph and its spacing column are six pixels wide.
Column(from, k) == from + 6 * (k - 1)

\* The steps of a cycle, in main.c's order of cursor and line.
Cursor(c)     == [do |-> "cursor", arg |-> c]
Line(l)       == [do |-> "line", arg |-> l]
Message(name) == [do |-> "message", arg |-> name]
Get(s)        == [do |-> "get", arg |-> s]
Toggle(l)     == [do |-> "toggle", arg |-> l]
Save(s, f)    == [do |-> "save", arg |-> s, fpos |-> f]

Labels ==
  <<Cursor(5),  Line(0), Message("DHT11"), Cursor(70), Line(0), Message("AHT10")>>

Dht11Lines ==
  <<Cursor(5),  Line(2), Message("dht11_temperature"),
    Line(4), Cursor(5),  Message("dht11_humidity")>>

\* Mutant of Aht10Lines: the cursor set once for both lines.
Aht10LinesOnce ==
  <<Cursor(70), Line(2), Message("aht10_temperature"),
    Line(4), Message("aht10_humidity")>>

Aht10Lines ==
  <<Cursor(70), Line(2), Message("aht10_temperature"),
    Line(4), Cursor(70), Message("aht10_humidity")>>

ButtonLine == <<Line(6), Cursor(40), Message("button_push")>>

Readings ==
  <<[do |-> "update"], Get("dht11_temperature"), Get("dht11_humidity"),
    Get("aht10_temperature"), Get("aht10_humidity")>>

Saves ==
  <<Save("dht11_temperature", 100), Save("dht11_humidity", 110),
    Save("dht11_temperature", 120), Save("dht11_humidity", 130)>>

Cycle == Labels \o Dht11Lines \o Aht10Lines \o ButtonLine \o Readings
           \o <<Toggle("led1"), Toggle("led2")>> \o Saves

Named(name) == IF name \in {"DHT11", "AHT10"} THEN Label(name) ELSE text[name]
----------------------------------------------------------------------------
\* reg_timer, button_signal, send_command("0x00") and button_signal_reg.
RegTimer ==
  /\ at = "timer" /\ at' = "signal"
  /\ UNCHANGED <<step, flag, button_push, data, text, display, shadow, led, saved>>

ButtonSignal ==
  /\ at = "signal" /\ at' = "clear"
  /\ UNCHANGED <<step, flag, button_push, data, text, display, shadow, led, saved>>

SendCommand ==
  /\ at = "clear" /\ at' = "register"
  /\ screen' = <<>>
  /\ UNCHANGED <<step, flag, button_push, data, text, cursor, line, shadow, led, saved>>

ButtonSignalReg ==
  /\ at = "register" /\ at' = "wait"
  /\ UNCHANGED <<step, flag, button_push, data, text, display, shadow, led, saved>>

\* open_errors_check, write_errors_check, read_errors_check and reg_timer's own
\* checks: log and exit.
Fail ==
  /\ MayFail
  /\ at \in {"timer", "clear", "register"} \/ (at = "cycle" /\ step <= Len(Cycle))
  /\ at' = "exited"
  /\ UNCHANGED <<step, flag, button_push, data, text, display, shadow, led, saved>>

\* The handlers.  The timer repeats (it_interval); the button signals only a
\* registered process.
OnceRegistered == at \in {"wait", "cycle"}

\* Mutant of SigHandler: a timer without it_interval.
SigHandlerOnce ==
  /\ at \notin {"timer", "hung", "exited"} /\ saved = <<>>
  /\ flag' = TRUE
  /\ UNCHANGED <<at, step, button_push, data, text, display, shadow, led, saved>>

SigHandler ==
  /\ at \notin {"timer", "hung", "exited"}
  /\ flag' = TRUE
  /\ UNCHANGED <<at, step, button_push, data, text, display, shadow, led, saved>>

\* Mutant of ButtonSignalHandler: both edges of the button count.
ButtonBothEdges ==
  /\ OnceRegistered
  /\ button_push < MaxPresses
  /\ button_push' = button_push + 2
  /\ UNCHANGED <<at, step, flag, data, text, display, shadow, led, saved>>

ButtonSignalHandler ==
  /\ OnceRegistered
  /\ button_push < MaxPresses
  /\ button_push' = button_push + 1
  /\ UNCHANGED <<at, step, flag, data, text, display, shadow, led, saved>>
----------------------------------------------------------------------------
\* if (flag == 1): the strings of the cycle, from the last cycle's readings.
StartCycle ==
  /\ at = "wait" /\ flag
  /\ at' = "cycle" /\ step' = 1
  /\ text' = [s \in Sensors \cup {"button_push"} |->
                IF s = "button_push" THEN Digits(button_push) ELSE Reading(s)]
  /\ UNCHANGED <<flag, button_push, data, display, shadow, led, saved>>

Doing(do) == at = "cycle" /\ step <= Len(Cycle) /\ Cycle[step].do = do
Arg == Cycle[step].arg
Proceed == step' = step + 1 /\ UNCHANGED <<at, flag, button_push, text>>

SendCursorPos ==
  /\ Doing("cursor") /\ Proceed
  /\ cursor' = Arg
  /\ UNCHANGED <<data, line, screen, shadow, led, saved>>

SendLineNum ==
  /\ Doing("line") /\ Proceed
  /\ line' = Arg
  /\ UNCHANGED <<data, cursor, screen, shadow, led, saved>>

SendMessage ==
  /\ Doing("message") /\ Proceed
  /\ LET t == Named(Arg)
         cells == {<<line, Column(cursor, k)>> : k \in 1 .. Len(t)}
     IN  /\ screen' = [c \in DOMAIN screen \cup cells |->
                         IF c \in cells THEN t[(c[2] - cursor) \div 6 + 1] ELSE screen[c]]
         /\ cursor' = Column(cursor, Len(t) + 1)
  /\ UNCHANGED <<data, line, shadow, led, saved>>

\* read_dht11_update says SUCCESS whatever it did; the next reads tell.
ReadUpdate ==
  /\ Doing("update") /\ Proceed
  /\ UNCHANGED <<data, display, shadow, led, saved>>

\* The read of `update' never returns: the DHT11 driver waits for edges of the
\* sensor without a time-out, inside the kernel, where no handler runs either.
Hang ==
  /\ Doing("update")
  /\ at' = "hung"
  /\ UNCHANGED <<step, flag, button_push, data, text, display, shadow, led, saved>>

ReadSensor ==
  /\ Doing("get") /\ Proceed
  /\ \E v \in Values : data' = [data EXCEPT ![Arg] = v]
  /\ UNCHANGED <<display, shadow, led, saved>>

\* Mutant of LedToggle: turn round what the LED shows.
LedInvert ==
  /\ Doing("toggle") /\ Proceed
  /\ led' = [led EXCEPT ![Arg] = ~@]
  /\ shadow' = [shadow EXCEPT ![Arg] = ~@]
  /\ UNCHANGED <<data, display, saved>>

\* Mutant of LedToggle: the copy of the LED's value is not updated.
LedToggleOnce ==
  /\ Doing("toggle") /\ Proceed
  /\ led' = [led EXCEPT ![Arg] = ~shadow[Arg]]
  /\ UNCHANGED <<data, display, shadow, saved>>

LedToggle ==
  /\ Doing("toggle") /\ Proceed
  /\ led' = [led EXCEPT ![Arg] = ~shadow[Arg]]
  /\ shadow' = [shadow EXCEPT ![Arg] = ~@]
  /\ UNCHANGED <<data, display, saved>>

\* The position after open and lseek: the EEPROM driver's llseek accepts every
\* offset of the file and leaves filp->f_pos at 0.
FilePos(fpos) == 0

WriteAt24c64 ==
  /\ Doing("save") /\ Proceed
  /\ saved' = (FilePos(Cycle[step].fpos) :> text[Arg]) @@ saved
  /\ UNCHANGED <<data, display, shadow, led>>

\* flag = 0: a tick during the cycle is forgotten with the one that began it.
EndCycle ==
  /\ at = "cycle" /\ step > Len(Cycle)
  /\ at' = "wait" /\ step' = 1 /\ flag' = FALSE
  /\ UNCHANGED <<button_push, data, text, display, shadow, led, saved>>
----------------------------------------------------------------------------
Init ==
  /\ at = "timer" /\ step = 1
  /\ flag = FALSE /\ button_push = 0
  /\ data = [s \in Sensors |-> 0]
  /\ text = [s \in Sensors \cup {"button_push"} |-> <<>>]
  /\ cursor = 0 /\ line = 0 /\ screen = <<>>
  /\ shadow = [l \in Leds |-> FALSE]
  /\ led \in [Leds -> BOOLEAN]           \* as an earlier run has left them
  /\ saved = <<>>

Main ==
  \/ RegTimer \/ ButtonSignal \/ SendCommand \/ ButtonSignalReg
  \/ StartCycle \/ EndCycle
  \/ SendCursorPos \/ SendLineNum \/ SendMessage
  \/ ReadUpdate \/ ReadSensor \/ LedToggle \/ WriteAt24c64

Next == Main \/ SigHandler \/ ButtonSignalHandler \/ Fail \/ Hang

\* The process is scheduled and the timer goes on; nobody has to press, and no
\* read of `update' has to return.
Spec == Init /\ [][Next]_vars /\ WF_vars(Main) /\ WF_vars(SigHandler)
----------------------------------------------------------------------------
TypeOK ==
  /\ at \in {"timer", "signal", "clear", "register", "wait", "cycle", "hung", "exited"}
  /\ step \in 1 .. Len(Cycle) + 1
  /\ flag \in BOOLEAN /\ button_push \in 0 .. MaxPresses
  /\ data \in [Sensors -> Values \cup {0}]
  /\ shadow \in [Leds -> BOOLEAN] /\ led \in [Leds -> BOOLEAN]

Place == [ dht11_temperature |-> <<2, 5>>,  dht11_humidity |-> <<4, 5>>,
           aht10_temperature |-> <<2, 70>>, aht10_humidity |-> <<4, 70>>,
           button_push       |-> <<6, 40>> ]

Glyph(s, k) == <<Place[s][1], Column(Place[s][2], k)>>

\* The loop has been round at least once and waits for the next tick.
Settled == at = "wait" /\ saved # <<>>

\* When a cycle is over, each of its five texts stands at its place, none
\* overwritten by another although the cursor moves with every message and is
\* set before the line for some and after it for others.
TextsInPlace ==
  Settled => \A s \in DOMAIN text : \A k \in 1 .. Len(text[s]) :
               Glyph(s, k) \in DOMAIN screen /\ screen[Glyph(s, k)] = text[s][k]

\* Whatever an earlier run left them at, from the first cycle on the LEDs show
\* what the application's copy of them says.
LedsFollow == Settled => led = shadow

\* The two ways the loop ends: a helper exits, or a read of `update' never returns
\* (dht11.c:203, 217, 224).
Over == at \in {"hung", "exited"}

\* "Flashing LEDs indicate the operability of the system" (README.md:9): each
\* LED goes on and off again and again until the loop is over, whatever it was
\* at and whatever ticks are lost.
Flashes ==
  \A l \in Leds : []<>(led[l] \/ Over) /\ []<>(~led[l] \/ Over)

\* A press that was counted comes to be shown (or the loop is over), although
\* ticks that come during a cycle are lost with its flag.
PressShown ==
  \A n \in 1 .. MaxPresses :
    (button_push = n) ~> (Over \/ (at = "wait" /\ button_push >= n
                           /\ \E m \in n .. MaxPresses : text["button_push"] = Digits(m)))

\* "Save temperature and humidity to eeprom" (main.c:79), each at the position
\* moved to for it (at24c64.c:21): after a cycle the four slots hold the texts
\* that were written there.
SlotsKept ==
  Settled => \A i \in DOMAIN Saves :
               Saves[i].fpos \in DOMAIN saved /\ saved[Saves[i].fpos] = text[Saves[i].arg]
=============================================================================
