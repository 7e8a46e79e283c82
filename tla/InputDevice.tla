---------------------------- MODULE InputDevice ----------------------------
(* How a tool call becomes events of a virtual keyboard and pointer:         *)
(* packages/tools/src/executor.ts resolves the mark, node-native-layer.ts    *)
(* takes the chord apart, crates/omniparser-bind parses the key names, and   *)
(* the uinput backend of crates/scout-drivers emits the events, one write    *)
(* each.  A call runs without interruption; it ends where a key has no code  *)
(* or a write fails, and what it has emitted stays emitted.                  *)
EXTENDS Integers, Sequences, SequencesExt, FiniteSets, Functions

CONSTANTS
    Calls,     \* the tool calls the model makes
    Width,     \* pixels of the screen, in each direction
    CoordMax   \* COORD_MAX: the pointer axes of the device are 0..CoordMax

ASSUME DeviceAssumption == Width \in Nat \ {0} /\ CoordMax \in Nat \ {0}

\* A chord is a text taken apart at its "+": there is at least one part.
ASSUME CallsAssumption ==
    \A call \in Calls :
        \/ call.tool = "keypress" /\ call.keys \in Seq(STRING) /\ call.keys # <<>>
        \/ call.tool = "type" /\ call.text \in Seq(STRING)
        \/ call.tool \in {"click", "scroll"}

VARIABLES
    dev,      \* the device: what is down on it; of the call that runs, what a
              \* program reads and where the pointer is
    stuck,    \* ghost: keys that a call which failed may have left down
    report    \* ghost: of the last call, what it was to type and typed, where it aimed

deviceVars == <<dev, stuck, report>>

NoDevice == [is |-> "untried", held |-> {}, at |-> 0, text |-> <<>>]
NoReport == [asked |-> <<>>, got |-> <<>>, clean |-> FALSE, aim |-> -1, at |-> 0]

-----------------------------------------------------------------------------
(* Keys of a US keyboard: what each types alone and with shift.              *)
Keyboard == {[code |-> "KEY_A", plain |-> "a", shifted |-> "A", letter |-> TRUE],
             [code |-> "KEY_1", plain |-> "1", shifted |-> "!", letter |-> FALSE]}

(* Of a character: the key that types it, if there is one.                   *)
char_to_key(c) == {k \in Keyboard : c \in {k.plain, k.shifted}}
NeedsShift(c) == \E k \in Keyboard : c = k.shifted

(* Of a character that names a key: symbols name none.                       *)
char_to_code(c) == {k.code : k \in {q \in Keyboard : c = q.plain \/ (q.letter /\ c = q.shifted)}}

(* The adapter's names for the binding's keys, and the names the binding     *)
(* has: "shift" is not one of them.                                          *)
Renamed == [Return |-> "enter", esc |-> "escape", win |-> "super"]
normalizeKey(name) == IF name \in DOMAIN Renamed THEN Renamed[name] ELSE name

KeyNames == [enter |-> "KEY_ENTER", escape |-> "KEY_ESC", ctrl |-> "KEY_LEFTCTRL",
           alt |-> "KEY_LEFTALT", super |-> "KEY_LEFTMETA", leftshift |-> "KEY_LEFTSHIFT"]
parse_key(name) ==
    LET known == normalizeKey(name)
    IN  IF known \in DOMAIN KeyNames THEN {KeyNames[known]} ELSE char_to_code(known)

-----------------------------------------------------------------------------
(* The events a call emits, in order; Stop is where it throws.               *)
Stop == [ev |-> "stop"]
Key(code, down) == [ev |-> "key", code |-> code, down |-> down]
KeyOrStop(codes, down) == IF codes = {} THEN Stop ELSE Key(CHOOSE c \in codes : TRUE, down)

tapKey(name) == <<KeyOrStop(parse_key(name), TRUE), KeyOrStop(parse_key(name), FALSE)>>

(* The first modifier is not released.                                       *)
ReleasesAllButOne(names) ==
    LET mods == Front(names)
    IN  [i \in DOMAIN mods |-> KeyOrStop(parse_key(mods[i]), TRUE)]
            \o tapKey(Last(names))
            \o Reverse([i \in DOMAIN Tail(mods) |-> KeyOrStop(parse_key(mods[i + 1]), FALSE)])

(* "ctrl+s": the modifiers go down in order, the last key is tapped, the     *)
(* modifiers go up in reverse.                                               *)
keypress(names) ==
    LET mods == Front(names)
    IN  [i \in DOMAIN mods |-> KeyOrStop(parse_key(mods[i]), TRUE)]
            \o tapKey(Last(names))
            \o Reverse([i \in DOMAIN mods |-> KeyOrStop(parse_key(mods[i]), FALSE)])

(* Shift goes up after the character that follows it.                        *)
LateShift(c) ==
    IF char_to_key(c) = {} THEN <<Stop>>
    ELSE LET code == (CHOOSE k \in char_to_key(c) : TRUE).code
             tap  == <<Key(code, TRUE), Key(code, FALSE)>>
         IN  IF NeedsShift(c) THEN <<Key("KEY_LEFTSHIFT", TRUE)>> \o tap
             ELSE tap \o <<Key("KEY_LEFTSHIFT", FALSE)>>

type_char(c) ==
    IF char_to_key(c) = {} THEN <<Stop>>
    ELSE LET code == (CHOOSE k \in char_to_key(c) : TRUE).code
             tap  == <<Key(code, TRUE), Key(code, FALSE)>>
         IN  IF NeedsShift(c)
             THEN <<Key("KEY_LEFTSHIFT", TRUE)>> \o tap \o <<Key("KEY_LEFTSHIFT", FALSE)>>
             ELSE tap

type_text(text) == FlattenSeq([i \in DOMAIN text |-> type_char(text[i])])

(* The axis: a hint of the screen's size scales, without one it clamps; the  *)
(* adapter opens the device without.                                         *)
scale(v, hint) ==
    IF hint = {} THEN (IF v > CoordMax THEN CoordMax ELSE v)
    ELSE \* scale_axis
         LET extent == CHOOSE w \in hint : TRUE
         IN  ((IF v > extent THEN extent ELSE v) * CoordMax) \div extent
ScreenHint == {}

moveTo(x) == <<[ev |-> "abs", at |-> scale(x, ScreenHint)]>>
click(x) == moveTo(x) \o <<Key("BTN_LEFT", TRUE), Key("BTN_LEFT", FALSE)>>
scroll(x) == moveTo(x) \o <<[ev |-> "wheel"]>>

(* The calls of the tools: a mark is the pixel at the centre of its element, *)
(* or one that the table of this step does not have.                         *)
At(mark, events) == IF mark = "unknown" THEN <<Stop>> ELSE events
eventsOf(call) ==
    CASE call.tool = "click"    -> At(call.mark, click(call.at))
      [] call.tool = "type"     -> At(call.mark, click(call.at) \o type_text(call.text))
      [] call.tool = "scroll"   -> At(call.mark, scroll(call.at))
      [] call.tool = "keypress" -> keypress(call.keys)

-----------------------------------------------------------------------------
(* The kernel keeps what is down; the focused program reads characters while *)
(* no modifier but shift is (external: evdev, a US keymap).                  *)
Received(d, e) ==
    CASE e.ev = "abs" -> [d EXCEPT !.at = e.at]
      [] e.ev = "wheel" -> d
      [] e.ev = "key" ->
           LET typed == {IF "KEY_LEFTSHIFT" \in d.held THEN k.shifted ELSE k.plain :
                             k \in {q \in Keyboard : q.code = e.code}}
               shortcut == d.held \cap {"KEY_LEFTCTRL", "KEY_LEFTALT", "KEY_LEFTMETA"} # {}
           IN  [d EXCEPT !.held = IF e.down THEN @ \cup {e.code} ELSE @ \ {e.code},
                         !.text = IF e.down /\ typed # {} /\ ~shortcut
                                  THEN @ \o SetToSeq(typed) ELSE @]

(* The events of every call.                                                 *)
Plan == [call \in Calls |-> eventsOf(call)]

KeysOf(events) == {events[i].code : i \in {j \in DOMAIN events : events[j].ev = "key"}}
UpToStop(events) == SelectInSeq(events, LAMBDA e : e = Stop)

(* What a call of a tool is to type: up to the first character without a key. *)
Typeable(call) ==
    IF call.tool # "type" \/ call.mark = "unknown" THEN <<>>
    ELSE LET bad == SelectInSeq(call.text, LAMBDA c : char_to_key(c) = {})
         IN  IF bad = 0 THEN call.text ELSE SubSeq(call.text, 1, bad - 1)

(* One call on an open device.  A write may fail: the call ends there.       *)
Emit(d, call) ==
    LET events == Plan[call]
        stop   == UpToStop(events)
        whole  == IF stop = 0 THEN events ELSE SubSeq(events, 1, stop - 1)
    IN  \E n \in 0..Len(whole) :
           LET broken == n < Len(whole) \/ (stop # 0 /\ call.tool = "keypress")
               after  == FoldLeft(Received, d, SubSeq(whole, 1, n))
           IN  \* bound: writes fail while something is down, and no earlier failure
               /\ n < Len(whole) => stuck = {} /\ after.held # {}
               /\ dev' = [after EXCEPT !.text = <<>>, !.at = 0]
               /\ stuck' = IF broken THEN stuck \cup KeysOf(whole) ELSE stuck \ KeysOf(whole)
               /\ report' = [asked |-> Typeable(call), got |-> after.text,
                             clean |-> stuck = {} /\ n = Len(whole) /\ call.tool = "type",
                             aim |-> IF n > 0 /\ call.tool # "keypress" THEN call.at ELSE -1,
                             at |-> after.at]

(* The device is opened once, by the first call; without one the calls are   *)
(* only logged, and reported as done.                                        *)
Perform(call) ==
    \/ /\ dev.is # "absent"
       /\ Emit([dev EXCEPT !.is = "open"], call)
    \/ /\ dev.is # "open"
       /\ dev' = [dev EXCEPT !.is = "absent"] /\ report' = NoReport /\ UNCHANGED stuck

(* The process is gone: the kernel destroys the device and lifts its keys.   *)
DeviceCloses == dev' = NoDevice /\ stuck' = {} /\ report' = NoReport

DeviceInit == dev = NoDevice /\ stuck = {} /\ report = NoReport

-----------------------------------------------------------------------------
(* A key is down between two calls only if a chord with an unknown name or a *)
(* failed write left it so, and no call has pressed and lifted it since: a   *)
(* text that stops at a character without a key leaves nothing down.         *)
HeldByFailures == dev.held \subseteq stuck

(* Text arrives as it was asked for, case and symbols included, up to the    *)
(* first character without a key, whatever chords came before; unless a call *)
(* failed and left a key down.                                               *)
TypedAsAsked == report.clean => report.got = report.asked

(* A click lands on the pixel that was asked for, give or take one: input.rs *)
(* gives its coordinates in absolute screen pixels.                          *)
LandsWhereAsked ==
    report.aim >= 0 => (report.at * Width) \div CoordMax \in report.aim - 1 .. report.aim + 1
=============================================================================
