------------------------------ MODULE Keyboard ------------------------------
(***************************************************************************)
(* drivers/keyboard.c: the interrupt handler, which fills the ring, and    *)
(* the reader's side, which empties it.  Each of the two indices is        *)
(* written by one side only.  The handler is one step: interrupts are off  *)
(* while it runs.  interrupt_handler has its call commented out            *)
(* (interrupt.c:140); this is what the driver does once it is called.      *)
(***************************************************************************)
EXTENDS Integers, Sequences, FiniteSets

CONSTANTS
    KEYBOARD_BUFFER_SIZE,
    Modifiers,    \* "lshift", "rshift", and "ctrl" and "alt", which change nothing
    CharKeys,     \* the keys that scancode_to_ascii maps to a character
    Ascii,        \* that mapping
    Shifted,      \* character -> the one it becomes with shift
    Capital,      \* character -> the one it becomes with caps lock
    NoChar,       \* a cell of the ring that holds nothing to read
    MaxDown       \* a bound: modifiers held down at once

Keys == Modifiers \cup {"caps"} \cup CharKeys
Chars == {Ascii[k] : k \in CharKeys} \cup {Shifted[Ascii[k]] : k \in CharKeys}
            \cup {Capital[Ascii[k]] : k \in CharKeys}
Cells == 0 .. KEYBOARD_BUFFER_SIZE - 1

ASSUME KeyboardAssumption ==
    /\ KEYBOARD_BUFFER_SIZE \in Nat \ {0}
    /\ {"lshift", "rshift"} \subseteq Modifiers
    /\ "caps" \notin Modifiers
    /\ CharKeys \cap (Modifiers \cup {"caps"}) = {}
    /\ NoChar \notin Chars

VARIABLES
    down,              \* the modifiers held down, which the hardware knows
    typed,             \* history: flips whenever a character's key goes down
    modifier_pressed,  \* lshift_pressed, rshift_pressed, ctrl_pressed, alt_pressed
    caps_lock,
    keyboard_buffer,   \* cell -> character; a cell read is modelled as NoChar
    buffer_head,
    buffer_tail,
    got                \* the character that keyboard_getchar returned last

keys == <<down, typed, modifier_pressed, caps_lock>>
ring == <<keyboard_buffer, buffer_head, buffer_tail>>
keyboard == <<keys, ring, got>>

(* keyboard_init                                                           *)
KeyboardInit ==
    /\ down = {}
    /\ typed = FALSE
    /\ modifier_pressed = [m \in Modifiers |-> FALSE]
    /\ caps_lock = FALSE
    /\ keyboard_buffer = [i \in Cells |-> NoChar]
    /\ buffer_head = 0
    /\ buffer_tail = 0
    /\ got = NoChar

keyboard_available == buffer_head # buffer_tail

Following(i) == (i + 1) % KEYBOARD_BUFFER_SIZE

(* The character of a key under the modifiers; shift overrides caps lock.  *)
CharOf(k) ==
    LET c == Ascii[k]
    IN  IF modifier_pressed["lshift"] \/ modifier_pressed["rshift"] THEN Shifted[c]
        ELSE IF caps_lock THEN Capital[c] ELSE c

(* Mutant: a character is dropped as soon as another one waits.            *)
EnqueueDropsEarly(c) ==
    IF buffer_head = buffer_tail
    THEN /\ keyboard_buffer' = [keyboard_buffer EXCEPT ![buffer_head] = c]
         /\ buffer_head' = Following(buffer_head)
    ELSE UNCHANGED <<keyboard_buffer, buffer_head>>

(* The end of keyboard_handler: a character is dropped when one cell is    *)
(* left, because a full ring would look empty.                             *)
Enqueue(c) ==
    IF Following(buffer_head) # buffer_tail
    THEN /\ keyboard_buffer' = [keyboard_buffer EXCEPT ![buffer_head] = c]
         /\ buffer_head' = Following(buffer_head)
    ELSE UNCHANGED <<keyboard_buffer, buffer_head>>

(* Mutant: a modifier is set when it is pressed and never reset.           *)
SetModifierOnly(k, released) ==
    modifier_pressed' = [modifier_pressed EXCEPT ![k] = @ \/ ~released]

SetModifier(k, released) == modifier_pressed' = [modifier_pressed EXCEPT ![k] = ~released]

(* keyboard_handler                                                        *)
Handle(k, released) ==
    /\ \/ /\ k \in Modifiers
          /\ SetModifier(k, released)
          /\ UNCHANGED <<caps_lock, ring>>
       \/ /\ k = "caps"
          /\ caps_lock' = IF released THEN caps_lock ELSE ~caps_lock
          /\ UNCHANGED <<modifier_pressed, ring>>
       \/ /\ k \in CharKeys
          /\ IF released THEN UNCHANGED ring
             ELSE Enqueue(CharOf(k)) /\ UNCHANGED buffer_tail
          /\ UNCHANGED <<modifier_pressed, caps_lock>>
    /\ UNCHANGED got

(* A key held down repeats its press; a modifier does so to no effect.     *)
KeyPress(k) ==
    /\ k \in Modifiers => k \notin down /\ Cardinality(down) < MaxDown
    /\ down' = down \cup ({k} \cap Modifiers)
    /\ typed' = IF k \in CharKeys THEN ~typed ELSE typed
    /\ Handle(k, FALSE)

KeyRelease(k) ==
    /\ k \in Modifiers => k \in down
    /\ down' = down \ {k}
    /\ UNCHANGED typed
    /\ Handle(k, TRUE)

(* Mutant: the reader takes the character before the tail.                 *)
TakeNewest ==
    /\ got' = keyboard_buffer[(buffer_head + KEYBOARD_BUFFER_SIZE - 1) % KEYBOARD_BUFFER_SIZE]
    /\ keyboard_buffer' = [keyboard_buffer EXCEPT ![buffer_tail] = NoChar]
    /\ buffer_tail' = Following(buffer_tail)
    /\ UNCHANGED <<keys, buffer_head>>

(* keyboard_getchar and keyboard_trygetchar once there is a character.     *)
Take ==
    /\ got' = keyboard_buffer[buffer_tail]
    /\ keyboard_buffer' = [keyboard_buffer EXCEPT ![buffer_tail] = NoChar]
    /\ buffer_tail' = Following(buffer_tail)
    /\ UNCHANGED <<keys, buffer_head>>

(* How many characters wait, and which.                                    *)
Waiting == (buffer_head + KEYBOARD_BUFFER_SIZE - buffer_tail) % KEYBOARD_BUFFER_SIZE
Queue ==
    [i \in 1 .. Waiting |-> keyboard_buffer[(buffer_tail + i - 1) % KEYBOARD_BUFFER_SIZE]]
=============================================================================
