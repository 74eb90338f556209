------------------------------ MODULE Terminal ------------------------------
(***************************************************************************)
(* The keyboard, the console and who reads: the loop of kernel_main, which *)
(* polls, keyboard_readline, and the shell's shell_read_command, which     *)
(* reads one character at a time through sys_read.  All wait by testing    *)
(* the ring and executing hlt afterwards, with interrupts on, so that a    *)
(* key can be pressed in between.  One thread at a time reads: IRQ 0 is    *)
(* masked, and a reader that waits does not yield (keyboard.c:211),        *)
(* whatever sys_read's comment says (syscall.c:361).                       *)
(***************************************************************************)
EXTENDS Keyboard, Console

CONSTANTS
    MAX_LEN,     \* max_len of keyboard_readline, MAX_CMD_LEN of the shell
    Printable,   \* the characters from 32 on
    Output,      \* the characters that others write
    ClearKey     \* the character that makes kernel_main clear the screen

ASSUME TerminalAssumption == MAX_LEN \in Nat /\ MAX_LEN >= 2

VARIABLES
    call,      \* who reads: "none", "poll", "readline" or "shell"
    at,        \* where its wait is: "test", "hlt", "halted"
    pos,       \* characters in the line
    cursor,    \* the console's [x, y]
    origin,    \* the column where the line began
    straight   \* no tab and no wrap in the line so far

reader == <<call, at>>
line == <<pos, origin, straight>>
vars == <<keyboard, reader, line, cursor>>

Init ==
    /\ KeyboardInit
    /\ call = "none"
    /\ at = "test"
    /\ pos = 0
    /\ cursor = Home
    /\ origin = 0
    /\ straight = TRUE

(* A call is over; what was in its variables is forgotten.                 *)
EndCall ==
    /\ call' = "none"
    /\ pos' = 0 /\ origin' = 0 /\ straight' = TRUE

(* A call begins.  An iteration of kernel_main's loop is taken from its    *)
(* yield to its next: it halts first, and tests the ring once.             *)
Begin(who) ==
    /\ call = "none"
    /\ call' = who
    /\ at' = IF who = "poll" THEN "hlt" ELSE "test"
    /\ origin' = IF who = "poll" THEN 0 ELSE cursor.x
    /\ UNCHANGED <<keyboard, pos, straight, cursor>>

(* Somebody writes to the console while nobody reads: sys_write,           *)
(* console_print, and what kernel_main answers to a key.                   *)
Write(c) ==
    /\ call = "none"
    /\ cursor' = Put(cursor, c)
    /\ UNCHANGED <<keyboard, reader, line>>

(* Mutant: interrupts are off in the halt.                                 *)
InterruptUnseen(k) ==
    /\ KeyPress(k) \/ KeyRelease(k)
    /\ UNCHANGED <<reader, line, cursor>>

(* An interrupt, at any time, ends a halt.                                 *)
Interrupt(k) ==
    /\ KeyPress(k) \/ KeyRelease(k)
    /\ at' = IF at = "halted" THEN "test" ELSE at
    /\ UNCHANGED <<call, line, cursor>>

(* The ring is empty: kernel_main goes round its loop, and the other       *)
(* readers are about to halt.                                              *)
TestFails ==
    /\ call # "none" /\ at = "test"
    /\ ~keyboard_available
    /\ \/ call = "poll" /\ EndCall /\ at' = at
       \/ call # "poll" /\ at' = "hlt" /\ UNCHANGED <<call, line>>
    /\ UNCHANGED <<keyboard, cursor>>

Halt ==
    /\ at = "hlt"
    /\ at' = "halted"
    /\ UNCHANGED <<keyboard, call, line, cursor>>

(* The test succeeds: the reader takes character c.                        *)
Gets(who, c) ==
    /\ call = who /\ at = "test"
    /\ keyboard_available
    /\ c = keyboard_buffer[buffer_tail]
    /\ Take
    /\ at' = at

(* A character goes to the end of the line and is echoed.                  *)
AddToLine(c) ==
    /\ pos' = pos + 1
    /\ cursor' = Put(cursor, c)
    /\ straight' = (straight /\ c # Tab /\ cursor'.y = cursor.y /\ cursor'.x = cursor.x + 1)
    /\ UNCHANGED <<call, origin>>

(* Mutant: a backspace is echoed at the beginning of the line, too.        *)
EraseAlways ==
    /\ pos' = IF pos > 0 THEN pos - 1 ELSE pos
    /\ cursor' = RubOut(cursor)
    /\ UNCHANGED <<straight, origin>>

Erase ==
    /\ IF pos > 0 THEN pos' = pos - 1 /\ cursor' = RubOut(cursor)
                  ELSE UNCHANGED <<pos, cursor>>
    /\ UNCHANGED <<straight, origin>>

EndLine ==
    /\ EndCall
    /\ cursor' = Put(cursor, Newline)

(* kernel_main takes one key, echoes it and obeys it.                      *)
Poll(c) ==
    /\ Gets("poll", c)
    /\ cursor' = IF c = ClearKey THEN Home ELSE Put(cursor, c)
    /\ EndCall

(* Mutant: the line is full one character late.                            *)
AppendLate(c) ==
    IF pos + 1 < MAX_LEN
    THEN AddToLine(c)
    ELSE EndCall /\ cursor' = Put(cursor, c)

AppendToLine(c) ==
    IF pos + 1 < MAX_LEN - 1
    THEN AddToLine(c)
    ELSE EndCall /\ cursor' = Put(cursor, c)

(* keyboard_readline: it returns, without a newline, when the line is full.*)
Readline(c) ==
    /\ Gets("readline", c)
    /\ \/ c \in {Newline, Return} /\ EndLine
       \/ c = Backspace /\ Erase /\ UNCHANGED call
       \/ c \notin {Newline, Return, Backspace} /\ AppendToLine(c)

(* shell_read_command: it waits for Enter; a full line takes no more, and  *)
(* control characters are not taken.  The keyboard never produces 3 or     *)
(* 127, so that Ctrl+C and Delete do not arrive.                           *)
ShellRead(c) ==
    /\ Gets("shell", c)
    /\ \/ c \in {Newline, Return} /\ EndLine
       \/ c = Backspace /\ Erase /\ UNCHANGED call
       \/ /\ c \in Printable /\ pos < MAX_LEN - 1
          /\ AddToLine(c)
       \/ /\ c \notin {Newline, Return, Backspace}
          /\ c \notin Printable \/ pos >= MAX_LEN - 1
          /\ UNCHANGED <<call, line, cursor>>

ReaderStep ==
    \/ TestFails
    \/ Halt
    \/ \E c \in Chars : Poll(c) \/ Readline(c) \/ ShellRead(c)

Next ==
    \/ \E who \in {"poll", "readline", "shell"} : Begin(who)
    \/ \E c \in Output : Write(c)
    \/ \E k \in Keys : Interrupt(k)
    \/ ReaderStep

Spec == Init /\ [][Next]_vars

(* Somebody goes on reading, and somebody goes on typing: an interrupt     *)
(* comes now and then.  Keys are pressed and released in between test and  *)
(* halt as well, and only the interrupt after the halt ends it.            *)
FairSpec ==
    /\ Spec
    /\ WF_vars(\E who \in {"poll", "readline", "shell"} : Begin(who))
    /\ WF_vars(ReaderStep)
    /\ WF_vars(\E k \in Keys : Interrupt(k))

-----------------------------------------------------------------------------
(* Every variable has its type; a cell holds a character when it is        *)
(* between tail and head, and only then; a key's modifier flag is set      *)
(* while it is down (keyboard.c:85-138).                                   *)
TypeOK ==
    /\ down \subseteq Modifiers
    /\ typed \in BOOLEAN
    /\ modifier_pressed = [m \in Modifiers |-> m \in down]
    /\ caps_lock \in BOOLEAN
    /\ buffer_head \in Cells /\ buffer_tail \in Cells
    /\ keyboard_buffer \in [Cells -> Chars \cup {NoChar}]
    /\ \A i \in 1 .. Waiting : Queue[i] \in Chars
    /\ got \in Chars \cup {NoChar}
    /\ call \in {"none", "poll", "readline", "shell"}
    /\ at \in {"test", "hlt", "halted"}
    /\ origin \in 0 .. VGA_COLS - 1
    /\ straight \in BOOLEAN

(* Whatever is typed, erased, tabbed or scrolled, the next character is    *)
(* written on the screen, and the rubbing out of one as well               *)
(* (console.c:60-98).                                                      *)
CursorOnScreen ==
    /\ OnScreen(cursor)
    /\ OnScreen(Put(cursor, Backspace))
    /\ OnScreen(Put(Put(cursor, Backspace), Space))

(* The line and its terminator fit the buffer, in keyboard_readline with   *)
(* one more character, and as long as the line has neither wrapped nor     *)
(* taken a tab the cursor stands where the line ends (keyboard.c:237-267,  *)
(* shell.c:286-329).                                                       *)
LineOnScreen ==
    /\ pos \in 0 .. MAX_LEN - 1
    /\ call = "readline" => pos + 1 <= MAX_LEN - 1
    /\ call \in {"readline", "shell"} /\ straight => cursor.x = origin + pos

(* Handler and readers together are a queue: each character typed waits    *)
(* its turn, or is lost when, and only when, the ring is full at that      *)
(* moment (keyboard.c:174-220).                                            *)
TypedQueue == INSTANCE BoundedQueue WITH
    Capacity <- KEYBOARD_BUFFER_SIZE - 1, queue <- Queue

ImplementsQueue == TypedQueue!Spec

(* A character in the ring is read at last, as long as keys go on being    *)
(* pressed and released: one that arrives between a reader's test and its  *)
(* halt wakes nobody, and only a later interrupt does (keyboard.c:211-214, *)
(* main.c:94-168).                                                         *)
TypedIsRead ==
    \A t \in Cells : keyboard_available /\ buffer_tail = t ~> buffer_tail # t
=============================================================================
