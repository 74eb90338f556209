------------------------------- MODULE Console -------------------------------
(***************************************************************************)
(* Where kernel/console.c writes: its cursor, as functions from a cursor   *)
(* [x, y] to the next.  What the cells of the screen show is left out.     *)
(***************************************************************************)
EXTENDS Integers

CONSTANTS
    VGA_COLS,
    VGA_ROWS,
    TabStop,                          \* 8
    Newline, Return, Tab, Backspace, Space

ASSUME ConsoleAssumption ==
    /\ VGA_COLS \in Nat \ {0}
    /\ VGA_ROWS \in Nat \ {0}
    /\ TabStop \in Nat \ {0}
    /\ Space \notin {Newline, Return, Tab, Backspace}
    /\ Backspace \notin {Newline, Return, Tab}

(* console_init, console_clear                                             *)
Home == [x |-> 0, y |-> 0]

(* The switch of console_putchar.                                          *)
Moved(cur, c) ==
    CASE c = Newline   -> [x |-> 0, y |-> cur.y + 1]
      [] c = Return    -> [cur EXCEPT !.x = 0]
      [] c = Tab       -> [cur EXCEPT !.x = ((cur.x + TabStop) \div TabStop) * TabStop]
      [] c = Backspace -> IF cur.x > 0 THEN [cur EXCEPT !.x = cur.x - 1] ELSE cur
      [] OTHER         -> [cur EXCEPT !.x = cur.x + 1]

(* Mutant: the cursor wraps one column late.                               *)
WrappedLate(cur) == IF cur.x > VGA_COLS THEN [x |-> 0, y |-> cur.y + 1] ELSE cur

Wrapped(cur) == IF cur.x >= VGA_COLS THEN [x |-> 0, y |-> cur.y + 1] ELSE cur

Scrolled(cur) == IF cur.y >= VGA_ROWS THEN [cur EXCEPT !.y = VGA_ROWS - 1] ELSE cur

(* console_putchar                                                         *)
Put(cur, c) == Scrolled(Wrapped(Moved(cur, c)))

(* What the line editors print to rub out a character.                     *)
RubOut(cur) == Put(Put(Put(cur, Backspace), Space), Backspace)

(* A cursor that console_putchar may write at.                             *)
OnScreen(cur) == cur.x \in 0 .. VGA_COLS - 1 /\ cur.y \in 0 .. VGA_ROWS - 1
=============================================================================
