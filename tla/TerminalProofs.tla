--------------------------- MODULE TerminalProofs ---------------------------
(***************************************************************************)
(* Proofs about Terminal for a ring, a screen and a line of any size, any  *)
(* keyboard layout and any tab stop.                                       *)
(***************************************************************************)
EXTENDS Terminal, SequenceTheorems, TLAPS

(* A line that nobody edits is empty.                                      *)
Idle == call \in {"none", "poll"} => pos = 0 /\ straight

-----------------------------------------------------------------------------
(* Remainders of what is less than twice the divisor.                      *)
LEMMA ModOnce ==
  ASSUME NEW n \in Nat \ {0}, NEW a \in 0 .. 2 * n - 1
  PROVE  a % n = IF a < n THEN a ELSE a - n
  BY Z3

(* A tab does not go left of the screen.                                   *)
LEMMA TabRight ==
  ASSUME NEW n \in Nat \ {0}, NEW a \in Nat
  PROVE  ((a + n) \div n) * n \in Nat
<1>1. (a + n) \div n \in Nat
  OBVIOUS
<1> QED BY <1>1

(* Wherever the cursor was on the screen, it is there after console_putchar.*)
LEMMA PutOnScreen ==
  ASSUME NEW cur \in [x : Int, y : Int], OnScreen(cur), NEW c
  PROVE  Put(cur, c) \in [x : Int, y : Int] /\ OnScreen(Put(cur, c))
<1>1. cur.x \in Nat /\ cur.y \in Nat /\ cur.y <= VGA_ROWS - 1
  BY ConsoleAssumption DEF OnScreen
<1>2. ((cur.x + TabStop) \div TabStop) * TabStop \in Nat
  BY <1>1, TabRight, ConsoleAssumption
<1>3. Moved(cur, c) \in [x : Nat, y : Nat] /\ Moved(cur, c).y <= VGA_ROWS
  <2> DEFINE tab == ((cur.x + TabStop) \div TabStop) * TabStop
  <2>1. tab \in Nat
    BY <1>2
  <2> HIDE DEF tab
  <2>2. Moved(cur, c) \in {[x |-> 0, y |-> cur.y + 1], [cur EXCEPT !.x = 0],
                           [cur EXCEPT !.x = tab], cur,
                           [cur EXCEPT !.x = cur.x + 1]}
                          \cup (IF cur.x > 0 THEN {[cur EXCEPT !.x = cur.x - 1]} ELSE {})
    BY DEF Moved, tab
  <2> QED BY <1>1, <2>1, <2>2, ConsoleAssumption
<1> DEFINE m == Moved(cur, c)
<1> HIDE DEF m
<1>4. m \in [x : Nat, y : Nat] /\ m.y <= VGA_ROWS
  BY <1>3 DEF m
<1>5. /\ Wrapped(m) \in [x : Nat, y : Nat]
      /\ Wrapped(m).x < VGA_COLS
  BY <1>4, ConsoleAssumption DEF Wrapped
<1> DEFINE w == Wrapped(m)
<1> HIDE DEF w
<1>6. w \in [x : Nat, y : Nat] /\ w.x < VGA_COLS
  BY <1>5 DEF w
<1>7. Scrolled(w) \in [x : Nat, y : Nat] /\ Scrolled(w).x < VGA_COLS /\ Scrolled(w).y <= VGA_ROWS - 1
  BY <1>6, ConsoleAssumption DEF Scrolled
<1>8. Put(cur, c) = Scrolled(w)
  BY DEF Put, w, m
<1> QED BY <1>7, <1>8, ConsoleAssumption DEF OnScreen

(* Rubbing out the character left of the cursor moves the cursor there.    *)
LEMMA RubOutMoves ==
  ASSUME NEW cur \in [x : Int, y : Int], OnScreen(cur), cur.x > 0
  PROVE  RubOut(cur) = [cur EXCEPT !.x = cur.x - 1]
<1>1. cur.x \in 1 .. VGA_COLS - 1 /\ cur.y \in 0 .. VGA_ROWS - 1 /\ VGA_COLS \in Nat /\ VGA_ROWS \in Nat
  BY ConsoleAssumption DEF OnScreen
<1> DEFINE left == [cur EXCEPT !.x = cur.x - 1]
<1>2. left \in [x : Int, y : Int] /\ left.x = cur.x - 1 /\ left.y = cur.y
  OBVIOUS
<1>3. Moved(cur, Backspace) = left
  BY <1>1, ConsoleAssumption DEF Moved
<1>4. Wrapped(left) = left /\ Scrolled(left) = left
  BY <1>1, <1>2 DEF Wrapped, Scrolled
<1>5. Put(cur, Backspace) = left
  BY <1>3, <1>4 DEF Put
<1>6. Moved(left, Space) = cur
  <2>1. Moved(left, Space) = [left EXCEPT !.x = left.x + 1]
    BY ConsoleAssumption DEF Moved
  <2>2. left.x + 1 = cur.x
    BY <1>1, <1>2
  <2>3. [left EXCEPT !.x = cur.x] = cur
    OBVIOUS
  <2> QED BY <2>1, <2>2, <2>3
<1>7. Wrapped(cur) = cur /\ Scrolled(cur) = cur
  BY <1>1 DEF Wrapped, Scrolled
<1>8. Put(left, Space) = cur
  BY <1>6, <1>7 DEF Put
<1> QED BY <1>5, <1>8 DEF RubOut

(* Hence rubbing out leaves the cursor on the screen, wherever it was.     *)
LEMMA RubOutOnScreen ==
  ASSUME NEW cur \in [x : Int, y : Int], OnScreen(cur)
  PROVE  RubOut(cur) \in [x : Int, y : Int] /\ OnScreen(RubOut(cur))
  BY PutOnScreen DEF RubOut

-----------------------------------------------------------------------------
(* A function on the first n numbers is a sequence of length n.            *)
LEMMA SeqOf ==
  ASSUME NEW S, NEW n \in Nat, NEW q \in [1 .. n -> S]
  PROVE  q \in Seq(S) /\ Len(q) = n
<1>1. q \in Seq(S)
  BY SeqDef
<1> QED BY <1>1

(* What one element more at the end makes of a sequence.                   *)
LEMMA AppendIs ==
  ASSUME NEW S, NEW n \in Nat, NEW q \in [1 .. n -> S], NEW c \in S,
         NEW r \in [1 .. n + 1 -> S], \A i \in 1 .. n : r[i] = q[i], r[n + 1] = c
  PROVE  r = Append(q, c)
<1>1. q \in Seq(S) /\ Len(q) = n /\ r \in Seq(S) /\ Len(r) = n + 1
  BY SeqOf
<1>2. Append(q, c) \in Seq(S) /\ Len(Append(q, c)) = n + 1
  BY <1>1, AppendProperties
<1>3. \A i \in 1 .. n + 1 : Append(q, c)[i] = r[i]
  <2>1. \A i \in 1 .. n : Append(q, c)[i] = q[i]
    BY <1>1, AppendProperties
  <2>2. Append(q, c)[n + 1] = c
    BY <1>1, AppendProperties
  <2> QED BY <2>1, <2>2
<1> QED BY <1>1, <1>2, <1>3, SeqEqual

(* What is left of a sequence without its first element.                   *)
LEMMA TailIs ==
  ASSUME NEW S, NEW n \in Nat \ {0}, NEW q \in [1 .. n -> S],
         NEW r \in [1 .. n - 1 -> S], \A i \in 1 .. n - 1 : r[i] = q[i + 1]
  PROVE  q # << >> /\ q[1] = Head(q) /\ r = Tail(q)
<1>1. q \in Seq(S) /\ Len(q) = n /\ r \in Seq(S) /\ Len(r) = n - 1
  BY SeqOf
<1>2. q # << >> /\ q[1] = Head(q)
  BY <1>1
<1>3. /\ Tail(q) \in Seq(S) /\ Len(Tail(q)) = n - 1
      /\ \A i \in 1 .. n - 1 : Tail(q)[i] = q[i + 1]
  BY <1>1, <1>2, HeadTailProperties
<1> QED BY <1>1, <1>2, <1>3, SeqEqual

-----------------------------------------------------------------------------
(* The ring of any two indices: how many cells wait, and which is the i-th *)
(* of them, without remainders.                                            *)
N == KEYBOARD_BUFFER_SIZE
Between(h, t) == IF h >= t THEN h - t ELSE h + N - t
CellOf(t, i) == IF t + i - 1 < N THEN t + i - 1 ELSE t + i - 1 - N

(* The remainders that Keyboard is written with.                          *)
LEMMA Remainders ==
  ASSUME NEW h \in Cells, NEW t \in Cells
  PROVE  /\ (h + N - t) % N = Between(h, t)
         /\ \A i \in 1 .. N - 1 : (t + i - 1) % N = CellOf(t, i)
         /\ Following(t) = IF t + 1 < N THEN t + 1 ELSE 0
<1>1. N \in Nat \ {0} /\ h \in 0 .. N - 1 /\ t \in 0 .. N - 1
  BY KeyboardAssumption DEF Cells, N
<1>2. \A a \in 0 .. 2 * N - 1 : a % N = IF a < N THEN a ELSE a - N
  BY <1>1, ModOnce
<1>3. /\ h + N - t \in 0 .. 2 * N - 1 /\ t + 1 \in 0 .. 2 * N - 1 /\ t + 1 <= N
      /\ \A i \in 1 .. N - 1 : t + i - 1 \in 0 .. 2 * N - 1
  BY <1>1
<1>4. (h + N - t) % N = IF h + N - t < N THEN h + N - t ELSE h + N - t - N
  <2>1. PICK a \in 0 .. 2 * N - 1 : a = h + N - t
    BY <1>3
  <2>2. a % N = IF a < N THEN a ELSE a - N
    BY <1>2
  <2> QED BY <1>1, <2>1, <2>2
<1>5. \A i \in 1 .. N - 1 :
         (t + i - 1) % N = IF t + i - 1 < N THEN t + i - 1 ELSE t + i - 1 - N
  <2> SUFFICES ASSUME NEW i \in 1 .. N - 1
               PROVE  (t + i - 1) % N = IF t + i - 1 < N THEN t + i - 1 ELSE t + i - 1 - N
    OBVIOUS
  <2>1. PICK a \in 0 .. 2 * N - 1 : a = t + i - 1
    BY <1>3
  <2>2. a % N = IF a < N THEN a ELSE a - N
    BY <1>2
  <2> QED BY <1>1, <2>1, <2>2
<1>6. (t + 1) % N = IF t + 1 < N THEN t + 1 ELSE t + 1 - N
  <2>1. PICK a \in 0 .. 2 * N - 1 : a = t + 1
    BY <1>3
  <2>2. a % N = IF a < N THEN a ELSE a - N
    BY <1>2
  <2> QED BY <1>1, <2>1, <2>2
<1>7. Following(t) = IF t + 1 < N THEN t + 1 ELSE 0
  BY <1>1, <1>3, <1>6 DEF Following, N
<1> QED BY <1>1, <1>4, <1>5, <1>7 DEF Between, CellOf

(* The queue of a ring, by cells.                                          *)
QueueOf(b, h, t) == [i \in 1 .. Between(h, t) |-> b[CellOf(t, i)]]

(* Its length and its cells are within the ring.                           *)
LEMMA BetweenTypes ==
  ASSUME NEW h \in Cells, NEW t \in Cells
  PROVE  /\ Between(h, t) \in 0 .. N - 1
         /\ \A i \in 1 .. Between(h, t) : CellOf(t, i) \in Cells
         /\ Following(h) \in Cells
<1>1. N \in Nat \ {0} /\ h \in 0 .. N - 1 /\ t \in 0 .. N - 1
  BY KeyboardAssumption DEF Cells, N
<1>2. Between(h, t) \in 0 .. N - 1
  BY <1>1 DEF Between
<1>3. \A i \in 1 .. Between(h, t) : CellOf(t, i) \in 0 .. N - 1
  BY <1>1 DEF CellOf, Between
<1>4. Following(h) \in 0 .. N - 1
  BY <1>1, Remainders
<1> QED BY <1>2, <1>3, <1>4 DEF Cells, N

(* The remainders the queue is written with, for those that wait.          *)
LEMMA QueueCells ==
  ASSUME NEW h \in Cells, NEW t \in Cells
  PROVE  /\ (h + KEYBOARD_BUFFER_SIZE - t) % KEYBOARD_BUFFER_SIZE = Between(h, t)
         /\ Between(h, t) \in Nat
         /\ \A i \in 1 .. Between(h, t) :
               (t + i - 1) % KEYBOARD_BUFFER_SIZE = CellOf(t, i)
<1>1. (h + N - t) % N = Between(h, t) /\ Between(h, t) \in 0 .. N - 1 /\ N \in Nat
  BY Remainders, BetweenTypes, KeyboardAssumption DEF N
<1>2. \A i \in 1 .. Between(h, t) : (t + i - 1) % N = CellOf(t, i)
  <2>1. 1 .. Between(h, t) \subseteq 1 .. N - 1
    BY <1>1
  <2> QED BY <2>1, Remainders
<1> QED BY <1>1, <1>2 DEF N

(* The ring's part of the type invariant.                                  *)
RingOf(b, h, t) ==
    /\ h \in Cells /\ t \in Cells
    /\ b \in [Cells -> Chars \cup {NoChar}]
    /\ QueueOf(b, h, t) \in [1 .. Between(h, t) -> Chars]
Ring == RingOf(keyboard_buffer, buffer_head, buffer_tail)

(* q is r with c after it.  (A name keeps the provers from unfolding it.)  *)
Appended(q, c, r) == q = Append(r, c)

(* A character put in a ring that is not full follows those that wait.     *)
LEMMA RingAppends ==
  ASSUME NEW c \in Chars, NEW b, NEW h, NEW t, NEW d, NEW g,
         RingOf(b, h, t), d = [b EXCEPT ![h] = c], g = Following(h), g # t
  PROVE  /\ RingOf(d, g, t)
         /\ Between(h, t) < N - 1
         /\ Appended(QueueOf(d, g, t), c, QueueOf(b, h, t))
<1> DEFINE n == Between(h, t)
<1>1. /\ N \in Nat \ {0} /\ h \in 0 .. N - 1 /\ t \in 0 .. N - 1
      /\ h \in Cells /\ t \in Cells
  BY KeyboardAssumption DEF RingOf, Cells, N
<1>2. g = (IF h + 1 < N THEN h + 1 ELSE 0) /\ g # t /\ g \in Cells
  BY <1>1, Remainders, BetweenTypes
<1>3. n \in 0 .. N - 1
  BY <1>1, BetweenTypes
<1>4. Between(g, t) = n + 1 /\ n < N - 1
  BY <1>1, <1>2 DEF Between
<1>5. CellOf(t, n + 1) = h
  BY <1>1 DEF CellOf, Between
<1>6. \A i \in 1 .. n : CellOf(t, i) \in Cells /\ CellOf(t, i) # h
  <2>1. \A i \in 1 .. n : CellOf(t, i) # h
    BY <1>1 DEF CellOf, Between
  <2> QED BY <1>1, <2>1, BetweenTypes
<1>7. d \in [Cells -> Chars \cup {NoChar}] /\ d[h] = c /\ \A k \in Cells \ {h} : d[k] = b[k]
  BY <1>1 DEF RingOf
<1> HIDE DEF n
<1>8. QueueOf(b, h, t) \in [1 .. n -> Chars]
  BY DEF RingOf, n
<1>9. QueueOf(b, h, t) = [i \in 1 .. n |-> b[CellOf(t, i)]]
  BY DEF QueueOf, n
<1>10. QueueOf(d, g, t) = [i \in 1 .. n + 1 |-> d[CellOf(t, i)]]
  BY <1>4 DEF QueueOf
<1>11. \A i \in 1 .. n : QueueOf(d, g, t)[i] = QueueOf(b, h, t)[i]
  <2> SUFFICES ASSUME NEW i \in 1 .. n PROVE QueueOf(d, g, t)[i] = QueueOf(b, h, t)[i]
    OBVIOUS
  <2>1. d[CellOf(t, i)] = b[CellOf(t, i)]
    BY <1>6, <1>7
  <2>2. i \in 1 .. n + 1
    BY <1>3
  <2> QED BY <2>1, <2>2, <1>9, <1>10
<1>12. QueueOf(d, g, t)[n + 1] = c
  <2>1. n + 1 \in 1 .. n + 1
    BY <1>3
  <2> QED BY <2>1, <1>5, <1>7, <1>10
<1>13. QueueOf(d, g, t) \in [1 .. n + 1 -> Chars]
  <2>1. \A i \in 1 .. n + 1 : i \in 1 .. n \/ i = n + 1
    BY <1>3
  <2>2. \A i \in 1 .. n + 1 : QueueOf(d, g, t)[i] \in Chars
    BY <2>1, <1>8, <1>11, <1>12
  <2> QED BY <2>2, <1>10
<1>14. QueueOf(d, g, t) = Append(QueueOf(b, h, t), c)
  <2>1. n \in Nat
    BY <1>3
  <2>2. PICK q \in [1 .. n -> Chars] : q = QueueOf(b, h, t)
    BY <1>8
  <2>3. PICK r \in [1 .. n + 1 -> Chars] : r = QueueOf(d, g, t)
    BY <1>13
  <2>4. r[n + 1] = c /\ \A i \in 1 .. n : r[i] = q[i]
    BY <2>2, <2>3, <1>11, <1>12
  <2>5. r = Append(q, c)
    BY <2>1, <2>4, AppendIs
  <2> QED BY <2>2, <2>3, <2>5
<1>15. RingOf(d, g, t)
  BY <1>1, <1>2, <1>4, <1>7, <1>13 DEF RingOf
<1> QED BY <1>4, <1>14, <1>15 DEF n, Appended

(* The character at the tail is the first that waits.                      *)
LEMMA RingTakes ==
  ASSUME NEW b, NEW h, NEW t, RingOf(b, h, t), h # t
  PROVE  /\ RingOf([b EXCEPT ![t] = NoChar], h, Following(t))
         /\ QueueOf(b, h, t) # << >>
         /\ b[t] = Head(QueueOf(b, h, t)) /\ b[t] \in Chars
         /\ QueueOf([b EXCEPT ![t] = NoChar], h, Following(t)) = Tail(QueueOf(b, h, t))
<1> DEFINE d == [b EXCEPT ![t] = NoChar]
           n == Between(h, t)
           g == Following(t)
<1>1. /\ N \in Nat \ {0} /\ h \in 0 .. N - 1 /\ t \in 0 .. N - 1
      /\ h \in Cells /\ t \in Cells
  BY KeyboardAssumption DEF RingOf, Cells, N
<1>2. g = (IF t + 1 < N THEN t + 1 ELSE 0) /\ g \in Cells
  BY <1>1, Remainders, BetweenTypes
<1>3. n \in 1 .. N - 1
  BY <1>1 DEF Between
<1> HIDE DEF g
<1>4. Between(h, g) = n - 1
  BY <1>1, <1>2 DEF Between
<1>5. CellOf(t, 1) = t
  BY <1>1 DEF CellOf
<1>6. \A i \in 1 .. n - 1 :
         CellOf(g, i) = CellOf(t, i + 1) /\ CellOf(g, i) \in Cells /\ CellOf(g, i) # t
  <2>1. \A i \in 1 .. n - 1 : CellOf(g, i) = CellOf(t, i + 1) /\ CellOf(g, i) # t
    BY <1>1, <1>2 DEF CellOf, Between
  <2> QED BY <1>1, <1>2, <1>4, <2>1, BetweenTypes
<1>7. d \in [Cells -> Chars \cup {NoChar}] /\ \A k \in Cells \ {t} : d[k] = b[k]
  BY <1>1 DEF RingOf
<1> HIDE DEF n, d
<1>8. QueueOf(b, h, t) \in [1 .. n -> Chars]
  BY DEF RingOf, n
<1>9. QueueOf(b, h, t) = [i \in 1 .. n |-> b[CellOf(t, i)]]
  BY DEF QueueOf, n
<1>10. QueueOf(d, h, g) = [i \in 1 .. n - 1 |-> d[CellOf(g, i)]]
  BY <1>4 DEF QueueOf
<1>11. \A i \in 1 .. n - 1 : i + 1 \in 1 .. n /\ QueueOf(d, h, g)[i] = QueueOf(b, h, t)[i + 1]
  <2> SUFFICES ASSUME NEW i \in 1 .. n - 1
               PROVE  i + 1 \in 1 .. n /\ QueueOf(d, h, g)[i] = QueueOf(b, h, t)[i + 1]
    OBVIOUS
  <2>1. d[CellOf(g, i)] = b[CellOf(t, i + 1)]
    BY <1>6, <1>7
  <2>2. i + 1 \in 1 .. n
    BY <1>3
  <2> QED BY <2>1, <2>2, <1>9, <1>10
<1>12. QueueOf(d, h, g) \in [1 .. n - 1 -> Chars]
  <2>1. \A i \in 1 .. n - 1 : QueueOf(d, h, g)[i] \in Chars
    BY <1>8, <1>11
  <2> QED BY <2>1, <1>10
<1>13. n \in Nat \ {0} /\ 1 \in 1 .. n
  BY <1>3
<1>14. /\ QueueOf(b, h, t) # << >>
       /\ QueueOf(b, h, t)[1] = Head(QueueOf(b, h, t))
       /\ QueueOf(d, h, g) = Tail(QueueOf(b, h, t))
  BY <1>8, <1>11, <1>12, <1>13, TailIs
<1>15. b[t] = QueueOf(b, h, t)[1] /\ b[t] \in Chars
  BY <1>5, <1>8, <1>9, <1>13
<1>16. RingOf(d, h, g)
  BY <1>1, <1>2, <1>4, <1>7, <1>12 DEF RingOf
<1> QED BY <1>14, <1>15, <1>16 DEF d, g

(* What the modules say of the ring, said of its three variables.          *)
LEMMA RingIs ==
  /\ (TypeOK => Ring)
  /\ (Ring => /\ Queue = QueueOf(keyboard_buffer, buffer_head, buffer_tail)
              /\ Len(Queue) = Between(buffer_head, buffer_tail)
              /\ Queue \in Seq(Chars)
              /\ \A i \in 1 .. Waiting : Queue[i] \in Chars)
<1>1. ASSUME buffer_head \in Cells, buffer_tail \in Cells
      PROVE  /\ Queue = QueueOf(keyboard_buffer, buffer_head, buffer_tail)
             /\ Waiting = Between(buffer_head, buffer_tail)
             /\ Waiting \in Nat
  <2>1. /\ Waiting = Between(buffer_head, buffer_tail)
        /\ Waiting \in Nat
        /\ \A i \in 1 .. Waiting :
              (buffer_tail + i - 1) % KEYBOARD_BUFFER_SIZE = CellOf(buffer_tail, i)
    BY <1>1, QueueCells DEF Waiting
  <2>2. Queue = QueueOf(keyboard_buffer, buffer_head, buffer_tail)
    BY <2>1 DEF Queue, QueueOf
  <2> QED BY <2>1, <2>2
<1>2. TypeOK => Ring
  <2> SUFFICES ASSUME TypeOK PROVE Ring
    OBVIOUS
  <2>1. Queue = QueueOf(keyboard_buffer, buffer_head, buffer_tail)
        /\ Waiting = Between(buffer_head, buffer_tail)
    BY <1>1 DEF TypeOK
  <2>2. \A i \in 1 .. Waiting : Queue[i] \in Chars
    BY DEF TypeOK
  <2>3. QueueOf(keyboard_buffer, buffer_head, buffer_tail)
           \in [1 .. Between(buffer_head, buffer_tail) -> Chars]
    BY <2>1, <2>2 DEF QueueOf
  <2> QED BY <2>3 DEF TypeOK, Ring, RingOf
<1>3. ASSUME Ring
      PROVE  /\ Len(Queue) = Between(buffer_head, buffer_tail)
             /\ Queue \in Seq(Chars)
             /\ \A i \in 1 .. Waiting : Queue[i] \in Chars
  <2>1. /\ Queue = QueueOf(keyboard_buffer, buffer_head, buffer_tail)
        /\ Waiting = Between(buffer_head, buffer_tail)
        /\ Waiting \in Nat
    BY <1>1, <1>3 DEF Ring, RingOf
  <2>2. Queue \in [1 .. Waiting -> Chars]
    BY <1>3, <2>1 DEF Ring, RingOf
  <2> QED BY <2>1, <2>2, SeqOf
<1> QED BY <1>1, <1>2, <1>3 DEF Ring, RingOf

(* The same after a step.                                                  *)
LEMMA QueueAfter ==
  (Ring => Queue = QueueOf(keyboard_buffer, buffer_head, buffer_tail))'
<1>1. Ring => Queue = QueueOf(keyboard_buffer, buffer_head, buffer_tail)
  BY RingIs
<1> QED BY <1>1, PTL

-----------------------------------------------------------------------------
(* What TypeOK says besides the ring: of the keys, and of who reads.       *)
KeysOK ==
    /\ down \subseteq Modifiers
    /\ modifier_pressed = [m \in Modifiers |-> m \in down]
    /\ caps_lock \in BOOLEAN
ReaderOK ==
    /\ call \in {"none", "poll", "readline", "shell"}
    /\ at \in {"test", "hlt", "halted"}
    /\ origin \in 0 .. VGA_COLS - 1
    /\ straight \in BOOLEAN
CursorOK == cursor \in [x : Int, y : Int] /\ OnScreen(cursor)

(* The invariant in the parts that the steps change.                       *)
Parts == /\ KeysOK /\ typed \in BOOLEAN /\ Ring /\ got \in Chars \cup {NoChar}
         /\ ReaderOK /\ CursorOK /\ LineOnScreen /\ Idle

(* The parts make up what the runs check.                                  *)
LEMMA PartsAre == Parts => TypeOK /\ CursorOnScreen /\ LineOnScreen
<1> SUFFICES ASSUME Parts PROVE TypeOK /\ CursorOnScreen /\ LineOnScreen
  OBVIOUS
<1>1. TypeOK
  BY RingIs DEF Parts, KeysOK, Ring, RingOf, ReaderOK, TypeOK
<1>2. OnScreen(Put(cursor, Backspace)) /\ OnScreen(Put(Put(cursor, Backspace), Space))
  BY PutOnScreen DEF Parts, CursorOK
<1> QED BY <1>1, <1>2 DEF Parts, CursorOK, CursorOnScreen

(* After the initialisation.                                               *)
LEMMA InitParts == Init => Parts
<1> SUFFICES ASSUME Init PROVE Parts
  OBVIOUS
<1>1. 0 \in Cells
  BY KeyboardAssumption DEF Cells
<1>2. keyboard_buffer \in [Cells -> Chars \cup {NoChar}]
  BY DEF Init, KeyboardInit
<1>3. Between(0, 0) = 0
  BY DEF Between
<1>4. QueueOf(keyboard_buffer, 0, 0) \in [1 .. Between(0, 0) -> Chars]
  BY <1>3 DEF QueueOf
<1>5. Ring
  BY <1>1, <1>2, <1>4 DEF Init, KeyboardInit, Ring, RingOf
<1>6. KeysOK /\ typed \in BOOLEAN /\ got \in Chars \cup {NoChar}
  <2>1. \A m \in Modifiers : FALSE = (m \in down)
    BY DEF Init, KeyboardInit
  <2>2. modifier_pressed = [m \in Modifiers |-> m \in down]
    BY <2>1, Zenon DEF Init, KeyboardInit
  <2> QED BY <2>2 DEF Init, KeyboardInit, KeysOK
<1>7. ReaderOK /\ CursorOK /\ Home.x = 0
  BY ConsoleAssumption DEF Init, Home, ReaderOK, CursorOK, OnScreen
<1>8. LineOnScreen /\ Idle
  BY TerminalAssumption DEF Init, LineOnScreen, Idle
<1> QED BY <1>5, <1>6, <1>7, <1>8 DEF Parts

(* The end of a call leaves an empty line.                                 *)
LEMMA EndCallKeeps ==
  ASSUME EndCall, ReaderOK, UNCHANGED at PROVE ReaderOK' /\ LineOnScreen' /\ Idle'
  BY ConsoleAssumption, TerminalAssumption DEF EndCall, ReaderOK, LineOnScreen, Idle

(* The queue of a ring that does not change.                               *)
LEMMA QueueKept == UNCHANGED ring => UNCHANGED Queue
  BY DEF ring, Queue, Waiting

(* As many wait as the ring takes when its head has come round to its tail.*)
LEMMA FullIsFull ==
  ASSUME Ring PROVE Following(buffer_head) = buffer_tail <=> Len(Queue) = N - 1
<1>1. /\ N \in Nat \ {0} /\ buffer_head \in 0 .. N - 1 /\ buffer_tail \in 0 .. N - 1
      /\ buffer_head \in Cells
  BY KeyboardAssumption DEF Ring, RingOf, Cells, N
<1>2. Following(buffer_head) = IF buffer_head + 1 < N THEN buffer_head + 1 ELSE 0
  BY <1>1, Remainders
<1>3. Len(Queue) = Between(buffer_head, buffer_tail)
  BY RingIs
<1> QED BY <1>1, <1>2, <1>3 DEF Between

(* A character put in the queue of the ring, or lost when it is full.      *)
Typed(c) == Queue' = IF Len(Queue) < N - 1 THEN Append(Queue, c) ELSE Queue

(* An interrupt changes the keys or the end of the ring.                   *)
LEMMA HandleKeeps ==
  ASSUME Ring, KeysOK, NEW k \in Keys, NEW released \in BOOLEAN, Handle(k, released),
         down' = IF released THEN down \ {k} ELSE down \cup ({k} \cap Modifiers)
  PROVE  /\ Ring' /\ KeysOK' /\ UNCHANGED got
         /\ IF k \in CharKeys /\ ~released THEN \E c \in Chars : Typed(c) ELSE UNCHANGED ring
<1>1. CASE k \in Modifiers /\ SetModifier(k, released) /\ UNCHANGED <<caps_lock, ring>>
  <2>1. modifier_pressed' = [modifier_pressed EXCEPT ![k] = ~released]
        /\ UNCHANGED <<caps_lock, ring>>
    BY <1>1 DEF SetModifier
  <2>2. down' \subseteq Modifiers /\ (k \in down' <=> ~released)
        /\ \A m \in Modifiers \ {k} : m \in down' <=> m \in down
    BY <1>1 DEF KeysOK
  <2>3. modifier_pressed' = [m \in Modifiers |-> IF m = k THEN ~released ELSE m \in down]
    BY <2>1 DEF KeysOK
  <2>4. \A m \in Modifiers : (IF m = k THEN ~released ELSE m \in down) = (m \in down')
    BY <1>1, <2>2
  <2>5. modifier_pressed' = [m \in Modifiers |-> m \in down']
    BY <2>3, <2>4, Zenon
  <2>6. Ring' /\ KeysOK'
    BY <2>1, <2>2, <2>5 DEF KeysOK, Ring, ring
  <2> QED BY <1>1, <2>1, <2>6, KeyboardAssumption DEF Handle
<1>2. ASSUME k \notin Modifiers
      PROVE  UNCHANGED down /\ (UNCHANGED modifier_pressed => KeysOK' <=> caps_lock' \in BOOLEAN)
  <2>1. down' = down
    BY <1>2 DEF KeysOK
  <2> QED BY <2>1 DEF KeysOK
<1>3. CASE /\ k = "caps"
           /\ caps_lock' = IF released THEN caps_lock ELSE ~caps_lock
           /\ UNCHANGED <<modifier_pressed, ring>>
  <2>1. KeysOK'
    BY <1>2, <1>3, KeyboardAssumption DEF KeysOK
  <2> QED BY <1>3, <2>1, KeyboardAssumption DEF Ring, ring, Handle
<1>4. CASE /\ k \in CharKeys
           /\ IF released THEN UNCHANGED ring ELSE Enqueue(CharOf(k)) /\ UNCHANGED buffer_tail
           /\ UNCHANGED <<modifier_pressed, caps_lock>>
  <2>1. KeysOK'
    BY <1>2, <1>4, KeyboardAssumption DEF KeysOK
  <2>2. UNCHANGED ring => Ring'
    BY DEF Ring, ring
  <2>3. CASE ~released /\ Following(buffer_head) # buffer_tail
    <3>1. /\ keyboard_buffer' = [keyboard_buffer EXCEPT ![buffer_head] = CharOf(k)]
          /\ buffer_head' = Following(buffer_head) /\ buffer_tail' = buffer_tail
      BY <1>4, <2>3 DEF Enqueue
    <3>2. CharOf(k) \in Chars
      BY <1>4 DEF CharOf, Chars
    <3>3. Ring' /\ Between(buffer_head, buffer_tail) < N - 1
          /\ QueueOf(keyboard_buffer, buffer_head, buffer_tail)'
             = Append(QueueOf(keyboard_buffer, buffer_head, buffer_tail), CharOf(k))
      <4>1. RingOf(keyboard_buffer, buffer_head, buffer_tail)
        BY DEF Ring
      <4>2. /\ RingOf(keyboard_buffer', buffer_head', buffer_tail)
            /\ Between(buffer_head, buffer_tail) < N - 1
            /\ Appended(QueueOf(keyboard_buffer', buffer_head', buffer_tail), CharOf(k),
                        QueueOf(keyboard_buffer, buffer_head, buffer_tail))
        BY <2>3, <3>1, <3>2, <4>1, RingAppends
      <4> QED BY <3>1, <4>2, Zenon DEF Ring, Appended
    <3>4. Len(Queue) < N - 1 /\ Queue' = Append(Queue, CharOf(k))
      BY <3>3, RingIs, QueueAfter
    <3> QED BY <1>4, <2>1, <3>2, <3>3, <3>4 DEF Handle, Typed
  <2>4. CASE ~released /\ Following(buffer_head) = buffer_tail
    <3>1. UNCHANGED ring
      BY <1>4, <2>4 DEF Enqueue, ring
    <3>2. UNCHANGED Queue /\ ~(Len(Queue) < N - 1)
      BY <2>4, <3>1, QueueKept, FullIsFull, KeyboardAssumption DEF N
    <3>3. CharOf(k) \in Chars
      BY <1>4 DEF CharOf, Chars
    <3> QED BY <1>4, <2>1, <2>2, <2>4, <3>1, <3>2, <3>3 DEF Handle, Typed
  <2>5. CASE released
    BY <1>4, <2>1, <2>2, <2>5 DEF Handle
  <2> QED BY <2>3, <2>4, <2>5
<1> QED BY <1>1, <1>3, <1>4 DEF Handle

(* A reader that takes a character takes the first that waits.             *)
LEMMA TakeKeeps ==
  ASSUME Ring, KeysOK, keyboard_available, Take
  PROVE  /\ Ring' /\ KeysOK' /\ got' \in Chars
         /\ Queue # << >> /\ got' = Head(Queue) /\ Queue' = Tail(Queue)
<1>1. /\ keyboard_buffer' = [keyboard_buffer EXCEPT ![buffer_tail] = NoChar]
      /\ buffer_tail' = Following(buffer_tail) /\ buffer_head' = buffer_head
      /\ got' = keyboard_buffer[buffer_tail]
      /\ UNCHANGED keys
  BY DEF Take
<1>2. RingOf(keyboard_buffer, buffer_head, buffer_tail) /\ buffer_head # buffer_tail
  BY DEF Ring, keyboard_available
<1>3. /\ RingOf([keyboard_buffer EXCEPT ![buffer_tail] = NoChar],
                buffer_head, Following(buffer_tail))
      /\ QueueOf(keyboard_buffer, buffer_head, buffer_tail) # << >>
      /\ keyboard_buffer[buffer_tail] = Head(QueueOf(keyboard_buffer, buffer_head, buffer_tail))
      /\ keyboard_buffer[buffer_tail] \in Chars
      /\ QueueOf([keyboard_buffer EXCEPT ![buffer_tail] = NoChar],
                 buffer_head, Following(buffer_tail))
         = Tail(QueueOf(keyboard_buffer, buffer_head, buffer_tail))
  BY <1>2, RingTakes, Zenon
<1>4. Queue = QueueOf(keyboard_buffer, buffer_head, buffer_tail)
  BY RingIs
<1>5. Ring'
  BY <1>1, <1>3, Zenon DEF Ring
<1>6. Queue' = Tail(Queue)
  <2>1. Queue' = QueueOf(keyboard_buffer, buffer_head, buffer_tail)'
    BY <1>5, QueueAfter
  <2> QED BY <2>1, <1>1, <1>3, <1>4, Zenon
<1>7. KeysOK'
  BY <1>1 DEF keys, KeysOK
<1> QED BY <1>1, <1>3, <1>4, <1>5, <1>6, <1>7

-----------------------------------------------------------------------------
(* A reader adds the character to its line.                                *)
LEMMA AddKeeps ==
  ASSUME ReaderOK, CursorOK, LineOnScreen, NEW c, AddToLine(c), UNCHANGED at,
         call \in {"readline", "shell"}, pos + 1 <= MAX_LEN - 1,
         call = "readline" => pos + 1 < MAX_LEN - 1
  PROVE  ReaderOK' /\ CursorOK' /\ LineOnScreen' /\ Idle'
<1>1. /\ pos' = pos + 1 /\ cursor' = Put(cursor, c) /\ call' = call /\ origin' = origin
      /\ straight' = (straight /\ c # Tab /\ cursor'.y = cursor.y /\ cursor'.x = cursor.x + 1)
  BY DEF AddToLine
<1>2. CursorOK'
  BY <1>1, PutOnScreen DEF CursorOK
<1>3. ReaderOK'
  BY <1>1 DEF ReaderOK
<1>4. pos \in 0 .. MAX_LEN - 1 /\ MAX_LEN \in Nat /\ origin \in Int
  BY TerminalAssumption, ConsoleAssumption DEF LineOnScreen, ReaderOK
<1>5. LineOnScreen'
  <2>1. pos' \in 0 .. MAX_LEN - 1 /\ (call' = "readline" => pos' + 1 <= MAX_LEN - 1)
    BY <1>1, <1>4
  <2>2. straight' => straight /\ cursor'.x = cursor.x + 1
    BY <1>1
  <2>3. straight' => cursor'.x = origin' + pos'
    BY <1>1, <1>4, <2>2 DEF LineOnScreen, CursorOK
  <2> QED BY <2>1, <2>3 DEF LineOnScreen
<1>6. Idle'
  BY <1>1 DEF Idle
<1> QED BY <1>2, <1>3, <1>5, <1>6

(* Rubbing out one character of the line.                                  *)
LEMMA EraseKeeps ==
  ASSUME ReaderOK, CursorOK, LineOnScreen, Erase, UNCHANGED <<call, at>>,
         call \in {"readline", "shell"}
  PROVE  ReaderOK' /\ CursorOK' /\ LineOnScreen' /\ Idle'
<1>1. ReaderOK' /\ Idle'
  BY DEF Erase, ReaderOK, Idle
<1>2. CASE ~(pos > 0)
  <2>1. UNCHANGED <<pos, cursor, straight, origin, call>>
    BY <1>2 DEF Erase
  <2> QED BY <1>1, <2>1 DEF LineOnScreen, CursorOK
<1>3. CASE pos > 0
  <2>1. pos' = pos - 1 /\ cursor' = RubOut(cursor) /\ UNCHANGED <<straight, origin, call>>
    BY <1>3 DEF Erase
  <2>2. CursorOK'
    BY <2>1, RubOutOnScreen DEF CursorOK
  <2>3. pos \in 0 .. MAX_LEN - 1 /\ MAX_LEN \in Nat /\ origin \in Nat
    BY TerminalAssumption, ConsoleAssumption DEF LineOnScreen, ReaderOK
  <2>4. straight' => cursor'.x = origin' + pos'
    <3> SUFFICES ASSUME straight PROVE cursor'.x = origin + pos'
      BY <2>1
    <3>1. cursor.x = origin + pos /\ cursor.x > 0
      BY <1>3, <2>3 DEF LineOnScreen
    <3>2. cursor' = [cursor EXCEPT !.x = cursor.x - 1]
      BY <2>1, <3>1, RubOutMoves DEF CursorOK
    <3>3. cursor'.x = cursor.x - 1
      BY <3>2 DEF CursorOK
    <3> QED BY <2>1, <2>3, <3>1, <3>3
  <2>5. LineOnScreen'
    BY <1>3, <2>1, <2>3, <2>4 DEF LineOnScreen
  <2> QED BY <1>1, <2>2, <2>5
<1> QED BY <1>2, <1>3

(* The end of a line, or of a key that is obeyed.                          *)
LEMMA EndLineKeeps ==
  ASSUME ReaderOK, CursorOK, EndCall, UNCHANGED at, NEW c,
         cursor' \in {Put(cursor, c), Home, cursor}
  PROVE  ReaderOK' /\ CursorOK' /\ LineOnScreen' /\ Idle'
<1>1. OnScreen(Home) /\ Home \in [x : Int, y : Int]
  BY ConsoleAssumption DEF Home, OnScreen
<1>2. CursorOK'
  BY <1>1, PutOnScreen DEF CursorOK
<1> QED BY <1>2, EndCallKeeps

(* A reader's step.                                                        *)
LEMMA ReaderKeeps == ASSUME Parts, ReaderStep PROVE Parts'
<1>1. CASE TestFails
  <2>1. UNCHANGED <<keyboard, cursor>>
    BY <1>1 DEF TestFails
  <2>2. KeysOK' /\ typed' \in BOOLEAN /\ Ring' /\ got' \in Chars \cup {NoChar}
    BY <2>1 DEF Parts, keyboard, keys, ring, KeysOK, Ring
  <2>3. CASE EndCall /\ at' = at
    BY <2>1, <2>2, <2>3, EndLineKeeps DEF Parts
  <2>4. CASE at' = "hlt" /\ UNCHANGED <<call, line>>
    BY <2>1, <2>2, <2>4 DEF Parts, line, ReaderOK, CursorOK, LineOnScreen, Idle
  <2> QED BY <1>1, <2>3, <2>4 DEF TestFails
<1>2. CASE Halt
  <2>1. UNCHANGED <<keyboard, call, line, cursor>> /\ at' = "halted"
    BY <1>2 DEF Halt
  <2>2. KeysOK' /\ typed' \in BOOLEAN /\ Ring' /\ got' \in Chars \cup {NoChar}
    BY <2>1 DEF Parts, keyboard, keys, ring, KeysOK, Ring
  <2> QED BY <2>1, <2>2 DEF Parts, line, ReaderOK, CursorOK, LineOnScreen, Idle
<1>3. ASSUME NEW c \in Chars, Poll(c) \/ Readline(c) \/ ShellRead(c) PROVE Parts'
  <2>1. keyboard_available /\ Take /\ UNCHANGED at /\ call \in {"poll", "readline", "shell"}
    BY <1>3 DEF Poll, Readline, ShellRead, Gets
  <2>2. KeysOK' /\ typed' \in BOOLEAN /\ Ring' /\ got' \in Chars \cup {NoChar}
    BY <2>1, TakeKeeps DEF Parts, Take, keys
  <2>3. CASE EndCall /\ cursor' \in {Put(cursor, c), Put(cursor, Newline), Home}
    BY <2>1, <2>2, <2>3, EndLineKeeps DEF Parts
  <2>4. CASE Erase /\ UNCHANGED call /\ call \in {"readline", "shell"}
    BY <2>1, <2>2, <2>4, EraseKeeps DEF Parts
  <2>5. CASE /\ AddToLine(c) /\ call \in {"readline", "shell"} /\ pos + 1 <= MAX_LEN - 1
             /\ call = "readline" => pos + 1 < MAX_LEN - 1
    BY <2>1, <2>2, <2>5, AddKeeps DEF Parts
  <2>6. CASE UNCHANGED <<call, line, cursor>>
    BY <2>1, <2>2, <2>6 DEF Parts, line, ReaderOK, CursorOK, LineOnScreen, Idle
  <2>7. pos \in 0 .. MAX_LEN - 1 /\ MAX_LEN \in Nat
    BY TerminalAssumption DEF Parts, LineOnScreen
  <2>8. CASE Poll(c)
    BY <2>3, <2>8 DEF Poll
  <2>9. CASE Readline(c)
    BY <2>3, <2>4, <2>5, <2>7, <2>9 DEF Readline, Gets, EndLine, AppendToLine
  <2>10. CASE ShellRead(c)
    BY <2>3, <2>4, <2>5, <2>6, <2>7, <2>10 DEF ShellRead, Gets, EndLine
  <2> QED BY <1>3, <2>8, <2>9, <2>10
<1> QED BY <1>1, <1>2, <1>3 DEF ReaderStep

-----------------------------------------------------------------------------
(* An interrupt, between any two steps of the reader.                      *)
LEMMA InterruptKeeps == ASSUME Parts, NEW k \in Keys, Interrupt(k) PROVE Parts'
<1>1. \E released \in BOOLEAN :
         /\ Handle(k, released)
         /\ down' = IF released THEN down \ {k} ELSE down \cup ({k} \cap Modifiers)
  BY DEF Interrupt, KeyPress, KeyRelease
<1>2. Ring' /\ KeysOK' /\ UNCHANGED got
  BY <1>1, HandleKeeps DEF Parts
<1>4. typed' \in BOOLEAN
  BY DEF Interrupt, KeyPress, KeyRelease, Parts
<1>3. UNCHANGED <<call, line, cursor>> /\ at' \in {"test", "hlt", "halted"}
  BY DEF Interrupt, Parts, ReaderOK
<1> QED BY <1>2, <1>3, <1>4 DEF Parts, line, ReaderOK, CursorOK, LineOnScreen, Idle

(* A call begins with an empty line, where the cursor stands.              *)
LEMMA BeginKeeps ==
  ASSUME Parts, NEW who \in {"poll", "readline", "shell"}, Begin(who) PROVE Parts'
<1>1. /\ call = "none" /\ call' = who /\ at' \in {"test", "hlt"}
      /\ origin' = (IF who = "poll" THEN 0 ELSE cursor.x)
      /\ UNCHANGED <<keyboard, pos, straight, cursor>>
  BY DEF Begin
<1>2. KeysOK' /\ typed' \in BOOLEAN /\ Ring' /\ got' \in Chars \cup {NoChar} /\ CursorOK'
  BY <1>1 DEF Parts, keyboard, keys, ring, KeysOK, Ring, CursorOK
<1>3. pos = 0 /\ straight
  BY <1>1 DEF Parts, Idle
<1>4. cursor.x \in 0 .. VGA_COLS - 1 /\ cursor.x \in Int /\ 0 \in 0 .. VGA_COLS - 1
  BY ConsoleAssumption DEF Parts, CursorOK, OnScreen
<1>5. ReaderOK'
  BY <1>1, <1>3, <1>4 DEF Parts, ReaderOK
<1>6. LineOnScreen' /\ Idle'
  BY <1>1, <1>3, <1>4, TerminalAssumption DEF LineOnScreen, Idle
<1> QED BY <1>2, <1>5, <1>6 DEF Parts

(* Somebody writes while nobody reads.                                     *)
LEMMA WriteKeeps == ASSUME Parts, NEW c, Write(c) PROVE Parts'
<1>1. call = "none" /\ cursor' = Put(cursor, c) /\ UNCHANGED <<keyboard, reader, line>>
  BY DEF Write
<1>2. CursorOK'
  BY <1>1, PutOnScreen DEF Parts, CursorOK
<1>3. KeysOK' /\ typed' \in BOOLEAN /\ Ring' /\ got' \in Chars \cup {NoChar} /\ ReaderOK' /\ Idle'
  BY <1>1 DEF Parts, keyboard, keys, ring, reader, line, KeysOK, Ring, ReaderOK, Idle
<1>4. LineOnScreen'
  BY <1>1 DEF Parts, reader, line, LineOnScreen
<1> QED BY <1>2, <1>3, <1>4 DEF Parts

(* Every step keeps the invariant.                                         *)
LEMMA NextKeeps == Parts /\ [Next]_vars => Parts'
<1> SUFFICES ASSUME Parts, [Next]_vars PROVE Parts'
  OBVIOUS
<1>1. CASE UNCHANGED vars
  BY <1>1 DEF vars, keyboard, keys, ring, reader, line, Parts, KeysOK, Ring, ReaderOK, CursorOK,
              LineOnScreen, Idle
<1>2. ASSUME NEW k \in Keys, Interrupt(k) PROVE Parts'
  BY <1>2, InterruptKeeps
<1>3. ASSUME NEW who \in {"poll", "readline", "shell"}, Begin(who) PROVE Parts'
  BY <1>3, BeginKeeps
<1>4. ASSUME NEW c \in Output, Write(c) PROVE Parts'
  BY <1>4, WriteKeeps
<1>5. CASE ReaderStep
  BY <1>5, ReaderKeeps
<1> QED BY <1>1, <1>2, <1>3, <1>4, <1>5 DEF Next

(* The parts are an inductive invariant of the terminal.                   *)
THEOREM Inductive == Spec => []Parts
  BY InitParts, NextKeeps, PTL DEF Spec

(* Every variable has its type; what is between tail and head of the ring, *)
(* and only that, is there to read (keyboard.c:85-138, 174-203).           *)
THEOREM TypeCorrect == Spec => []TypeOK
  BY Inductive, PartsAre, PTL

(* On a screen of any size, with any tab stop, no sequence of characters,  *)
(* erasures and scrolls takes the cursor off it (console.c:60-98).         *)
THEOREM CursorAlwaysOnScreen == Spec => []CursorOnScreen
  BY Inductive, PartsAre, PTL

(* A line of any length fits its buffer, and ends where the cursor stands  *)
(* (keyboard.c:237-267, shell.c:286-329).                                  *)
THEOREM LineAlwaysOnScreen == Spec => []LineOnScreen
  BY Inductive, PartsAre, PTL

-----------------------------------------------------------------------------
(* Every step puts a character in the queue, takes one from it, or does    *)
(* not touch it.                                                           *)
LEMMA NextRefines ==
  Parts /\ [Next]_vars => [TypedQueue!Next]_TypedQueue!vars
<1> SUFFICES ASSUME Parts, [Next]_vars PROVE TypedQueue!Next \/ UNCHANGED <<Queue, got, typed>>
  BY DEF TypedQueue!vars
<1>1. UNCHANGED ring /\ UNCHANGED got /\ UNCHANGED typed => UNCHANGED <<Queue, got, typed>>
  BY QueueKept
<1>2. CASE UNCHANGED vars
  BY <1>1, <1>2 DEF vars, keyboard, keys
<1>3. ASSUME NEW k \in Keys, Interrupt(k)
      PROVE  TypedQueue!Next \/ UNCHANGED <<Queue, got, typed>>
  <2>1. PICK released \in BOOLEAN :
           /\ Handle(k, released)
           /\ down' = IF released THEN down \ {k} ELSE down \cup ({k} \cap Modifiers)
           /\ typed' = IF k \in CharKeys /\ ~released THEN ~typed ELSE typed
    BY <1>3 DEF Interrupt, KeyPress, KeyRelease
  <2>2. /\ UNCHANGED got
        /\ IF k \in CharKeys /\ ~released THEN \E c \in Chars : Typed(c) ELSE UNCHANGED ring
    BY <2>1, HandleKeeps DEF Parts
  <2> QED BY <1>1, <2>1, <2>2 DEF TypedQueue!Next, TypedQueue!Put, Typed, N
<1>4. ASSUME NEW c \in Chars, Poll(c) \/ Readline(c) \/ ShellRead(c) PROVE TypedQueue!Next
  <2>1. keyboard_available /\ Take
    BY <1>4 DEF Poll, Readline, ShellRead, Gets
  <2>2. Queue # << >> /\ got' = Head(Queue) /\ Queue' = Tail(Queue)
    BY <2>1, TakeKeeps DEF Parts
  <2>3. UNCHANGED typed
    BY <2>1 DEF Take, keys
  <2> QED BY <2>2, <2>3 DEF TypedQueue!Next, TypedQueue!Get
<1>5. ASSUME TestFails \/ Halt PROVE UNCHANGED <<Queue, got, typed>>
  BY <1>1, <1>5 DEF TestFails, Halt, keyboard, keys
<1>6. ASSUME NEW who \in {"poll", "readline", "shell"}, Begin(who)
      PROVE  UNCHANGED <<Queue, got, typed>>
  BY <1>1, <1>6 DEF Begin, keyboard, keys
<1>7. ASSUME NEW c \in Output, Write(c) PROVE UNCHANGED <<Queue, got, typed>>
  BY <1>1, <1>7 DEF Write, keyboard, keys
<1> QED BY <1>2, <1>3, <1>4, <1>5, <1>6, <1>7 DEF Next, ReaderStep

(* With a ring of any size, interrupt handler and reader together are a    *)
(* queue that drops a character when, and only when, it is full            *)
(* (keyboard.c:174-220).                                                   *)
THEOREM Refinement == Spec => ImplementsQueue
<1>1. Init => TypedQueue!Init
  <2> SUFFICES ASSUME Init PROVE Queue = << >> /\ got \notin Chars /\ typed \in BOOLEAN
    BY DEF TypedQueue!Init
  <2>1. Ring
    BY InitParts DEF Parts
  <2>2. Queue \in Seq(Chars) /\ Len(Queue) = 0
    <3>1. Between(0, 0) = 0
      BY DEF Between
    <3> QED BY <2>1, <3>1, RingIs DEF Init, KeyboardInit
  <2>3. Queue = << >>
    BY <2>2
  <2>4. got \notin Chars /\ typed \in BOOLEAN
    BY KeyboardAssumption DEF Init, KeyboardInit
  <2> QED BY <2>3, <2>4
<1> QED BY <1>1, NextRefines, Inductive, PTL DEF Spec, ImplementsQueue, TypedQueue!Spec
=============================================================================
