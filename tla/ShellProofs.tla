----------------------------- MODULE ShellProofs -----------------------------
(***************************************************************************)
(* Proofs about user/shell.c: shell_parse_command stays within the line    *)
(* that shell_read_command terminated and finds its words, and the         *)
(* commands that open a file leave none open.                              *)
(***************************************************************************)
EXTENDS Shell, Lemmas

-----------------------------------------------------------------------------
(* A search from a position up to one where it must stop finds the first   *)
(* place.                                                                  *)
LEMMA FirstInStops ==
  ASSUME NEW b, NEW p \in Nat, NEW q \in Positions, p <= q, NEW S, b[q] \in S
  PROVE  /\ FirstIn(b, p, S) \in p .. q
         /\ b[FirstIn(b, p, S)] \in S
         /\ \A j \in p .. FirstIn(b, p, S) - 1 : b[j] \notin S
<1> DEFINE I == {i \in p .. q : b[i] \in S}
<1>1. q \in Nat /\ q <= MAX_CMD_LEN - 1 /\ MAX_CMD_LEN \in Nat
  BY ShellAssumption DEF Positions
<1>2. I \subseteq Nat /\ q \in I
  BY <1>1
<1>3. PICK m \in I : \A i \in I : m <= i
  BY <1>2, LeastElement
<1> DEFINE Is(i) == b[i] \in S /\ \A j \in p .. i - 1 : b[j] \notin S
<1>4. Is(m) /\ m \in p .. MAX_CMD_LEN - 1
  BY <1>1, <1>3
<1>5. /\ FirstIn(b, p, S) \in p .. MAX_CMD_LEN - 1
      /\ Is(FirstIn(b, p, S))
  <2> HIDE DEF Is
  <2>1. \E i \in p .. MAX_CMD_LEN - 1 : Is(i)
    BY <1>4
  <2>2. FirstIn(b, p, S) = CHOOSE i \in p .. MAX_CMD_LEN - 1 : Is(i)
    BY DEF FirstIn, Is
  <2> QED BY <2>1, <2>2
<1> DEFINE k == FirstIn(b, p, S)
<1> HIDE DEF k
<1>6. k <= q
  <2> SUFFICES ASSUME q < k PROVE FALSE
    BY <1>1, <1>5 DEF k
  <2>1. q \in p .. k - 1
    BY <1>1, <1>5 DEF k
  <2> QED BY <1>5, <2>1 DEF k
<1> QED BY <1>1, <1>5, <1>6 DEF k

LEMMA FirstNotInStops ==
  ASSUME NEW b, NEW p \in Nat, NEW q \in Positions, p <= q, NEW S, b[q] \notin S
  PROVE  /\ FirstNotIn(b, p, S) \in p .. q
         /\ b[FirstNotIn(b, p, S)] \notin S
         /\ \A j \in p .. FirstNotIn(b, p, S) - 1 : b[j] \in S
<1> DEFINE I == {i \in p .. q : b[i] \notin S}
<1>1. q \in Nat /\ q <= MAX_CMD_LEN - 1 /\ MAX_CMD_LEN \in Nat
  BY ShellAssumption DEF Positions
<1>2. I \subseteq Nat /\ q \in I
  BY <1>1
<1>3. PICK m \in I : \A i \in I : m <= i
  BY <1>2, LeastElement
<1> DEFINE Is(i) == b[i] \notin S /\ \A j \in p .. i - 1 : b[j] \in S
<1>4. Is(m) /\ m \in p .. MAX_CMD_LEN - 1
  BY <1>1, <1>3
<1>5. /\ FirstNotIn(b, p, S) \in p .. MAX_CMD_LEN - 1
      /\ Is(FirstNotIn(b, p, S))
  <2> HIDE DEF Is
  <2>1. \E i \in p .. MAX_CMD_LEN - 1 : Is(i)
    BY <1>4
  <2>2. FirstNotIn(b, p, S) = CHOOSE i \in p .. MAX_CMD_LEN - 1 : Is(i)
    BY DEF FirstNotIn, Is
  <2> QED BY <2>1, <2>2
<1> DEFINE k == FirstNotIn(b, p, S)
<1> HIDE DEF k
<1>6. k <= q
  <2> SUFFICES ASSUME q < k PROVE FALSE
    BY <1>1, <1>5 DEF k
  <2>1. q \in p .. k - 1
    BY <1>1, <1>5 DEF k
  <2> QED BY <1>5, <2>1 DEF k
<1> QED BY <1>1, <1>5, <1>6 DEF k

-----------------------------------------------------------------------------
(* What the parser works on while it stays within a line that ends at q.   *)
Parsing(q) ==
    {s \in [buf : [Positions -> Characters], args : Seq(0 .. q), at : 0 .. q] : s.buf[q] = NUL}

(* A round of the outer loop stays within the line, and finds at most one  *)
(* argument.                                                               *)
LEMMA NextArgumentStays ==
  ASSUME NEW q \in Positions, NEW s \in Parsing(q)
  PROVE  /\ NextArgument(s) \in Parsing(q)
         /\ Len(NextArgument(s).args) <= Len(s.args) + 1
<1> DEFINE start == FirstNotIn(s.buf, s.at, Blanks)
           end == FirstIn(s.buf, start, Blanks \cup {NUL})
<1>1. /\ q \in Nat /\ s.at \in Nat /\ s.at <= q /\ s.buf[q] = NUL
      /\ s.buf \in [Positions -> Characters] /\ s.args \in Seq(0 .. q) /\ s.at \in 0 .. q
      /\ NUL \in Characters /\ NUL \notin Blanks /\ 0 .. q \subseteq Positions
      /\ s = [buf |-> s.buf, args |-> s.args, at |-> s.at]
  BY ShellAssumption DEF Parsing, Positions, Characters, Blanks, Keys
<1>2. start \in s.at .. q /\ s.buf[start] \notin Blanks
  BY <1>1, FirstNotInStops
<1> HIDE DEF start
<1>3. start \in 0 .. q
  BY <1>1, <1>2
<1>4. end \in start .. q /\ s.buf[end] \in Blanks \cup {NUL}
  BY <1>1, <1>2, FirstInStops
<1> HIDE DEF end
<1>5. end \in 0 .. q /\ end \in Positions
  BY <1>1, <1>3, <1>4
<1>6. Append(s.args, start) \in Seq(0 .. q) /\ Len(Append(s.args, start)) = Len(s.args) + 1
      /\ Len(s.args) \in Nat
  BY <1>1, <1>3, AppendProperties
<1> DEFINE ended == [buf |-> s.buf, args |-> Append(s.args, start), at |-> end]
           cut == [buf |-> [s.buf EXCEPT ![end] = NUL], args |-> Append(s.args, start),
                   at |-> end + 1]
<1>7. ended \in Parsing(q)
  BY <1>1, <1>5, <1>6 DEF Parsing
<1>8. s.buf[end] # NUL => cut \in Parsing(q)
  <2> SUFFICES ASSUME s.buf[end] # NUL PROVE cut \in Parsing(q)
    OBVIOUS
  <2>1. end # q /\ end + 1 \in 0 .. q
    BY <1>1, <1>5
  <2>2. [s.buf EXCEPT ![end] = NUL] \in [Positions -> Characters]
    BY <1>1
  <2>3. [s.buf EXCEPT ![end] = NUL][q] = NUL
    BY <1>1, <2>1
  <2> QED BY <1>6, <2>1, <2>2, <2>3 DEF Parsing
<1>9. NextArgument(s) = IF s.buf[start] = NUL THEN s
                        ELSE IF s.buf[end] = NUL THEN ended ELSE cut
  BY DEF NextArgument, start, end, ended, cut
<1>10. /\ ended.args = Append(s.args, start)
       /\ cut.args = Append(s.args, start)
  OBVIOUS
<1> HIDE DEF ended, cut
<1> QED BY <1>6, <1>7, <1>8, <1>9, <1>10

(* The rounds of the loop, one after the other.                            *)
LEMMA ParsedUnfolds ==
  ASSUME NEW q \in Positions, NEW b \in [Positions -> Characters], b[q] = NUL
  PROVE  \E round : /\ round[0] = [buf |-> b, args |-> << >>, at |-> 0]
                    /\ \A n \in 1 .. MAX_ARGS - 1 : round[n] = NextArgument(round[n - 1])
                    /\ Parsed(b) = round[MAX_ARGS - 1]
<1> DEFINE S == Parsing(q)
           N == MAX_ARGS - 1
           start == [buf |-> b, args |-> << >>, at |-> 0]
           g == [x \in Nat \X S |-> NextArgument(x[2])]
           Step(r) == [n \in 0 .. N |-> IF n = 0 THEN start ELSE NextArgument(r[n - 1])]
           round == CHOOSE r : r = Step(r)
<1>1. N \in Nat /\ MAX_ARGS \in Nat
  BY ShellAssumption
<1>2. start \in S
  BY ShellAssumption DEF Parsing, Positions
<1>3. \A n \in Nat, s \in S : g[<<n, s>>] = NextArgument(s) /\ g[<<n, s>>] \in S
  BY NextArgumentStays
<1> HIDE DEF g
<1>4. PICK f : IsRecursion(f, start, g, N, S)
  <2> HIDE DEF S, start, N
  <2>1. StaysIn(g, S)
    BY <1>3 DEF StaysIn
  <2> QED BY <1>1, <1>2, <2>1, RecursionExists
<1>5. f = Step(f)
  <2>1. \A n \in 0 .. N : n # 0 => n \in Nat /\ n \in 1 .. N /\ n - 1 \in 0 .. N
                                    /\ f[n - 1] \in S
    BY <1>1, <1>4 DEF IsRecursion
  <2>2. \A n \in 0 .. N : f[n] = IF n = 0 THEN start ELSE NextArgument(f[n - 1])
    BY <1>3, <1>4, <2>1 DEF IsRecursion
  <2>3. f = [n \in 0 .. N |-> f[n]]
    BY <1>4 DEF IsRecursion
  <2> QED BY <2>2, <2>3
<1>6. round = Step(round)
  <2> HIDE DEF Step
  <2> QED BY <1>5
<1>7. Parsed(b) = round[N]
  BY DEF Parsed
<1> HIDE DEF round
<1>8. round[0] = start /\ \A n \in 1 .. N : round[n] = NextArgument(round[n - 1])
  <2>1. 0 \in 0 .. N /\ \A n \in 1 .. N : n \in 0 .. N /\ n # 0
    BY <1>1
  <2> HIDE DEF N, start
  <2> QED BY <1>6, <2>1
<1> QED BY <1>7, <1>8

(* All the rounds together: they stay within the line, and find at most    *)
(* MAX_ARGS - 1 arguments.                                                 *)
LEMMA ParsedStays ==
  ASSUME NEW q \in Positions, NEW b \in [Positions -> Characters], b[q] = NUL
  PROVE  /\ Parsed(b) \in Parsing(q)
         /\ Len(Parsed(b).args) < MAX_ARGS
<1> DEFINE S == Parsing(q)
           N == MAX_ARGS - 1
           start == [buf |-> b, args |-> << >>, at |-> 0]
<1>1. N \in Nat /\ MAX_ARGS \in Nat /\ N < MAX_ARGS
  BY ShellAssumption
<1>2. start \in S
  BY ShellAssumption DEF Parsing, Positions
<1>3. PICK round : /\ round[0] = start
                   /\ \A n \in 1 .. N : round[n] = NextArgument(round[n - 1])
                   /\ Parsed(b) = round[N]
  BY ParsedUnfolds
<1> DEFINE P == {n \in Nat : n \in 0 .. N => round[n] \in S /\ Len(round[n].args) <= n}
<1>4. 0 \in P
  BY <1>1, <1>2, <1>3
<1>5. ASSUME NEW n \in Nat, n \in P PROVE n + 1 \in P
  <2> SUFFICES ASSUME n + 1 \in 0 .. N
               PROVE  round[n + 1] \in S /\ Len(round[n + 1].args) <= n + 1
    OBVIOUS
  <2>1. n \in 0 .. N /\ n + 1 \in 1 .. N /\ (n + 1) - 1 = n
    BY <1>1
  <2>2. round[n] \in S /\ Len(round[n].args) <= n
    BY <1>5, <2>1
  <2>3. round[n + 1] = NextArgument(round[n])
    BY <1>3, <2>1
  <2>4. /\ round[n + 1] \in S
        /\ Len(round[n + 1].args) <= Len(round[n].args) + 1
    BY <2>2, <2>3, NextArgumentStays
  <2>5. round[n].args \in Seq(0 .. q) /\ round[n + 1].args \in Seq(0 .. q)
    BY <2>2, <2>4 DEF Parsing
  <2>6. Len(round[n].args) \in Nat /\ Len(round[n + 1].args) \in Nat
    BY <2>5, LenProperties
  <2> QED BY <2>2, <2>4, <2>6
<1>6. N \in P
  <2> HIDE DEF P
  <2> QED BY <1>1, <1>4, <1>5, SetInduction
<1>7. round[N] \in S /\ Len(round[N].args) <= N
  BY <1>1, <1>6
<1>8. round[N].args \in Seq(0 .. q)
  BY <1>7 DEF Parsing
<1> QED BY <1>1, <1>3, <1>7, <1>8, LenProperties

-----------------------------------------------------------------------------
(* Descriptors are opened and closed one at a time.                        *)
FileType == [FileFds -> [stage : {"unused", "open", "closed"},
                         entry : EntryIds \cup {Table!NoEntry}, pos : Nat]]

LEMMA OpenFacts ==
  ASSUME file \in FileType, NEW n \in FileFds, NEW e \in EntryIds, Table!Open(n, e)
  PROVE  file' \in FileType /\ OpenFds' = OpenFds \cup {n}
<1>1. file' = [file EXCEPT ![n] = [stage |-> "open", entry |-> e, pos |-> 0]]
  BY DEF Table!Open, Table!At
<1>2. file' \in FileType
  BY <1>1 DEF FileType
<1>3. \A m \in FileFds : file'[m].stage = IF m = n THEN "open" ELSE file[m].stage
  BY <1>1 DEF FileType
<1> QED BY <1>2, <1>3 DEF OpenFds

LEMMA CloseFacts ==
  ASSUME file \in FileType, NEW n \in FileFds, Table!Close(n)
  PROVE  file' \in FileType /\ OpenFds' = OpenFds \ {n}
<1>1. file' = [file EXCEPT ![n] = [stage |-> "closed", entry |-> Table!NoEntry, pos |-> 0]]
  BY DEF Table!Close, Table!At
<1>2. file' \in FileType
  BY <1>1 DEF FileType
<1>3. \A m \in FileFds : file'[m].stage = IF m = n THEN "closed" ELSE file[m].stage
  BY <1>1 DEF FileType
<1> QED BY <1>2, <1>3 DEF OpenFds

LEMMA ReadFacts ==
  ASSUME file \in FileType, NEW n \in FileFds, Table!Read(n)
  PROVE  file' \in FileType
<1>1. PICK p \in file[n].pos .. Size[file[n].entry] : file' = [file EXCEPT ![n].pos = p]
  BY DEF Table!Read
<1>2. file[n] \in [stage : {"unused", "open", "closed"},
                   entry : EntryIds \cup {Table!NoEntry}, pos : Nat]
  BY DEF FileType
<1>3. p \in Nat
  BY <1>1, <1>2
<1>4. [file[n] EXCEPT !.pos = p] \in [stage : {"unused", "open", "closed"},
                                      entry : EntryIds \cup {Table!NoEntry}, pos : Nat]
  BY <1>2, <1>3
<1> QED BY <1>1, <1>4 DEF FileType

-----------------------------------------------------------------------------
(* Beyond TypeOK: no argument is recorded before the line is parsed, the   *)
(* line that is parsed is terminated at pos, and a command's own           *)
(* descriptor is the only one that may be open and no other program's.     *)
LineInv ==
    /\ stage \in {"read", "parse"} => cmd_args = << >>
    /\ stage = "parse" => cmd_buffer[pos] = NUL

FilesInv ==
    /\ stage # "opened" => OpenFds \subseteq others
    /\ stage = "opened" => OpenFds \ {fd} \subseteq others

IInv == TypeOK /\ LineInv /\ FilesInv

LEMMA InitEstablishes == Init => IInv
<1> SUFFICES ASSUME Init PROVE IInv
  OBVIOUS
<1>1. file \in FileType /\ OpenFds = {}
  BY DEF Init, Table!Init, Table!At, FileType, OpenFds
<1>2. MAX_CMD_LEN \in Nat /\ MAX_ARGS \in Nat /\ MAX_CMD_LEN >= 2 /\ MAX_ARGS >= 2
  BY ShellAssumption
<1>3. Empty \in [Positions -> Characters] /\ 0 \in Positions
  BY <1>2 DEF Empty, Positions, Characters
<1>4. TypeOK
  BY <1>1, <1>2, <1>3 DEF Init, TypeOK, FileType
<1> QED BY <1>1, <1>4 DEF Init, IInv, LineInv, FilesInv

(* The prompt clears the line.                                             *)
LEMMA PromptKeeps ==
  ASSUME IInv, Prompt, stage # "opened", fd' \in {fd, -1}, UNCHANGED <<file, others>>
  PROVE  IInv'
<1>1. OpenFds' = OpenFds
  BY DEF OpenFds
<1>2. MAX_CMD_LEN \in Nat /\ MAX_ARGS \in Nat /\ MAX_CMD_LEN >= 2 /\ MAX_ARGS >= 2
  BY ShellAssumption
<1>3. Empty \in [Positions -> Characters] /\ 0 \in Positions
  BY <1>2 DEF Empty, Positions, Characters
<1>4. TypeOK'
  BY <1>2, <1>3 DEF IInv, TypeOK, Prompt
<1>5. LineInv' /\ FilesInv'
  BY <1>1 DEF IInv, FilesInv, LineInv, Prompt
<1> QED BY <1>4, <1>5 DEF IInv

LEMMA ReadKeyKeeps ==
  ASSUME IInv, NEW c \in Keys, ReadKey(c)
  PROVE  IInv'
<1>1. /\ stage = "read" /\ cmd_args = << >> /\ UNCHANGED <<fd, file, others>>
      /\ OpenFds' = OpenFds /\ OpenFds \subseteq others
  BY DEF IInv, LineInv, FilesInv, ReadKey, OpenFds
<1>2. CASE c = Enter /\ EnterLine
  <2>1. CASE pos = 0
    BY <1>1, <1>2, <2>1, PromptKeeps DEF EnterLine
  <2>2. CASE pos # 0
    <3>1. /\ stage' = "parse" /\ cmd_buffer' = [cmd_buffer EXCEPT ![pos] = NUL]
          /\ UNCHANGED <<typed, pos, cmd_args>>
      BY <1>2, <2>2 DEF EnterLine
    <3>2. cmd_buffer \in [Positions -> Characters] /\ pos \in Positions /\ NUL \in Characters
      BY DEF IInv, TypeOK, Characters
    <3>3. cmd_buffer' \in [Positions -> Characters] /\ cmd_buffer'[pos'] = NUL
      BY <3>1, <3>2
    <3> QED BY <1>1, <3>1, <3>3 DEF IInv, TypeOK, LineInv, FilesInv
  <2> QED BY <2>1, <2>2
<1>3. CASE c = CtrlC /\ Prompt
  BY <1>1, <1>3, PromptKeeps
<1>4. CASE /\ c \notin {Enter, CtrlC}
           /\ Edit(c)
           /\ typed' = Append(typed, c)
           /\ UNCHANGED <<stage, cmd_args>>
  <2>1. /\ cmd_buffer \in [Positions -> Characters] /\ pos \in 0 .. MAX_CMD_LEN - 1
        /\ MAX_CMD_LEN \in Nat /\ MAX_ARGS \in Nat /\ MAX_ARGS >= 2
    BY ShellAssumption DEF IInv, TypeOK, Positions
  <2>2. pos' \in 0 .. MAX_CMD_LEN - 1
    BY <1>4, <2>1 DEF Edit
  <2>3. cmd_buffer' \in [Positions -> Characters]
    BY <1>4, <2>1 DEF Edit, Characters
  <2>4. typed' \in Seq(Keys)
    BY <1>4 DEF IInv, TypeOK
  <2>5. << >> \in Seq(0 .. pos') /\ Len(<< >>) < MAX_ARGS
    BY <2>1
  <2>6. TypeOK'
    BY <1>1, <1>4, <2>2, <2>3, <2>4, <2>5 DEF IInv, TypeOK, Positions
  <2> QED BY <1>1, <1>4, <2>6 DEF IInv, LineInv, FilesInv
<1> QED BY <1>2, <1>3, <1>4 DEF ReadKey

(* The parser.                                                             *)
LEMMA ParseKeeps ==
  ASSUME IInv, Parse
  PROVE  IInv'
<1>1. /\ stage = "parse" /\ cmd_buffer \in [Positions -> Characters] /\ pos \in Positions
      /\ cmd_buffer[pos] = NUL /\ UNCHANGED <<typed, pos, fd, file, others>>
      /\ OpenFds' = OpenFds /\ OpenFds \subseteq others /\ stage' \in {"done", "execute"}
  BY DEF IInv, TypeOK, LineInv, FilesInv, Parse, OpenFds
<1>2. Parsed(cmd_buffer) \in Parsing(pos) /\ Len(Parsed(cmd_buffer).args) < MAX_ARGS
  BY <1>1, ParsedStays
<1>3. /\ cmd_buffer' \in [Positions -> Characters]
      /\ cmd_args' \in Seq(0 .. pos') /\ Len(cmd_args') < MAX_ARGS
  BY <1>1, <1>2 DEF Parse, Parsing
<1> QED BY <1>1, <1>3 DEF IInv, TypeOK, LineInv, FilesInv

(* Commands.                                                               *)
LEMMA ExecuteFileKeeps ==
  ASSUME IInv, ExecuteFile
  PROVE  IInv'
<1>1. /\ stage = "execute" /\ UNCHANGED <<typed, cmd_buffer, pos, cmd_args, others>>
      /\ OpenFds \subseteq others /\ file \in FileType
  BY DEF IInv, TypeOK, FilesInv, ExecuteFile, line, FileType
<1>2. CASE stage' = "done" /\ UNCHANGED <<fd, file>>
  <2>1. OpenFds' = OpenFds
    BY <1>2 DEF OpenFds
  <2> QED BY <1>1, <1>2, <2>1 DEF IInv, TypeOK, LineInv, FilesInv
<1>3. ASSUME NEW word, OpenAnswers(word), stage' = "opened" PROVE IInv'
  <2>1. /\ file' \in FileType /\ fd' \in FileFds \cup {2, 3}
        /\ OpenFds' \ {fd'} \subseteq others
    <3>1. CASE UNCHANGED file /\ fd' \in {2, 3}
      BY <1>1, <3>1 DEF OpenFds
    <3>2. ASSUME word \in DOMAIN PathOf, NEW n \in FileFds, Table!Open(n, PathOf[word]), fd' = n
          PROVE  /\ file' \in FileType /\ fd' \in FileFds \cup {2, 3}
                 /\ OpenFds' \ {fd'} \subseteq others
      <4>1. PathOf[word] \in EntryIds
        BY <3>2, ShellAssumption
      <4>2. file' \in FileType /\ OpenFds' = OpenFds \cup {n}
        BY <1>1, <3>2, <4>1, OpenFacts
      <4> QED BY <1>1, <3>2, <4>2
    <3> QED BY <1>3, <3>1, <3>2 DEF OpenAnswers
  <2> QED BY <1>1, <1>3, <2>1 DEF IInv, TypeOK, LineInv, FilesInv, FileType
<1> QED BY <1>2, <1>3 DEF ExecuteFile

LEMMA CloseFileKeeps ==
  ASSUME IInv, CloseFile
  PROVE  IInv'
<1>1. /\ stage = "opened" /\ stage' = "done"
      /\ UNCHANGED <<typed, cmd_buffer, pos, cmd_args, fd, others>>
      /\ OpenFds \ {fd} \subseteq others /\ file \in FileType
  BY DEF IInv, TypeOK, FilesInv, CloseFile, line, FileType
<1>2. file' \in FileType /\ OpenFds' \subseteq others
  <2>1. CASE fd \in OpenFds
    <3>1. fd \in FileFds /\ Table!Close(fd)
      BY <2>1 DEF CloseFile, OpenFds
    <3> QED BY <1>1, <3>1, CloseFacts
  <2>2. CASE fd \notin OpenFds
    <3>1. UNCHANGED file
      BY <2>2 DEF CloseFile
    <3> QED BY <1>1, <2>2, <3>1 DEF OpenFds
  <2> QED BY <2>1, <2>2
<1> QED BY <1>1, <1>2 DEF IInv, TypeOK, LineInv, FilesInv, FileType

LEMMA ExecuteOtherKeeps ==
  ASSUME IInv, ExecuteOther \/ ProgramReturns
  PROVE  IInv'
<1>1. /\ stage \in {"execute", "waiting"} /\ stage' \in {"halted", "done", "waiting"}
      /\ UNCHANGED <<typed, cmd_buffer, pos, cmd_args, fd, file, others>>
  BY DEF ExecuteOther, ProgramReturns, line
<1>2. OpenFds' = OpenFds
  BY <1>1 DEF OpenFds
<1> QED BY <1>1, <1>2 DEF IInv, TypeOK, LineInv, FilesInv

(* Other programs open files that are theirs from then on.                 *)
LEMMA OtherFilesKeeps ==
  ASSUME IInv, OtherFiles
  PROVE  IInv'
<1>1. /\ UNCHANGED <<stage, typed, cmd_buffer, pos, cmd_args, fd>> /\ file \in FileType
      /\ others' = {n \in FileFds : file'[n].stage = "open"
                                    /\ (n \in others \/ file[n].stage # "open")}
  BY DEF IInv, TypeOK, OtherFiles, line, FileType
<1>2. file' \in FileType
  <2>1. PICK n \in FileFds : \/ \E e \in EntryIds : Table!Open(n, e)
                             \/ Table!Read(n)
                             \/ Table!Close(n)
    BY DEF OtherFiles, Table!Next
  <2> QED BY <1>1, <2>1, OpenFacts, ReadFacts, CloseFacts
<1>3. /\ OpenFds \subseteq others => OpenFds' \subseteq others'
      /\ OpenFds \ {fd} \subseteq others => OpenFds' \ {fd'} \subseteq others'
  BY <1>1 DEF OpenFds
<1>4. others' \subseteq FileFds
  BY <1>1
<1>5. TypeOK'
  BY <1>1, <1>2, <1>4 DEF IInv, TypeOK, FileType
<1>6. FilesInv' /\ LineInv'
  BY <1>1, <1>3 DEF IInv, FilesInv, LineInv
<1> QED BY <1>5, <1>6 DEF IInv

LEMMA StepKeeps == IInv /\ [Next]_vars => IInv'
<1> SUFFICES ASSUME IInv, [Next]_vars PROVE IInv'
  OBVIOUS
<1>1. ASSUME NEW c \in Keys, ReadKey(c) PROVE IInv'
  BY <1>1, ReadKeyKeeps
<1>2. CASE Parse
  BY <1>2, ParseKeeps
<1>3. CASE ExecuteFile
  BY <1>3, ExecuteFileKeeps
<1>4. CASE CloseFile
  BY <1>4, CloseFileKeeps
<1>5. CASE ExecuteOther \/ ProgramReturns
  BY <1>5, ExecuteOtherKeeps
<1>6. CASE NextCommand
  BY <1>6, PromptKeeps DEF NextCommand
<1>7. CASE OtherFiles
  BY <1>7, OtherFilesKeeps
<1>8. CASE UNCHANGED vars
  <2>1. OpenFds' = OpenFds
    BY <1>8 DEF vars, OpenFds
  <2> QED BY <1>8, <2>1 DEF vars, line, IInv, TypeOK, LineInv, FilesInv
<1> QED BY <1>1, <1>2, <1>3, <1>4, <1>5, <1>6, <1>7, <1>8 DEF Next, ShellStep

(* Whatever is typed, and whatever other programs do with files, every     *)
(* state of the shell satisfies the invariant.                             *)
THEOREM ShellInductive == Spec => []IInv
BY InitEstablishes, StepKeeps, PTL DEF Spec

(* The line and its terminator stay in cmd_buffer, and the arguments begin *)
(* within the line and are fewer than MAX_ARGS (shell.c:56-145): for every *)
(* length of the buffer and of the argument list, and every line.          *)
THEOREM ShellTypeCorrect == Spec => []TypeOK
<1>1. IInv => TypeOK
  BY DEF IInv
<1> QED BY <1>1, ShellInductive, PTL

(* Between commands no file is open that another program did not open,     *)
(* whatever sys_open answered to cat and ls.                               *)
THEOREM FilesAlwaysGivenBack == Spec => []FilesGivenBack
<1>1. IInv => FilesGivenBack
  BY DEF IInv, FilesInv, FilesGivenBack
<1> QED BY <1>1, ShellInductive, PTL

-----------------------------------------------------------------------------
(* Where a word begins and ends in a line b that ends at q.                *)
Plain(b, q) == b[q] = NUL /\ \A j \in 0 .. q - 1 : b[j] # NUL
BeginsAt(b, k) == b[k] \notin Blanks /\ (k = 0 \/ b[k - 1] \in Blanks)
EndsAt(b, q, k, e) == /\ \A j \in k .. e - 1 : b[j] \notin Blanks
                      /\ e = q \/ b[e] \in Blanks

(* The n-th argument is a word of b, which s.buf still has and has         *)
(* terminated.                                                             *)
IsWord(b, q, s, n) ==
    /\ s.args[n] \in 0 .. q - 1
    /\ s.args[n] < s.at
    /\ BeginsAt(b, s.args[n])
    /\ \E e \in s.args[n] + 1 .. s.at :
          /\ EndsAt(b, q, s.args[n], e)
          /\ s.buf[e] = NUL
          /\ \A j \in s.args[n] .. e - 1 : s.buf[j] = b[j]

(* What the parser has found of a line b: the arguments are the words that *)
(* begin before s.at, in order, and from there on the line is as it was.   *)
Found(b, q, s) ==
    /\ s \in Parsing(q)
    /\ \A j \in s.at .. q : s.buf[j] = b[j]
    /\ s.at = 0 \/ s.at = q \/ b[s.at - 1] \in Blanks
    /\ \A n \in 1 .. Len(s.args) : IsWord(b, q, s, n)
    /\ \A m, n \in 1 .. Len(s.args) : m < n => s.args[m] < s.args[n]
    /\ \A k \in 0 .. q - 1 : k < s.at /\ BeginsAt(b, k) =>
          \E n \in 1 .. Len(s.args) : s.args[n] = k

(* No word is left.                                                        *)
Complete(b, q, s) == \A k \in 0 .. q - 1 : BeginsAt(b, k) => k < s.at

(* A round of the outer loop finds the next word, if there is one.         *)
LEMMA NextArgumentFinds ==
  ASSUME NEW q \in Positions, NEW b \in [Positions -> Characters], Plain(b, q),
         NEW s, Found(b, q, s)
  PROVE  /\ Found(b, q, NextArgument(s))
         /\ \/ Len(NextArgument(s).args) = Len(s.args) + 1
            \/ Complete(b, q, NextArgument(s))
         /\ Complete(b, q, s) => Complete(b, q, NextArgument(s))
<1> DEFINE start == FirstNotIn(s.buf, s.at, Blanks)
           end == FirstIn(s.buf, start, Blanks \cup {NUL})
           L == Len(s.args)
<1>1. /\ q \in Nat /\ s.at \in Nat /\ s.at <= q /\ s.buf[q] = NUL
      /\ s.buf \in [Positions -> Characters] /\ s.args \in Seq(0 .. q) /\ s.at \in 0 .. q
      /\ NUL \in Characters /\ NUL \notin Blanks /\ 0 .. q \subseteq Positions
      /\ \A j \in s.at .. q : s.buf[j] = b[j]
      /\ s \in Parsing(q)
  BY ShellAssumption DEF Found, Parsing, Positions, Characters, Blanks, Keys
<1>2. /\ start \in s.at .. q /\ s.buf[start] \notin Blanks
      /\ \A j \in s.at .. start - 1 : s.buf[j] \in Blanks
  BY <1>1, FirstNotInStops
<1> HIDE DEF start
<1>3. /\ start \in 0 .. q /\ b[start] = s.buf[start]
      /\ \A j \in s.at .. start - 1 : b[j] \in Blanks
  BY <1>1, <1>2
<1>4. CASE s.buf[start] = NUL
  <2>1. start = q
    <3>1. start \in 0 .. q - 1 => b[start] # NUL
      BY DEF Plain
    <3> QED BY <1>1, <1>3, <1>4, <3>1
  <2>2. NextArgument(s) = s
    BY <1>4 DEF NextArgument, start
  <2>3. Complete(b, q, s)
    <3> SUFFICES ASSUME NEW k \in 0 .. q - 1, BeginsAt(b, k), ~(k < s.at) PROVE FALSE
      BY DEF Complete
    <3>1. k \in s.at .. start - 1
      BY <1>1, <2>1
    <3> QED BY <1>3, <3>1 DEF BeginsAt
  <2> QED BY <2>2, <2>3
<1>5. CASE s.buf[start] # NUL
  <2>1. /\ end \in start .. q /\ s.buf[end] \in Blanks \cup {NUL}
        /\ \A j \in start .. end - 1 : s.buf[j] \notin Blanks \cup {NUL}
    <3>1. start \in Nat /\ start <= q /\ s.buf[q] \in Blanks \cup {NUL}
      BY <1>1, <1>2
    <3> QED BY <3>1, FirstInStops
  <2> HIDE DEF end
  <2>2. /\ end \in Nat /\ start < end /\ end <= q /\ start < q /\ end \in Positions
        /\ start \in Nat /\ b[end] = s.buf[end] /\ s.at <= start
        /\ \A j \in start .. end - 1 : s.buf[j] = b[j]
    BY <1>1, <1>2, <1>3, <1>5, <2>1
  <2>3. BeginsAt(b, start)
    <3>1. CASE s.at < start
      <4>1. start - 1 \in s.at .. start - 1
        BY <1>1, <2>2, <3>1
      <4> QED BY <1>2, <1>3, <4>1 DEF BeginsAt
    <3>2. CASE s.at = start
      <4>1. start = 0 \/ b[start - 1] \in Blanks
        BY <2>2, <3>2 DEF Found
      <4> QED BY <1>2, <1>3, <4>1 DEF BeginsAt
    <3> QED BY <1>1, <2>2, <3>1, <3>2
  <2>4. EndsAt(b, q, start, end)
    <3>1. \A j \in start .. end - 1 : b[j] \notin Blanks
      BY <2>1, <2>2
    <3>2. end = q \/ b[end] \in Blanks
      <4> SUFFICES ASSUME end # q PROVE b[end] # NUL
        BY <2>1, <2>2
      <4>1. end \in 0 .. q - 1
        BY <1>1, <2>2
      <4> QED BY <4>1 DEF Plain
    <3> QED BY <3>1, <3>2 DEF EndsAt
  <2> DEFINE t == NextArgument(s)
  <2>5. /\ t.args = Append(s.args, start)
        /\ t.at \in end .. q
        /\ t.at = end \/ t.at = end + 1
        /\ \A j \in Positions : t.buf[j] = IF j = end THEN NUL ELSE s.buf[j]
        /\ t.at = q \/ b[t.at - 1] \in Blanks
    <3>1. CASE s.buf[end] = NUL
      <4>1. t = [buf |-> s.buf, args |-> Append(s.args, start), at |-> end]
        BY <1>5, <3>1 DEF NextArgument, start, end
      <4>2. end = q
        <5> SUFFICES ASSUME end # q PROVE FALSE
          OBVIOUS
        <5>1. end \in 0 .. q - 1
          BY <1>1, <2>2
        <5> QED BY <2>2, <3>1, <5>1 DEF Plain
      <4> HIDE DEF t
      <4> QED BY <1>1, <2>2, <3>1, <4>1, <4>2
    <3>2. CASE s.buf[end] # NUL
      <4>1. t = [buf |-> [s.buf EXCEPT ![end] = NUL], args |-> Append(s.args, start),
                 at |-> end + 1]
        BY <1>5, <3>2 DEF NextArgument, start, end
      <4> HIDE DEF t
      <4>2. end # q /\ end + 1 \in end .. q /\ (end + 1) - 1 = end
        BY <1>1, <2>2, <3>2
      <4>3. b[end] \in Blanks
        BY <2>1, <2>2, <3>2
      <4> QED BY <1>1, <2>2, <4>1, <4>2, <4>3
    <3> QED BY <3>1, <3>2
  <2>6. t \in Parsing(q)
    BY <1>1, NextArgumentStays
  <2> HIDE DEF t
  <2>7. /\ L \in Nat /\ Len(t.args) = L + 1 /\ t.args[L + 1] = start
        /\ \A n \in 1 .. L : t.args[n] = s.args[n]
        /\ \A n \in 1 .. L + 1 : n = L + 1 \/ n \in 1 .. L
    <3>1. L \in Nat /\ \A n \in 1 .. L + 1 : n = L + 1 \/ n \in 1 .. L
      <4>1. L \in Nat
        BY <1>1, LenProperties
      <4> HIDE DEF L
      <4> QED BY <4>1
    <3>2. start \in 0 .. q
      BY <1>3
    <3>3. /\ Len(Append(s.args, start)) = L + 1 /\ Append(s.args, start)[L + 1] = start
          /\ \A n \in 1 .. L : Append(s.args, start)[n] = s.args[n]
      BY <1>1, <3>2, AppendProperties
    <3> QED BY <2>5, <3>1, <3>3
  <2> HIDE DEF L
  <2>8. \A j \in t.at .. q : t.buf[j] = b[j]
    <3> TAKE j \in t.at .. q
    <3>1. j \in s.at .. q /\ j \in Positions
      BY <1>1, <2>2, <2>5
    <3>2. CASE j = end
      <4>1. t.at = end /\ j = q
        <5>1. t.at = end
          BY <2>2, <2>5, <3>2
        <5>2. end = q
          <6> SUFFICES ASSUME end # q PROVE FALSE
            OBVIOUS
          <6>1. b[end - 1] \in Blanks
            BY <2>5, <5>1
          <6>2. end - 1 \in start .. end - 1
            BY <2>2
          <6> QED BY <2>1, <2>2, <6>1, <6>2
        <5> QED BY <3>2, <5>1, <5>2
      <4> QED BY <2>5, <3>1, <3>2, <4>1 DEF Plain
    <3>3. CASE j # end
      BY <1>1, <2>5, <3>1, <3>3
    <3> QED BY <3>2, <3>3
  <2>9. ASSUME NEW n \in 1 .. L PROVE IsWord(b, q, t, n) /\ s.args[n] < s.at
    <3>1. IsWord(b, q, s, n)
      BY DEF Found, L
    <3>2. PICK e \in s.args[n] + 1 .. s.at :
              /\ EndsAt(b, q, s.args[n], e)
              /\ s.buf[e] = NUL
              /\ \A j \in s.args[n] .. e - 1 : s.buf[j] = b[j]
      BY <3>1 DEF IsWord
    <3> DEFINE a == s.args[n]
    <3>a. a \in Nat /\ a < s.at
      BY <1>1, <3>1 DEF IsWord
    <3>b. e \in a + 1 .. s.at
      OBVIOUS
    <3> HIDE DEF a
    <3>c. s.at <= t.at /\ t.at \in Nat /\ s.at <= end
      BY <1>1, <2>2, <2>5
    <3>d. /\ e \in a + 1 .. t.at /\ e \in Positions
          /\ \A j \in a .. e - 1 : j \in Positions /\ j # end
      <4>1. s.at \in Nat /\ s.at <= q /\ q \in Nat /\ end \in Nat /\ 0 .. q \subseteq Positions
        BY <1>1, <2>2
      <4>2. e \in Nat /\ a + 1 <= e /\ e <= s.at /\ e \in 0 .. q
        BY <3>a, <3>b, <4>1
      <4>3. ASSUME NEW j \in a .. e - 1 PROVE j \in 0 .. q /\ j # end
        BY <3>a, <3>c, <4>1, <4>2
      <4>4. e \in a + 1 .. t.at
        BY <3>a, <3>c, <4>1, <4>2
      <4> QED BY <4>1, <4>2, <4>3, <4>4
    <3>3. /\ s.args[n] \in Nat /\ s.args[n] < s.at /\ s.at <= t.at /\ t.at \in Nat
          /\ e \in s.args[n] + 1 .. t.at /\ e \in Positions
          /\ \A j \in s.args[n] .. e - 1 : j \in Positions /\ j # end
      BY <3>a, <3>c, <3>d DEF a
    <3>4. t.buf[e] = NUL /\ \A j \in s.args[n] .. e - 1 : t.buf[j] = b[j]
      BY <2>5, <3>2, <3>3
    <3>5. s.args[n] < t.at
      BY <1>1, <3>3
    <3> QED BY <2>7, <3>1, <3>2, <3>3, <3>4, <3>5 DEF IsWord
  <2>10. IsWord(b, q, t, L + 1)
    <3>1. /\ start \in 0 .. q - 1 /\ start < t.at /\ end \in start + 1 .. t.at
          /\ \A j \in start .. end - 1 : j \in Positions /\ j # end
      BY <1>1, <2>2, <2>5
    <3>2. t.buf[end] = NUL /\ \A j \in start .. end - 1 : t.buf[j] = b[j]
      BY <2>2, <2>5, <3>1
    <3> QED BY <2>3, <2>4, <2>7, <3>1, <3>2 DEF IsWord
  <2>11. \A m, n \in 1 .. L + 1 : m < n => t.args[m] < t.args[n]
    <3> TAKE m, n \in 1 .. L + 1
    <3> HAVE m < n
    <3>1. m \in 1 .. L
      BY <2>7
    <3>2. CASE n = L + 1
      <4>1. s.args[m] < s.at /\ s.args[m] \in Nat
        <5>1. IsWord(b, q, s, m)
          BY <3>1 DEF Found, L
        <5> QED BY <1>1, <2>9, <3>1, <5>1 DEF IsWord
      <4>2. t.args[m] = s.args[m] /\ t.args[n] = start
        BY <2>7, <3>1, <3>2
      <4>3. s.at <= start /\ start \in Nat /\ s.at \in Nat
        BY <1>1, <2>2
      <4> QED BY <4>1, <4>2, <4>3
    <3>3. CASE n \in 1 .. L
      <4>1. s.args[m] < s.args[n]
        BY <3>1, <3>3 DEF Found, L
      <4> QED BY <2>7, <3>1, <3>3, <4>1
    <3> QED BY <2>7, <3>2, <3>3
  <2>12. ASSUME NEW k \in 0 .. q - 1, k < t.at, BeginsAt(b, k)
         PROVE  \E n \in 1 .. L + 1 : t.args[n] = k
    <3>1. CASE k < s.at
      <4>1. PICK n \in 1 .. L : s.args[n] = k
        BY <2>12, <3>1 DEF Found, L
      <4>2. n \in 1 .. L + 1 /\ t.args[n] = k
        BY <2>7, <4>1
      <4> QED BY <4>2
    <3>2. CASE k = start
      <4>1. L + 1 \in 1 .. L + 1
        BY <2>7
      <4> QED BY <2>7, <3>2, <4>1
    <3>3. CASE s.at <= k /\ k < start
      <4>1. k \in s.at .. start - 1
        BY <1>1, <2>2, <3>3
      <4> QED BY <1>3, <2>12, <4>1 DEF BeginsAt
    <3>4. CASE start < k
      <4>1. k - 1 \in start .. end - 1 /\ k # 0
        BY <1>1, <2>2, <2>5, <2>12, <3>4
      <4>2. b[k - 1] \notin Blanks
        BY <2>1, <2>2, <4>1
      <4> QED BY <2>12, <4>1, <4>2 DEF BeginsAt
    <3> QED BY <1>1, <2>2, <3>1, <3>2, <3>3, <3>4
  <2>13. Found(b, q, t)
    <3>1. \A n \in 1 .. L + 1 : IsWord(b, q, t, n)
      BY <2>7, <2>9, <2>10
    <3> QED BY <2>5, <2>6, <2>7, <2>8, <2>11, <2>12, <3>1 DEF Found
  <2>14. Complete(b, q, s) => Complete(b, q, t)
    BY <1>1, <2>2, <2>5 DEF Complete
  <2> QED BY <2>7, <2>13, <2>14 DEF t, L
<1> QED BY <1>4, <1>5

(* All the rounds together: all words, or as many as there may be          *)
(* arguments.                                                              *)
LEMMA ParsedFinds ==
  ASSUME NEW q \in Positions, NEW b \in [Positions -> Characters], Plain(b, q)
  PROVE  /\ Found(b, q, Parsed(b))
         /\ Len(Parsed(b).args) = MAX_ARGS - 1 \/ Complete(b, q, Parsed(b))
<1> DEFINE N == MAX_ARGS - 1
           start == [buf |-> b, args |-> << >>, at |-> 0]
<1>1. N \in Nat /\ MAX_ARGS \in Nat /\ q \in Nat /\ b[q] = NUL
  BY ShellAssumption DEF Positions, Plain
<1>2. Found(b, q, start)
  <2>1. start \in Parsing(q)
    BY <1>1 DEF Parsing
  <2>2. Len(start.args) = 0 /\ start.at = 0 /\ start.buf = b
    OBVIOUS
  <2> HIDE DEF start
  <2> QED BY <1>1, <2>1, <2>2 DEF Found
<1>3. PICK round : /\ round[0] = start
                   /\ \A n \in 1 .. N : round[n] = NextArgument(round[n - 1])
                   /\ Parsed(b) = round[N]
  BY <1>1, ParsedUnfolds
<1> DEFINE P == {n \in Nat : n \in 0 .. N =>
                    /\ Found(b, q, round[n])
                    /\ Len(round[n].args) = n \/ Complete(b, q, round[n])}
<1>4. 0 \in P
  BY <1>1, <1>2, <1>3
<1>5. ASSUME NEW n \in Nat, n \in P PROVE n + 1 \in P
  <2> SUFFICES ASSUME n + 1 \in 0 .. N
               PROVE  /\ Found(b, q, round[n + 1])
                      /\ Len(round[n + 1].args) = n + 1 \/ Complete(b, q, round[n + 1])
    OBVIOUS
  <2>1. n \in 0 .. N /\ n + 1 \in 1 .. N /\ (n + 1) - 1 = n
    BY <1>1
  <2>2. Found(b, q, round[n]) /\ (Len(round[n].args) = n \/ Complete(b, q, round[n]))
    BY <1>5, <2>1
  <2>3. round[n + 1] = NextArgument(round[n])
    BY <1>3, <2>1
  <2> QED BY <2>2, <2>3, NextArgumentFinds
<1>6. N \in P
  <2> HIDE DEF P
  <2> QED BY <1>1, <1>4, <1>5, SetInduction
<1>7. Found(b, q, round[N]) /\ (Len(round[N].args) = N \/ Complete(b, q, round[N]))
  BY <1>1, <1>6
<1> HIDE DEF P
<1> QED BY <1>3, <1>7

-----------------------------------------------------------------------------
(* What one key makes of the line, and what a line of keys does.           *)
LEMMA WithKeyFacts ==
  ASSUME NEW s \in Seq(Printable), NEW c
  PROVE  /\ WithKey(s, c) \in Seq(Printable)
         /\ c = Backspace /\ Len(s) = 0 => WithKey(s, c) = s
         /\ c = Backspace /\ Len(s) > 0 =>
              /\ Len(WithKey(s, c)) = Len(s) - 1
              /\ \A i \in 1 .. Len(s) - 1 : WithKey(s, c)[i] = s[i]
<1>1. Len(s) \in Nat /\ (s = << >> <=> Len(s) = 0)
  BY EmptySeq, LenProperties
<1>2. CASE c = Backspace /\ Len(s) > 0
  <2>1. WithKey(s, c) = SubSeq(s, 1, Len(s) - 1)
    BY <1>1, <1>2 DEF WithKey, Front
  <2>2. /\ SubSeq(s, 1, Len(s) - 1) \in Seq(Printable)
        /\ Len(SubSeq(s, 1, Len(s) - 1)) = Len(s) - 1
        /\ \A i \in 1 .. Len(s) - 1 : SubSeq(s, 1, Len(s) - 1)[i] = s[i]
    <3>1. \A i \in 1 .. Len(s) - 1 : s[i] \in Printable /\ 1 + i - 1 = i
      BY <1>1, ElementOfSeq
    <3>2. PICK n \in Nat : n = Len(s) - 1
      BY <1>1, <1>2
    <3>3. (IF 1 <= n THEN n - 1 + 1 ELSE 0) = n /\ n - 1 + 1 = n
      BY <3>2
    <3>4. /\ SubSeq(s, 1, n) \in Seq(Printable)
          /\ Len(SubSeq(s, 1, n)) = IF 1 <= n THEN n - 1 + 1 ELSE 0
          /\ \A i \in 1 .. n - 1 + 1 : SubSeq(s, 1, n)[i] = s[1 + i - 1]
      BY <3>1, <3>2, SubSeqProperties
    <3> QED BY <3>1, <3>2, <3>3, <3>4
  <2> QED BY <1>2, <2>1, <2>2
<1>3. CASE ~(c = Backspace /\ Len(s) > 0)
  BY <1>1, <1>3, AppendProperties DEF WithKey
<1> QED BY <1>2, <1>3

LEMMA EditedUnfolds ==
  ASSUME NEW keys \in Seq(Keys)
  PROVE  \E after \in [0 .. Len(keys) -> Seq(Printable)] :
            /\ after[0] = << >>
            /\ \A n \in 1 .. Len(keys) : after[n] = WithKey(after[n - 1], keys[n])
            /\ Edited(keys) = after[Len(keys)]
<1> DEFINE S == Seq(Printable)
           N == Len(keys)
           g == [x \in Nat \X S |-> WithKey(x[2], keys[x[1]])]
           Step(r) == [n \in 0 .. N |-> IF n = 0 THEN << >> ELSE WithKey(r[n - 1], keys[n])]
           after == CHOOSE r : r = Step(r)
<1>1. N \in Nat /\ << >> \in S
  BY LenProperties, EmptySeq
<1>2. \A n \in Nat, s \in S : g[<<n, s>>] = WithKey(s, keys[n]) /\ g[<<n, s>>] \in S
  BY WithKeyFacts
<1> HIDE DEF g
<1>3. PICK f : IsRecursion(f, << >>, g, N, S)
  <2> HIDE DEF S, N
  <2>1. StaysIn(g, S)
    BY <1>2 DEF StaysIn
  <2> QED BY <1>1, <2>1, RecursionExists
<1> HIDE DEF S
<1>4. f = Step(f)
  <2>1. \A n \in 0 .. N : n # 0 => n \in Nat /\ n \in 1 .. N /\ n - 1 \in 0 .. N
                                    /\ f[n - 1] \in S
    BY <1>1, <1>3 DEF IsRecursion
  <2>2. \A n \in 0 .. N : f[n] = IF n = 0 THEN << >> ELSE WithKey(f[n - 1], keys[n])
    BY <1>2, <1>3, <2>1 DEF IsRecursion
  <2>3. f = [n \in 0 .. N |-> f[n]]
    BY <1>3 DEF IsRecursion
  <2> QED BY <2>2, <2>3
<1>5. after = Step(after)
  <2> HIDE DEF Step
  <2> QED BY <1>4
<1>6. Edited(keys) = after[N]
  BY DEF Edited
<1> HIDE DEF after
<1>7. after[0] = << >> /\ \A n \in 1 .. N : after[n] = WithKey(after[n - 1], keys[n])
  <2>1. 0 \in 0 .. N /\ \A n \in 1 .. N : n \in 0 .. N /\ n # 0
    BY <1>1
  <2> HIDE DEF N
  <2> QED BY <1>5, <2>1
<1> DEFINE P == {n \in Nat : n \in 0 .. N => after[n] \in S}
<1>8. 0 \in P
  BY <1>1, <1>7
<1>9. ASSUME NEW n \in Nat, n \in P PROVE n + 1 \in P
  <2> SUFFICES ASSUME n + 1 \in 0 .. N PROVE after[n + 1] \in S
    OBVIOUS
  <2>1. n \in 0 .. N /\ n + 1 \in 1 .. N /\ (n + 1) - 1 = n
    BY <1>1
  <2>2. after[n] \in S
    BY <1>9, <2>1
  <2> QED BY <1>7, <2>1, <2>2, WithKeyFacts DEF S
<1>10. Nat \subseteq P
  <2> HIDE DEF P
  <2> QED BY <1>8, <1>9, SetInduction
<1>11. after \in [0 .. N -> S]
  <2>1. \A n \in 0 .. N : after[n] \in S
    BY <1>1, <1>10
  <2>2. after = [n \in 0 .. N |-> after[n]]
    <3>1. after = [n \in 0 .. N |-> IF n = 0 THEN << >> ELSE WithKey(after[n - 1], keys[n])]
      BY <1>5
    <3> HIDE DEF N
    <3> QED BY <3>1
  <2> HIDE DEF N
  <2> QED BY <2>1, <2>2
<1> QED BY <1>6, <1>7, <1>11 DEF S

(* The keys one by one.                                                    *)
LEMMA EditedEmpty == Edited(<< >>) = << >>
<1>1. << >> \in Seq(Keys) /\ Len(<< >>) = 0
  BY EmptySeq
<1> QED BY <1>1, EditedUnfolds

LEMMA EditedAppend ==
  ASSUME NEW t \in Seq(Keys), NEW c \in Keys
  PROVE  /\ Edited(t) \in Seq(Printable)
         /\ Edited(Append(t, c)) = WithKey(Edited(t), c)
<1> DEFINE N == Len(t)
           u == Append(t, c)
<1>1. /\ N \in Nat /\ u \in Seq(Keys) /\ Len(u) = N + 1 /\ u[N + 1] = c
      /\ \A n \in 1 .. N : u[n] = t[n]
  BY LenProperties, AppendProperties
<1> HIDE DEF u
<1>2. PICK a \in [0 .. N -> Seq(Printable)] :
          /\ a[0] = << >>
          /\ \A n \in 1 .. N : a[n] = WithKey(a[n - 1], t[n])
          /\ Edited(t) = a[N]
  BY EditedUnfolds
<1>3. PICK b \in [0 .. Len(u) -> Seq(Printable)] :
          /\ b[0] = << >>
          /\ \A n \in 1 .. Len(u) : b[n] = WithKey(b[n - 1], u[n])
          /\ Edited(u) = b[Len(u)]
  BY <1>1, EditedUnfolds
<1> HIDE DEF N
<1> DEFINE P == {n \in Nat : n \in 0 .. N => a[n] = b[n]}
<1>4. 0 \in P
  BY <1>2, <1>3
<1>5. ASSUME NEW n \in Nat, n \in P PROVE n + 1 \in P
  <2> SUFFICES ASSUME n + 1 \in 0 .. N PROVE a[n + 1] = b[n + 1]
    OBVIOUS
  <2>1. n \in 0 .. N /\ n + 1 \in 1 .. N /\ n + 1 \in 1 .. Len(u) /\ (n + 1) - 1 = n
    BY <1>1
  <2>2. a[n] = b[n]
    BY <1>5, <2>1
  <2>3. a[n + 1] = WithKey(a[n], t[n + 1]) /\ b[n + 1] = WithKey(b[n], u[n + 1])
    BY <1>2, <1>3, <2>1
  <2> QED BY <1>1, <2>1, <2>2, <2>3
<1>6. Nat \subseteq P
  <2> HIDE DEF P
  <2> QED BY <1>4, <1>5, SetInduction
<1>7. N \in 0 .. N /\ N + 1 \in 1 .. Len(u) /\ (N + 1) - 1 = N
  BY <1>1
<1>8. a[N] = b[N]
  BY <1>1, <1>6, <1>7
<1>9. b[N + 1] = WithKey(b[N], u[N + 1])
  BY <1>3, <1>7
<1> QED BY <1>1, <1>2, <1>3, <1>7, <1>8, <1>9 DEF u

-----------------------------------------------------------------------------
(* The line b shows the text t and ends at q.                              *)
Shows(b, q, t) == /\ t \in Seq(Printable) /\ Len(t) = q
                  /\ \A k \in 0 .. q - 1 : b[k] = t[k + 1]

(* The words of the text are those of the line.                            *)
LEMMA StartsAreBegins ==
  ASSUME NEW q \in Nat, NEW b, NEW t, Shows(b, q, t)
  PROVE  WordStarts(t) = {i \in 1 .. q : BeginsAt(b, i - 1)}
<1>1. DOMAIN t = 1 .. q
  BY DEF Shows
<1>2. ASSUME NEW i \in 1 .. q
      PROVE  (t[i] \notin Blanks /\ (i = 1 \/ t[i - 1] \in Blanks)) <=> BeginsAt(b, i - 1)
  <2>1. i - 1 \in 0 .. q - 1 /\ (i - 1) + 1 = i /\ (i - 1 = 0 <=> i = 1)
    OBVIOUS
  <2>2. b[i - 1] = t[i]
    BY <2>1 DEF Shows
  <2>3. i # 1 => b[(i - 1) - 1] = t[i - 1]
    <3> SUFFICES ASSUME i # 1 PROVE b[(i - 1) - 1] = t[i - 1]
      OBVIOUS
    <3>1. (i - 1) - 1 \in 0 .. q - 1 /\ ((i - 1) - 1) + 1 = i - 1
      OBVIOUS
    <3> QED BY <3>1 DEF Shows
  <2> QED BY <2>1, <2>2, <2>3 DEF BeginsAt
<1> QED BY <1>1, <1>2 DEF WordStarts

LEMMA WordIs ==
  ASSUME NEW q \in Nat, NEW b, NEW t, Shows(b, q, t),
         NEW a \in 0 .. q - 1, NEW e \in a + 1 .. q, EndsAt(b, q, a, e)
  PROVE  WordAt(t, a + 1) = SubSeq(t, a + 1, e)
<1> DEFINE Ends(j) == /\ \A k \in a + 1 .. j : t[k] \notin Blanks
                      /\ j = Len(t) \/ t[j + 1] \in Blanks
<1>1. Len(t) = q /\ \A k \in 1 .. q : t[k] = b[k - 1]
  <2>1. \A k \in 1 .. q : k - 1 \in 0 .. q - 1 /\ (k - 1) + 1 = k
    OBVIOUS
  <2> QED BY <2>1 DEF Shows
<1>2. Ends(e)
  <2>1. ASSUME NEW k \in a + 1 .. e PROVE t[k] \notin Blanks
    <3>1. k \in 1 .. q /\ k - 1 \in a .. e - 1
      OBVIOUS
    <3> QED BY <1>1, <3>1 DEF EndsAt
  <2>2. e # q => t[e + 1] \in Blanks
    <3> SUFFICES ASSUME e # q PROVE t[e + 1] \in Blanks
      OBVIOUS
    <3>1. e + 1 \in 1 .. q /\ (e + 1) - 1 = e
      OBVIOUS
    <3> QED BY <1>1, <3>1 DEF EndsAt
  <2> QED BY <1>1, <2>1, <2>2
<1>3. ASSUME NEW j \in a + 1 .. Len(t), Ends(j) PROVE j = e
  <2>1. j \in Nat /\ e \in Nat /\ a + 1 <= j /\ a + 1 <= e /\ j <= q /\ e <= q /\ a \in Nat
    BY <1>1
  <2>2. ~(j < e)
    <3> SUFFICES ASSUME j < e PROVE FALSE
      OBVIOUS
    <3>1. j + 1 \in a + 1 .. e /\ j # q
      BY <2>1
    <3> QED BY <1>1, <1>2, <1>3, <3>1
  <2>3. ~(e < j)
    <3> SUFFICES ASSUME e < j PROVE FALSE
      OBVIOUS
    <3>1. e + 1 \in a + 1 .. j /\ e # q
      BY <2>1
    <3> QED BY <1>1, <1>2, <1>3, <3>1
  <2> QED BY <2>1, <2>2, <2>3
<1>4. e \in a + 1 .. Len(t)
  BY <1>1
<1>5. WordAt(t, a + 1) = SubSeq(t, a + 1, CHOOSE j \in a + 1 .. Len(t) : Ends(j))
  BY DEF WordAt
<1> HIDE DEF Ends
<1>6. (CHOOSE j \in a + 1 .. Len(t) : Ends(j)) = e
  BY <1>2, <1>3, <1>4
<1> QED BY <1>5, <1>6

-----------------------------------------------------------------------------
(* While the line is read, cmd_buffer shows what was typed and not erased. *)
(* From the parser on there is the line it was given, which showed that,   *)
(* and in which it has found all words or as many as it may.               *)
WordsInv ==
    /\ stage \in {"read", "parse"} => Shows(cmd_buffer, pos, Edited(typed))
    /\ stage \notin {"read", "parse"} =>
          \E b \in [Positions -> Characters], s \in Parsing(pos) :
             /\ Plain(b, pos)
             /\ Shows(b, pos, Edited(typed))
             /\ Found(b, pos, s)
             /\ Len(s.args) = MAX_ARGS - 1 \/ Complete(b, pos, s)
             /\ s.buf = cmd_buffer /\ s.args = cmd_args

(* The string at an argument is the word that begins there.                *)
LEMMA StringIsWord ==
  ASSUME IInv, NEW b \in [Positions -> Characters], NEW t, NEW s, NEW n \in 1 .. Len(s.args),
         Plain(b, pos), Shows(b, pos, t), IsWord(b, pos, s, n), s \in Parsing(pos),
         s.buf = cmd_buffer
  PROVE  StringAt(s.args[n]) = WordAt(t, s.args[n] + 1)
<1> DEFINE a == s.args[n]
           q == pos
<1>1. /\ q \in Nat /\ q \in Positions /\ 0 .. q \subseteq Positions /\ s.at \in 0 .. q
      /\ MAX_CMD_LEN \in Nat /\ q <= MAX_CMD_LEN - 1
  BY ShellAssumption DEF IInv, TypeOK, Positions, Parsing
<1>2. a \in 0 .. q - 1 /\ a < s.at
  BY DEF IsWord
<1>3. PICK e \in a + 1 .. s.at : /\ EndsAt(b, q, a, e)
                                 /\ s.buf[e] = NUL
                                 /\ \A j \in a .. e - 1 : s.buf[j] = b[j]
  BY DEF IsWord
<1> HIDE DEF a
<1>4. e \in a + 1 .. q /\ e \in Nat /\ a \in Nat /\ a < e /\ e <= q
  BY <1>1, <1>2
<1>5. FirstIn(cmd_buffer, a, {NUL}) = e
  <2> DEFINE k == FirstIn(cmd_buffer, a, {NUL})
  <2>1. cmd_buffer[e] \in {NUL} /\ e \in Positions /\ a <= e
    BY <1>1, <1>3, <1>4
  <2>2. k \in a .. e /\ cmd_buffer[k] \in {NUL}
    BY <1>4, <2>1, FirstInStops
  <2> HIDE DEF k
  <2>3. \A j \in a .. e - 1 : cmd_buffer[j] # NUL
    <3> TAKE j \in a .. e - 1
    <3>1. j \in 0 .. q - 1
      BY <1>1, <1>4
    <3> QED BY <1>3, <3>1 DEF Plain
  <2>4. k = e \/ k \in a .. e - 1
    BY <1>4, <2>2
  <2> QED BY <2>2, <2>3, <2>4 DEF k
<1>6. StringAt(a) = [i \in 1 .. e - a |-> t[a + i]]
  <2>1. StringAt(a) = [i \in 1 .. e - a |-> cmd_buffer[a + i - 1]]
    BY <1>5 DEF StringAt
  <2>2. ASSUME NEW i \in 1 .. e - a PROVE cmd_buffer[a + i - 1] = t[a + i]
    <3>1. a + i - 1 \in a .. e - 1 /\ a + i - 1 \in 0 .. q - 1 /\ (a + i - 1) + 1 = a + i
      BY <1>1, <1>4
    <3>2. cmd_buffer[a + i - 1] = b[a + i - 1]
      BY <1>3, <3>1
    <3>3. b[a + i - 1] = t[(a + i - 1) + 1]
      BY <3>1 DEF Shows
    <3> QED BY <3>1, <3>2, <3>3
  <2> QED BY <2>1, <2>2
<1>7. SubSeq(t, a + 1, e) = [i \in 1 .. e - a |-> t[a + i]]
  <2> DEFINE u == SubSeq(t, a + 1, e)
             w == a + 1
  <2>1. \A i \in w .. e : t[i] \in Printable
    <3>1. t \in Seq(Printable) /\ Len(t) = q
      BY DEF Shows
    <3>2. \A i \in w .. e : i \in 1 .. Len(t)
      BY <1>1, <1>4, <3>1
    <3> QED BY <3>1, <3>2, ElementOfSeq
  <2>2. w \in Int /\ e \in Int /\ w <= e /\ e - w + 1 = e - a
        /\ \A i \in 1 .. e - a : w + i - 1 = a + i
    BY <1>4
  <2>3. u \in Seq(Printable) /\ Len(u) = e - a /\ \A i \in 1 .. e - a : u[i] = t[a + i]
    <3> HIDE DEF w
    <3>1. /\ SubSeq(t, w, e) \in Seq(Printable)
          /\ Len(SubSeq(t, w, e)) = IF w <= e THEN e - w + 1 ELSE 0
          /\ \A i \in 1 .. e - w + 1 : SubSeq(t, w, e)[i] = t[w + i - 1]
      BY <2>1, <2>2, SubSeqProperties
    <3> QED BY <2>2, <3>1 DEF w
  <2> HIDE DEF u
  <2>4. u = [i \in 1 .. e - a |-> u[i]]
    BY <2>3
  <2> QED BY <2>3, <2>4 DEF u
<1>8. WordAt(t, a + 1) = SubSeq(t, a + 1, e)
  BY <1>1, <1>2, <1>3, <1>4, WordIs
<1> QED BY <1>6, <1>7, <1>8 DEF a

(* What WordsInv says of a parsed line is the property.                    *)
LEMMA WordsSuffice == IInv /\ WordsInv => ArgumentsAreTyped
<1> SUFFICES ASSUME IInv, WordsInv, stage \notin {"read", "parse"}
             PROVE  LET starts == WordStarts(Edited(typed))
                    IN  /\ Len(Args) = IF Cardinality(starts) < MAX_ARGS
                                       THEN Cardinality(starts) ELSE MAX_ARGS - 1
                        /\ \A n \in DOMAIN Args : \E i \in starts :
                              /\ Cardinality({j \in starts : j < i}) = n - 1
                              /\ Args[n] = WordAt(Edited(typed), i)
  BY DEF ArgumentsAreTyped
<1> DEFINE t == Edited(typed)
           starts == WordStarts(t)
           q == pos
           L == Len(cmd_args)
           at == [n \in 1 .. L |-> cmd_args[n] + 1]
<1>1. PICK b \in [Positions -> Characters], s \in Parsing(q) :
          /\ Plain(b, q)
          /\ Shows(b, q, t)
          /\ Found(b, q, s)
          /\ Len(s.args) = MAX_ARGS - 1 \/ Complete(b, q, s)
          /\ s.buf = cmd_buffer /\ s.args = cmd_args
  BY DEF WordsInv
<1>2. /\ q \in Nat /\ MAX_ARGS \in Nat /\ cmd_args \in Seq(0 .. q) /\ L \in Nat
      /\ L < MAX_ARGS /\ DOMAIN cmd_args = 1 .. L /\ s.at \in 0 .. q
  BY ShellAssumption, LenProperties DEF IInv, TypeOK, Positions, Parsing
<1> HIDE DEF t
<1>3. starts = {i \in 1 .. q : BeginsAt(b, i - 1)}
  BY <1>1, <1>2, StartsAreBegins
<1> HIDE DEF starts
<1>4. ASSUME NEW n \in 1 .. L
      PROVE  /\ IsWord(b, q, s, n)
             /\ cmd_args[n] \in Nat /\ cmd_args[n] < s.at
             /\ at[n] \in starts
  <2>1. IsWord(b, q, s, n)
    BY <1>1 DEF Found
  <2>2. /\ cmd_args[n] \in 0 .. q - 1 /\ cmd_args[n] < s.at /\ BeginsAt(b, cmd_args[n])
    BY <1>1, <2>1 DEF IsWord
  <2>3. cmd_args[n] + 1 \in 1 .. q /\ (cmd_args[n] + 1) - 1 = cmd_args[n]
    BY <1>2, <2>2
  <2> QED BY <1>2, <1>3, <2>1, <2>2, <2>3
<1>5. ASSUME NEW m \in 1 .. L, NEW n \in 1 .. L
      PROVE  (at[m] < at[n] <=> m < n) /\ (at[m] = at[n] => m = n)
  <2>1. (m < n => cmd_args[m] < cmd_args[n]) /\ (n < m => cmd_args[n] < cmd_args[m])
    BY <1>1 DEF Found
  <2>2. cmd_args[m] \in Nat /\ cmd_args[n] \in Nat
    BY <1>4
  <2>3. at[m] = cmd_args[m] + 1 /\ at[n] = cmd_args[n] + 1
    OBVIOUS
  <2> HIDE DEF at
  <2>4. m = n \/ m < n \/ n < m
    BY <1>2
  <2> QED BY <1>2, <2>1, <2>2, <2>3, <2>4
<1>6. ASSUME NEW i \in starts, i - 1 < s.at PROVE \E n \in 1 .. L : at[n] = i
  <2>1. i - 1 \in 0 .. q - 1 /\ BeginsAt(b, i - 1) /\ (i - 1) + 1 = i
    BY <1>2, <1>3
  <2>2. PICK n \in 1 .. L : cmd_args[n] = i - 1
    BY <1>1, <1>6, <2>1 DEF Found
  <2> QED BY <2>1, <2>2
<1>7. IsFiniteSet(starts)
  <2>1. starts \in SUBSET (1 .. q)
    BY <1>3
  <2>2. IsFiniteSet(1 .. q)
    BY <1>2, FS_Interval
  <2> QED BY <2>1, <2>2, FS_Subset
<1> DEFINE T == {at[m] : m \in 1 .. L}
<1>8. IsFiniteSet(T) /\ Cardinality(T) = L
  <2>1. \A m \in 1 .. L : at[m] \in T
    OBVIOUS
  <2>2. \A x \in T : \E m \in 1 .. L : at[m] = x
    OBVIOUS
  <2> HIDE DEF at, T, L
  <2> QED BY <1>2, <1>5, <2>1, <2>2, CountNumbered
<1>9. L = IF Cardinality(starts) < MAX_ARGS THEN Cardinality(starts) ELSE MAX_ARGS - 1
  <2>1. CASE Complete(b, q, s)
    <3>1. ASSUME NEW i \in starts PROVE i \in T
      <4>1. i \in 1 .. q /\ BeginsAt(b, i - 1) /\ i - 1 \in 0 .. q - 1
        BY <1>2, <1>3
      <4>2. i - 1 < s.at
        BY <2>1, <4>1 DEF Complete
      <4> QED BY <1>6, <4>2
    <3>2. T = starts
      BY <1>4, <3>1
    <3> QED BY <1>2, <1>8, <3>2
  <2>2. CASE ~Complete(b, q, s)
    <3>1. L = MAX_ARGS - 1
      BY <1>1, <2>2
    <3>2. T \in SUBSET starts
      BY <1>4
    <3>3. L <= Cardinality(starts) /\ Cardinality(starts) \in Nat
      BY <1>7, <1>8, <3>2, FS_Subset, FS_CardinalityType
    <3> QED BY <1>2, <3>1, <3>3
  <2> QED BY <2>1, <2>2
<1>10. DOMAIN Args = 1 .. L /\ Len(Args) = L /\ \A n \in 1 .. L : Args[n] = StringAt(cmd_args[n])
  <2>1. Args = [i \in 1 .. L |-> StringAt(cmd_args[i])]
    BY <1>2 DEF Args
  <2> QED BY <1>2, <2>1
<1>11. ASSUME NEW n \in 1 .. L
       PROVE  /\ Cardinality({j \in starts : j < at[n]}) = n - 1
              /\ Args[n] = WordAt(t, at[n])
  <2>1. {j \in starts : j < at[n]} = {at[m] : m \in 1 .. n - 1}
    <3>1. ASSUME NEW m \in 1 .. n - 1 PROVE at[m] \in starts /\ at[m] < at[n]
      <4>1. m \in 1 .. L /\ m < n
        BY <1>2
      <4> QED BY <1>4, <1>5, <4>1
    <3>2. ASSUME NEW j \in starts, j < at[n] PROVE \E m \in 1 .. n - 1 : at[m] = j
      <4>1. j - 1 < s.at
        BY <1>2, <1>3, <1>4, <3>2
      <4>2. PICK m \in 1 .. L : at[m] = j
        BY <1>6, <4>1
      <4>3. m < n
        BY <1>5, <3>2, <4>2
      <4>4. m \in 1 .. n - 1
        BY <1>2, <4>3
      <4> QED BY <4>2, <4>4
    <3> HIDE DEF at
    <3> QED BY <3>1, <3>2
  <2>2. n - 1 \in Nat /\ 1 .. n - 1 \subseteq 1 .. L
    BY <1>2
  <2>3. Cardinality({at[m] : m \in 1 .. n - 1}) = n - 1
    <3> DEFINE B == {at[m] : m \in 1 .. n - 1}
               k == n - 1
    <3> HIDE DEF at
    <3>1. \A i, j \in 1 .. k : at[i] = at[j] => i = j
      BY <1>5, <2>2
    <3>2. (\A m \in 1 .. k : at[m] \in B) /\ \A x \in B : \E m \in 1 .. k : at[m] = x
      OBVIOUS
    <3>3. k \in Nat
      BY <2>2
    <3> HIDE DEF B, k
    <3>4. Cardinality(B) = k
      BY <3>1, <3>2, <3>3, CountNumbered
    <3> QED BY <3>4 DEF B, k
  <2>4. StringAt(s.args[n]) = WordAt(t, s.args[n] + 1)
    BY <1>1, <1>4, StringIsWord
  <2> QED BY <1>1, <1>10, <2>1, <2>3, <2>4
<1>12. ASSUME NEW n \in 1 .. L
       PROVE  \E i \in starts : /\ Cardinality({j \in starts : j < i}) = n - 1
                                /\ Args[n] = WordAt(t, i)
  <2> HIDE DEF at
  <2> QED BY <1>4, <1>11
<1> QED BY <1>9, <1>10, <1>12 DEF starts, t

-----------------------------------------------------------------------------
(* An empty line shows that nothing was typed.                             *)
LEMMA NothingShown ==
  ASSUME NEW b
  PROVE  Shows(b, 0, Edited(<< >>))
<1>1. << >> \in Seq(Printable) /\ Len(<< >>) = 0 /\ 0 .. 0 - 1 = {}
  BY EmptySeq
<1> QED BY <1>1, EditedEmpty DEF Shows

LEMMA ReadKeyShows ==
  ASSUME IInv, WordsInv, NEW c \in Keys, ReadKey(c)
  PROVE  WordsInv'
<1> DEFINE t == Edited(typed)
<1>1. /\ stage = "read" /\ typed \in Seq(Keys) /\ pos \in Positions
      /\ cmd_buffer \in [Positions -> Characters] /\ Shows(cmd_buffer, pos, t)
  BY DEF ReadKey, IInv, TypeOK, WordsInv
<1>2. /\ pos \in Nat /\ pos <= MAX_CMD_LEN - 1 /\ MAX_CMD_LEN \in Nat
      /\ 0 .. pos \subseteq Positions
  BY <1>1, ShellAssumption DEF Positions
<1>3. CASE Prompt
  BY <1>3, NothingShown DEF Prompt, WordsInv
<1>4. CASE stage' = "parse" /\ cmd_buffer' = [cmd_buffer EXCEPT ![pos] = NUL]
           /\ UNCHANGED <<typed, pos, cmd_args>>
  <2>1. \A k \in 0 .. pos - 1 : k \in Positions /\ k # pos
    BY <1>2
  <2>2. \A k \in 0 .. pos - 1 : cmd_buffer'[k] = cmd_buffer[k]
    BY <1>1, <1>4, <2>1
  <2>3. Shows(cmd_buffer', pos, t)
    BY <1>1, <2>2 DEF Shows
  <2> QED BY <1>4, <2>3 DEF WordsInv
<1>5. CASE c \notin {Enter, CtrlC} /\ Edit(c) /\ typed' = Append(typed, c)
           /\ UNCHANGED <<stage, cmd_args>>
  <2> DEFINE u == WithKey(t, c)
  <2>1. t \in Seq(Printable) /\ Edited(typed') = u
    BY <1>1, <1>5, EditedAppend
  <2> HIDE DEF t
  <2>2. Len(t) = pos /\ \A k \in 0 .. pos - 1 : cmd_buffer[k] = t[k + 1]
    BY <1>1 DEF Shows
  <2>3. u \in Seq(Printable)
    BY <2>1, WithKeyFacts
  <2>4. Shows(cmd_buffer', pos', u)
    <3>1. CASE c = Backspace /\ pos = 0
      <4>1. u = t
        BY <2>1, <2>2, <3>1, WithKeyFacts
      <4>2. c \notin Printable
        BY <3>1, ShellAssumption
      <4>3. pos' = pos /\ cmd_buffer' = cmd_buffer
        BY <1>2, <1>5, <3>1, <4>2 DEF Edit
      <4> QED BY <1>1, <4>1, <4>3 DEF Shows
    <3>2. CASE c = Backspace /\ pos # 0
      <4>1. Len(u) = pos - 1 /\ \A i \in 1 .. pos - 1 : u[i] = t[i]
        BY <1>2, <2>1, <2>2, <3>2, WithKeyFacts
      <4>2. c \notin Printable
        BY <3>2, ShellAssumption
      <4>3. pos' = pos - 1 /\ cmd_buffer' = cmd_buffer
        BY <1>2, <1>5, <3>2, <4>2 DEF Edit
      <4>4. \A k \in 0 .. pos' - 1 : k \in 0 .. pos - 1 /\ k + 1 \in 1 .. pos - 1
        BY <1>2, <4>3
      <4> HIDE DEF u
      <4> QED BY <2>2, <2>3, <4>1, <4>3, <4>4 DEF Shows
    <3>3. CASE c # Backspace /\ c \in Printable /\ pos < MAX_CMD_LEN - 1
      <4>1. u = Append(t, c)
        BY <2>2, <3>3 DEF WithKey
      <4>2. pos' = pos + 1 /\ cmd_buffer' = [cmd_buffer EXCEPT ![pos] = c]
        BY <1>5, <3>3 DEF Edit
      <4>3. Len(u) = pos + 1 /\ u[pos + 1] = c /\ \A i \in 1 .. pos : u[i] = t[i]
        BY <2>1, <2>2, <3>3, <4>1, AppendProperties
      <4> HIDE DEF u
      <4>4. ASSUME NEW k \in 0 .. pos' - 1 PROVE cmd_buffer'[k] = u[k + 1]
        <5>1. k = pos \/ (k \in 0 .. pos - 1 /\ k + 1 \in 1 .. pos /\ k # pos)
          BY <1>2, <4>2
        <5>2. k \in Positions
          BY <1>2, <5>1
        <5> QED BY <1>1, <2>2, <4>2, <4>3, <5>1, <5>2
      <4> QED BY <2>3, <4>2, <4>3, <4>4 DEF Shows
    <3>4. CASE c # Backspace /\ ~(c \in Printable /\ pos < MAX_CMD_LEN - 1)
      <4>1. u = t
        BY <2>2, <3>4 DEF WithKey
      <4>2. pos' = pos /\ cmd_buffer' = cmd_buffer
        BY <1>5, <3>4 DEF Edit
      <4> QED BY <1>1, <4>1, <4>2 DEF Shows
    <3> QED BY <3>1, <3>2, <3>3, <3>4
  <2> QED BY <1>1, <1>5, <2>1, <2>4 DEF WordsInv
<1> QED BY <1>3, <1>4, <1>5 DEF ReadKey, EnterLine

LEMMA ParseFinds ==
  ASSUME IInv, WordsInv, Parse
  PROVE  WordsInv'
<1>1. /\ stage = "parse" /\ stage' \in {"done", "execute"} /\ UNCHANGED <<typed, pos>>
      /\ cmd_buffer \in [Positions -> Characters] /\ pos \in Positions
      /\ cmd_buffer[pos] = NUL /\ Shows(cmd_buffer, pos, Edited(typed))
  BY DEF Parse, IInv, TypeOK, LineInv, WordsInv
<1>2. Plain(cmd_buffer, pos)
  <2> SUFFICES ASSUME NEW j \in 0 .. pos - 1 PROVE cmd_buffer[j] # NUL
    BY <1>1 DEF Plain
  <2>1. j + 1 \in 1 .. pos
    BY <1>1, ShellAssumption DEF Positions
  <2>2. cmd_buffer[j] \in Printable
    BY <1>1, <2>1, ElementOfSeq DEF Shows
  <2> QED BY <2>2, ShellAssumption DEF Keys
<1> DEFINE s == Parsed(cmd_buffer)
<1>3. /\ Found(cmd_buffer, pos, s)
      /\ Len(s.args) = MAX_ARGS - 1 \/ Complete(cmd_buffer, pos, s)
  BY <1>1, <1>2, ParsedFinds
<1>4. s \in Parsing(pos) /\ s.buf = cmd_buffer' /\ s.args = cmd_args'
  BY <1>3 DEF Found, Parse
<1> HIDE DEF s
<1> QED BY <1>1, <1>2, <1>3, <1>4 DEF WordsInv

LEMMA StepFinds == IInv /\ WordsInv /\ [Next]_vars => WordsInv'
<1> SUFFICES ASSUME IInv, WordsInv, [Next]_vars PROVE WordsInv'
  OBVIOUS
<1>1. ASSUME NEW c \in Keys, ReadKey(c) PROVE WordsInv'
  BY <1>1, ReadKeyShows
<1>2. CASE Parse
  BY <1>2, ParseFinds
<1>3. CASE ExecuteFile \/ CloseFile \/ ExecuteOther \/ ProgramReturns
  <2>1. /\ UNCHANGED line /\ stage \notin {"read", "parse"} /\ stage' \notin {"read", "parse"}
    BY <1>3 DEF ExecuteFile, CloseFile, ExecuteOther, ProgramReturns
  <2> QED BY <2>1 DEF WordsInv, line
<1>4. CASE NextCommand
  BY <1>4, NothingShown DEF NextCommand, Prompt, WordsInv
<1>5. CASE OtherFiles \/ UNCHANGED vars
  <2>1. UNCHANGED <<stage, line>>
    BY <1>5 DEF OtherFiles, vars
  <2> QED BY <2>1 DEF WordsInv, line
<1> QED BY <1>1, <1>2, <1>3, <1>4, <1>5 DEF Next, ShellStep

(* A command's arguments are the first MAX_ARGS - 1 words of what was      *)
(* typed and not erased (shell.c:38-78, 286-329): for every line, every    *)
(* length of the buffer and of the argument list, and whatever the erased  *)
(* characters left behind the line's end.                                  *)
THEOREM ArgumentsAlwaysTyped == Spec => []ArgumentsAreTyped
<1>1. Init => WordsInv
  BY NothingShown DEF Init, WordsInv
<1>2. Spec => []WordsInv
  BY <1>1, StepFinds, ShellInductive, PTL DEF Spec
<1> QED BY <1>2, WordsSuffice, ShellInductive, PTL
=============================================================================
