-------------------------------- MODULE Shell --------------------------------
(***************************************************************************)
(* user/shell.c: a line is read key by key into cmd_buffer, parsed in      *)
(* place into cmd_args, and executed.  Its commands open and close files   *)
(* through sys_open and sys_close; descriptors are those of the module     *)
(* Descriptors, and other programs use them too.                           *)
(***************************************************************************)
EXTENDS Integers, Sequences, SequencesExt

CONSTANTS
    MAX_CMD_LEN,
    MAX_ARGS,
    NUL,
    Printable,      \* characters from 32 on; Space is one
    Space, Tab,     \* what separates arguments
    Enter, Backspace, CtrlC,
    Control,        \* other characters below 32
    Cat, Ls, Halting, Quiet,   \* names of built-in commands: cat; ls;
                               \* reboot and shutdown; those that only print
    PathOf,         \* word -> the file it names, for the words that name one
    Root,           \* the word "/"
    FileFds, EntryIds, Size,
    MaxKeys         \* a bound: keys pressed for one line

Keys == Printable \cup Control \cup {Enter, Backspace, CtrlC}
Blanks == {Space, Tab}
Positions == 0 .. MAX_CMD_LEN - 1

ASSUME ShellAssumption ==
    /\ MAX_CMD_LEN \in Nat /\ MAX_CMD_LEN >= 2
    /\ MAX_ARGS \in Nat /\ MAX_ARGS >= 2
    /\ NUL \notin Keys
    /\ Space \in Printable /\ Tab \in Control
    /\ \A w \in DOMAIN PathOf : PathOf[w] \in EntryIds
    /\ Size \in [EntryIds -> Nat]
    /\ Printable \cap (Control \cup {Enter, Backspace, CtrlC}) = {}

VARIABLES
    stage,       \* "read", "parse", "execute", "opened" (cat or ls has called
                 \* sys_open), "waiting" (for a program), "done" or "halted"
    typed,       \* the keys of this line
    cmd_buffer,  \* position -> character
    pos,
    cmd_args,    \* the positions where arguments begin; cmd_argc is its length
    fd,          \* what sys_open answered
    file,        \* the descriptors
    others       \* those that other programs opened and have not closed

line == <<typed, cmd_buffer, pos, cmd_args>>
vars == <<stage, line, fd, file, others>>

Table == INSTANCE Descriptors

Empty == [i \in Positions |-> NUL]
OpenFds == {n \in FileFds : file[n].stage = "open"}

Init ==
    /\ stage = "read"
    /\ typed = << >>
    /\ cmd_buffer = Empty
    /\ pos = 0
    /\ cmd_args = << >>
    /\ fd = -1
    /\ Table!Init
    /\ others = {}

-----------------------------------------------------------------------------
(* shell_clear_input, and the prompt of shell_read_command.                *)
Prompt ==
    /\ stage' = "read"
    /\ typed' = << >>
    /\ cmd_buffer' = Empty
    /\ pos' = 0
    /\ cmd_args' = << >>

(* Mutant: no place is kept for the terminator.                            *)
EditFull(c) ==
    /\ pos' = IF c = Backspace THEN (IF pos > 0 THEN pos - 1 ELSE pos)
              ELSE IF c \in Printable /\ pos < MAX_CMD_LEN THEN pos + 1 ELSE pos
    /\ cmd_buffer' = IF c \in Printable /\ pos < MAX_CMD_LEN
                     THEN [cmd_buffer EXCEPT ![pos] = c] ELSE cmd_buffer

(* A backspace leaves the character it goes back over in the buffer.       *)
Edit(c) ==
    /\ pos' = IF c = Backspace THEN (IF pos > 0 THEN pos - 1 ELSE pos)
              ELSE IF c \in Printable /\ pos < MAX_CMD_LEN - 1 THEN pos + 1 ELSE pos
    /\ cmd_buffer' = IF c \in Printable /\ pos < MAX_CMD_LEN - 1
                     THEN [cmd_buffer EXCEPT ![pos] = c] ELSE cmd_buffer

(* Mutant: the line is not terminated.                                     *)
EnterUnterminated ==
    IF pos = 0 THEN Prompt
    ELSE stage' = "parse" /\ UNCHANGED line

(* Enter; an empty line is not parsed.                                     *)
EnterLine ==
    IF pos = 0 THEN Prompt
    ELSE /\ stage' = "parse"
         /\ cmd_buffer' = [cmd_buffer EXCEPT ![pos] = NUL]
         /\ UNCHANGED <<typed, pos, cmd_args>>

(* One round of shell_read_command's loop.                                 *)
ReadKey(c) ==
    /\ stage = "read" /\ Len(typed) < MaxKeys
    /\ \/ c = Enter /\ EnterLine
       \/ c = CtrlC /\ Prompt
       \/ /\ c \notin {Enter, CtrlC}
          /\ Edit(c)
          /\ typed' = Append(typed, c)
          /\ UNCHANGED <<stage, cmd_args>>
    /\ UNCHANGED <<fd, file, others>>

-----------------------------------------------------------------------------
(* The first position from p on where a character is, or is not, in S; the *)
(* NUL at the end of the line stops both searches.                         *)
FirstIn(b, p, S) == CHOOSE i \in p .. MAX_CMD_LEN - 1 :
                       b[i] \in S /\ \A j \in p .. i - 1 : b[j] \notin S
FirstNotIn(b, p, S) == CHOOSE i \in p .. MAX_CMD_LEN - 1 :
                          b[i] \notin S /\ \A j \in p .. i - 1 : b[j] \in S

(* Mutant: a blank after an argument is not overwritten.                   *)
NextArgumentOpen(s) ==
    LET start == FirstNotIn(s.buf, s.at, Blanks)
        end == FirstIn(s.buf, start, Blanks \cup {NUL})
    IN  IF s.buf[start] = NUL THEN s
        ELSE [buf |-> s.buf, args |-> Append(s.args, start), at |-> end]

(* One round of shell_parse_command's outer loop: the next argument begins *)
(* after the blanks, and the blank after it becomes its terminator.        *)
NextArgument(s) ==
    LET start == FirstNotIn(s.buf, s.at, Blanks)
        end == FirstIn(s.buf, start, Blanks \cup {NUL})
    IN  IF s.buf[start] = NUL THEN s
        ELSE IF s.buf[end] = NUL
             THEN [buf |-> s.buf, args |-> Append(s.args, start), at |-> end]
             ELSE [buf |-> [s.buf EXCEPT ![end] = NUL],
                   args |-> Append(s.args, start), at |-> end + 1]

(* shell_parse_command: at most MAX_ARGS - 1 rounds.                       *)
Parsed(b) ==
    LET round[n \in 0 .. MAX_ARGS - 1] ==
            IF n = 0 THEN [buf |-> b, args |-> << >>, at |-> 0] ELSE NextArgument(round[n - 1])
    IN  round[MAX_ARGS - 1]

Parse ==
    /\ stage = "parse"
    /\ cmd_buffer' = Parsed(cmd_buffer).buf
    /\ cmd_args' = Parsed(cmd_buffer).args
    /\ stage' = IF cmd_args' = << >> THEN "done" ELSE "execute"
    /\ UNCHANGED <<typed, pos, fd, file, others>>

(* The string that begins at position p.                                   *)
StringAt(p) == [i \in 1 .. FirstIn(cmd_buffer, p, {NUL}) - p |-> cmd_buffer[p + i - 1]]
Args == [i \in DOMAIN cmd_args |-> StringAt(cmd_args[i])]

-----------------------------------------------------------------------------
(* sys_open answers with a descriptor, or with an error code that looks    *)
(* like one: 2 when there is no such file, 3 when the table is used up.    *)
OpenAnswers(word) ==
    \/ word \notin DOMAIN PathOf /\ fd' = 2 /\ UNCHANGED file
    \/ /\ word \in DOMAIN PathOf
       /\ IF \E n \in FileFds : file[n].stage = "unused"
          THEN \E n \in FileFds : Table!Open(n, PathOf[word]) /\ fd' = n
          ELSE fd' = 3 /\ UNCHANGED file

(* cmd_cat and cmd_ls open; neither answer is below 0.                     *)
ExecuteFile ==
    /\ stage = "execute"
    /\ Args[1] \in Cat \cup Ls
    /\ \/ /\ Len(Args) > 1 \/ Args[1] \in Ls
          /\ OpenAnswers(IF Len(Args) > 1 THEN Args[2] ELSE Root)
          /\ stage' = "opened"
       \/ /\ Len(Args) = 1 /\ Args[1] \in Cat
          /\ stage' = "done"
          /\ UNCHANGED <<fd, file>>
    /\ UNCHANGED <<line, others>>

(* Mutant: the file is not closed when the read fails at once.             *)
CloseNever ==
    /\ stage = "opened"
    /\ stage' = "done"
    /\ UNCHANGED <<line, fd, file, others>>

(* sys_read refuses every descriptor but 0, so that cat prints nothing;    *)
(* both close what they opened, or what the error code names.              *)
CloseFile ==
    /\ stage = "opened"
    /\ IF fd \in OpenFds THEN Table!Close(fd) ELSE UNCHANGED file
    /\ stage' = "done"
    /\ UNCHANGED <<line, fd, others>>

ExecuteOther ==
    /\ stage = "execute"
    /\ Args[1] \notin Cat \cup Ls
    /\ stage' = IF Args[1] \in Halting THEN "halted"
                ELSE IF Args[1] \in Quiet THEN "done" ELSE "waiting"
    /\ UNCHANGED <<line, fd, file, others>>

(* shell_exec_program: sys_fork fails, or nusa_waitpid comes back, with or *)
(* without a child that has ended; sys_fork returns 0 to nobody.           *)
ProgramReturns ==
    /\ stage = "waiting"
    /\ stage' = "done"
    /\ UNCHANGED <<line, fd, file, others>>

(* main goes round its loop.                                               *)
NextCommand ==
    /\ stage = "done"
    /\ Prompt
    /\ fd' = -1
    /\ UNCHANGED <<file, others>>

(* Other programs use files at any time.                                   *)
OtherFiles ==
    /\ Table!Next
    /\ others' = {n \in FileFds : file'[n].stage = "open"
                                   /\ (n \in others \/ file[n].stage # "open")}
    /\ UNCHANGED <<stage, line, fd>>

ShellStep ==
    \/ Parse
    \/ ExecuteFile
    \/ CloseFile
    \/ ExecuteOther
    \/ ProgramReturns
    \/ NextCommand

Next == (\E c \in Keys : ReadKey(c)) \/ ShellStep \/ OtherFiles

Spec == Init /\ [][Next]_vars

-----------------------------------------------------------------------------
Characters == Printable \cup {NUL}

(* Every variable is in its range: the line and its terminator stay in     *)
(* cmd_buffer, arguments begin in the line, at most MAX_ARGS - 1 of them.  *)
TypeOK ==
    /\ stage \in {"read", "parse", "execute", "opened", "waiting", "done", "halted"}
    /\ typed \in Seq(Keys)
    /\ cmd_buffer \in [Positions -> Characters]
    /\ pos \in Positions
    /\ cmd_args \in Seq(0 .. pos) /\ Len(cmd_args) < MAX_ARGS
    /\ fd \in FileFds \cup {-1, 2, 3}
    /\ file \in [FileFds -> [stage : {"unused", "open", "closed"},
                            entry : EntryIds \cup {Table!NoEntry}, pos : Nat]]
    /\ others \subseteq FileFds

(* What the keys of a line make of it: a reference definition of editing,  *)
(* on sequences.                                                           *)
WithKey(s, c) == IF c = Backspace THEN (IF s = << >> THEN s ELSE Front(s))
                 ELSE IF c \in Printable /\ Len(s) < MAX_CMD_LEN - 1 THEN Append(s, c) ELSE s

Edited(keys) ==
    LET after[n \in 0 .. Len(keys)] ==
            IF n = 0 THEN << >> ELSE WithKey(after[n - 1], keys[n])
    IN  after[Len(keys)]

(* Words: the longest runs of characters that are not blank.               *)
WordStarts(s) == {i \in DOMAIN s : s[i] \notin Blanks /\ (i = 1 \/ s[i - 1] \in Blanks)}

WordAt(s, i) ==
    SubSeq(s, i, CHOOSE j \in i .. Len(s) : /\ \A k \in i .. j : s[k] \notin Blanks
                                            /\ j = Len(s) \/ s[j + 1] \in Blanks)

(* A command's arguments are the first MAX_ARGS - 1 words of the line as   *)
(* it stood on the screen, the n-th argument being the word with n - 1     *)
(* before it: shell_read_command leaves erased characters behind pos and   *)
(* shell_parse_command works in the same buffer, so that a character       *)
(* erased, or a blank not overwritten, would show here.                    *)
ArgumentsAreTyped ==
    stage \notin {"read", "parse"} =>
        LET starts == WordStarts(Edited(typed))
        IN  /\ Len(Args) = IF Cardinality(starts) < MAX_ARGS THEN Cardinality(starts)
                           ELSE MAX_ARGS - 1
            /\ \A n \in DOMAIN Args : \E i \in starts :
                  /\ Cardinality({j \in starts : j < i}) = n - 1
                  /\ Args[n] = WordAt(Edited(typed), i)

(* cat and ls leave no file open: between commands every open file is      *)
(* another program's, whatever sys_open answered.                          *)
FilesGivenBack == stage \in {"read", "parse", "execute"} => OpenFds \subseteq others
=============================================================================
