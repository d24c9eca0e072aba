------------------------------- MODULE Shell -------------------------------
(***************************************************************************)
(* The mini shell of 1017/shell, at a terminal.  The text of a line is a   *)
(* sequence of pieces: a blank, an operator, or part of a word.            *)
(*                                                                         *)
(* shell: "prompt" (waits in fgets()), "fork", "wait", "crashed" or        *)
(* "killed".  child: "none", "redirect", "exec", "running" or "zombie".    *)
(* What the globals hold of the last line is not read again, so it is      *)
(* forgotten at the prompt.                                                *)
(***************************************************************************)
EXTENDS Naturals, Sequences, FiniteSets, SequencesExt

CONSTANTS NUM,       \* the size of cmd_line, in pieces: the last is for the zero
          Lines,     \* what may be typed, lines of less than SIZE words
          MaxLines   \* how many of them are typed

Names == {"ls", "cd", "x"}
Operators == {"<", ">"}
blank == " "
newline == "\n"
Pieces == Names \cup Operators \cup {blank}

ASSUME ShellAssumption == NUM \in Nat \ {0, 1, 2} /\ Lines \subseteq Seq(Pieces) /\ MaxLines \in Nat

\* There are two directories, and in each of them x is a file or not there.  ls and x
\* are programs.
Places == {"home", "elsewhere"}
Programs == {<<"ls">>, <<"x">>}

VARIABLES
    shell, child,
    count, typed, said, \* lines typed; what fgets() has not read of the last; all of it
    where,              \* the shell's working directory, which the child inherits
    file,               \* file[w]: who wrote to x at w, the n-th line's command or 0; no w, no file
    g_argv,             \* the words of the command, up to the NULL
    redir_status, sep,  \* how to redirect, and what CheckRedir() returned
    fd                  \* fd[0] and fd[1] of the child: a file's name or the terminal

text == <<count, typed, said>>
command == <<g_argv, redir_status, sep>>
vars == <<shell, child, text, where, file, command, fd>>

terminal == <<>>
x == <<"x">>
tty == [i \in {0, 1} |-> terminal]

TypeOK == /\ shell \in {"prompt", "fork", "wait", "crashed", "killed"}
          /\ child \in {"none", "redirect", "exec", "running", "zombie"}
          /\ count \in 0 .. MaxLines
          /\ typed \in Seq(Pieces \cup {newline}) /\ said \in Seq(Pieces \cup {newline})
          /\ where \in Places
          /\ DOMAIN file \subseteq Places /\ \A w \in DOMAIN file : file[w] \in Seq(0 .. count)
          /\ redir_status \in {"NONE", "INPUT", "OUTPUT", "APPEND"}
          /\ DOMAIN fd = {0, 1}
          /\ shell = "wait" <=> child # "none"
          /\ shell \in {"fork", "wait"} <=> g_argv # <<>>

Init == /\ shell = "prompt" /\ child = "none"
        /\ count = 0 /\ typed = <<>> /\ said = <<>>
        /\ where = "home"
        /\ file = [home |-> <<0>>]
        /\ g_argv = <<>> /\ redir_status = "NONE" /\ sep = <<>>
        /\ fd = tty

-----------------------------------------------------------------------------
(***************************************************************************)
(* Taking a line apart.                                                    *)
(***************************************************************************)
\* Wrong: looks for the operator from the left.
CheckRedirLeft(line) ==
    LET scan[i \in 1 .. Len(line) + 1] ==
            IF i = Len(line) + 1 THEN 0 ELSE IF line[i] \in Operators THEN i ELSE scan[i + 1]
        end == scan[1]
    IN  CASE end = 0 -> [status |-> "NONE", cut |-> Len(line), sep |-> <<>>]
          [] end > 0 -> [status |-> IF line[end] = "<" THEN "INPUT" ELSE "OUTPUT",
                         cut |-> end - 1, sep |-> SubSeq(line, end + 1, Len(line))]

\* Where a scan from the right stops: at an operator, or in front of the line.
LastOperator(line) ==
    LET scan[i \in 0 .. Len(line)] == IF i = 0 \/ line[i] \in Operators THEN i ELSE scan[i - 1]
    IN  scan[Len(line)]

\* The last operator counts: cut is what is left of the line, sep what is behind it.
CheckRedir(line) ==
    LET end == LastOperator(line)
        twice == end > 1 /\ line[end - 1] = ">"
        name == SubSeq(line, end + 1, Len(line))
    IN  CASE end = 0 -> [status |-> "NONE", cut |-> Len(line), sep |-> <<>>]
          [] end > 0 /\ line[end] = "<" -> [status |-> "INPUT", cut |-> end - 1, sep |-> name]
          [] end > 0 /\ line[end] = ">" /\ ~twice -> [status |-> "OUTPUT", cut |-> end - 1, sep |-> name]
          [] end > 0 /\ line[end] = ">" /\ twice -> [status |-> "APPEND", cut |-> end - 2, sep |-> name]

\* What the i-th piece of the line makes of the words found before it.
Take(line, i, before) ==
    LET last == Len(before)
    IN  IF line[i] = blank THEN before
        ELSE IF i > 1 /\ line[i - 1] # blank THEN [before EXCEPT ![last] = Append(@, line[i])]
        ELSE Append(before, <<line[i]>>)

\* The words that strtok() finds, one call after the other.
strtok(line) ==
    LET found[i \in 0 .. Len(line)] == IF i = 0 THEN <<>> ELSE Take(line, i, found[i - 1])
    IN  found[Len(line)]

\* ls is shown in colour.
Split(line) ==
    LET words == strtok(line)
    IN  IF words # <<>> /\ words[1] = <<"ls">>
        THEN <<words[1], <<"--color=auto">>>> \o Tail(words) ELSE words

-----------------------------------------------------------------------------
(***************************************************************************)
(* The terminal: one line at a time, or what was typed before the end of   *)
(* the file, after which fgets() fails for ever and the shell prompts on.  *)
(***************************************************************************)
Type(line, end) == /\ shell = "prompt" /\ typed = <<>> /\ count < MaxLines
                   /\ count' = IF end = <<>> THEN MaxLines ELSE count + 1
                   /\ typed' = line \o end
                   /\ said' = typed'
                   /\ UNCHANGED <<shell, child, where, file, command, fd>>

(***************************************************************************)
(* The shell.                                                              *)
(***************************************************************************)
\* fgets() reads what fits, and the last character goes, newline or not.  Without a
\* first word the shell dereferences NULL; cd is its own command.
GetLine == /\ shell = "prompt" /\ typed # <<>>
           /\ LET read == IF Len(typed) < NUM THEN Len(typed) ELSE NUM - 1
                  line == SubSeq(typed, 1, read - 1)
                  redir == CheckRedir(line)
                  words == Split(SubSeq(line, 1, redir.cut))
              IN  /\ typed' = SubSeq(typed, read + 1, Len(typed))
                  /\ \/ words = <<>> /\ shell' = "crashed" /\ UNCHANGED <<where, command>>
                     \/ /\ words # <<>> /\ words[1] = <<"cd">>
                        /\ where' \in IF Len(words) > 1 THEN Places ELSE {where}
                        /\ UNCHANGED <<shell, command>>
                     \/ /\ words # <<>> /\ words[1] # <<"cd">>
                        /\ shell' = "fork"
                        /\ g_argv' = words
                        /\ redir_status' = redir.status
                        /\ sep' = redir.sep
                        /\ UNCHANGED where
           /\ UNCHANGED <<child, count, said, file, fd>>

Forget == g_argv' = <<>> /\ redir_status' = "NONE" /\ sep' = <<>>

\* When fork() fails, waitpid(-1) does so too.
Fork == /\ shell = "fork"
        /\ \/ shell' = "wait" /\ child' = "redirect" /\ fd' = tty /\ UNCHANGED command
           \/ shell' = "prompt" /\ Forget /\ UNCHANGED <<child, fd>>
        /\ UNCHANGED <<text, where, file>>

\* Wrong: does not wait.
WaitNot == /\ shell = "wait"
           /\ shell' = "prompt"
           /\ UNCHANGED <<child, text, where, file, command, fd>>

Wait == /\ shell = "wait" /\ child = "zombie"
        /\ shell' = "prompt" /\ child' = "none"
        /\ Forget /\ fd' = tty
        /\ UNCHANGED <<text, where, file>>

-----------------------------------------------------------------------------
(***************************************************************************)
(* The child.  Opening x fails when it is to be read and not there; of     *)
(* other files nothing is known, except that none has an empty name.  When *)
(* open() fails so does dup2(), and nobody looks.                          *)
(***************************************************************************)
canOpen(name) == CASE name = <<>> -> {FALSE}
                   [] name = x -> {redir_status # "INPUT" \/ where \in DOMAIN file}
                   [] OTHER -> BOOLEAN

\* What the open() leaves of x.
opened(truncate) == [w \in DOMAIN file \cup {where} |->
                       IF w = where /\ (truncate \/ w \notin DOMAIN file) THEN <<>> ELSE file[w]]

Redirect == /\ child = "redirect"
            /\ child' = "exec"
            /\ \E ok \in canOpen(sep) :
                  /\ fd' = CASE ~ok \/ redir_status = "NONE" -> fd
                             [] ok /\ redir_status = "INPUT" -> [fd EXCEPT ![0] = sep]
                             [] ok /\ redir_status \in {"OUTPUT", "APPEND"} -> [fd EXCEPT ![1] = sep]
                  /\ file' = IF ok /\ sep = x /\ redir_status \in {"OUTPUT", "APPEND"}
                             THEN opened(redir_status = "OUTPUT") ELSE file
            /\ UNCHANGED <<shell, text, where, command>>

\* Wrong: a child whose execvp() fails goes on in the shell's loop.
ExecOn == /\ child = "exec"
          /\ g_argv[1] \in Programs
          /\ child' = "running"
          /\ UNCHANGED <<shell, text, where, file, command, fd>>

\* execvp(), or exit(1).
Exec == /\ child = "exec"
        /\ child' = IF g_argv[1] \in Programs THEN "running" ELSE "zombie"
        /\ UNCHANGED <<shell, text, where, file, command, fd>>

\* The command, which does not read from the terminal: it writes, and ends.
Work == /\ child = "running"
        /\ fd[1] = x /\ count \notin Range(file[where])
        /\ file' = [file EXCEPT ![where] = Append(@, count)]
        /\ UNCHANGED <<shell, child, text, where, command, fd>>

End == /\ child = "running"
       /\ child' = "zombie"
       /\ UNCHANGED <<shell, text, where, file, command, fd>>

\* Ctrl-C ends the command and the shell, which are one process group.
Interrupt == /\ shell \notin {"crashed", "killed"}
             /\ shell' = "killed" /\ child' = "none"
             /\ Forget /\ fd' = tty
             /\ UNCHANGED <<text, where, file>>

Step == GetLine \/ Fork \/ Wait \/ Redirect \/ Exec \/ End

Next == Step \/ Work \/ Interrupt \/ \E line \in Lines, end \in {<<newline>>, <<>>} : Type(line, end)

\* The processes are scheduled, and a command ends.
Spec == Init /\ [][Next]_vars /\ WF_vars(Step)

-----------------------------------------------------------------------------
(***************************************************************************)
(* What a line means, said without a scan: a command, or a command, one    *)
(* operator and a name without blanks, all of which fits in cmd_line.      *)
(***************************************************************************)
Marks(line) == {i \in DOMAIN line : line[i] \in Operators}

\* Where the words begin, the n-th of these places, and the word that begins there.
Starts(line) == {i \in DOMAIN line : line[i] # blank /\ (i = 1 \/ line[i - 1] = blank)}

Nth(line, n) ==
    CHOOSE i \in Starts(line) : Cardinality({j \in Starts(line) : j <= i}) = n

WordAt(line, i) ==
    SubSeq(line, i, Max({j \in i .. Len(line) : \A k \in i .. j : line[k] # blank}))

WordsOf(line) == [n \in 1 .. Cardinality(Starts(line)) |-> WordAt(line, Nth(line, n))]

Told == SubSeq(said, 1, Len(said) - 1)
Before == SubSeq(Told, 1, (IF Marks(Told) = {} THEN Len(Told) + 1 ELSE Min(Marks(Told))) - 1)
Behind == SubSeq(Told, Max(Marks(Told)) + 1, Len(Told))
Sign == [i \in 1 .. Cardinality(Marks(Told)) |-> Told[Min(Marks(Told)) + i - 1]]

Fits == said # <<>> /\ Last(said) = newline /\ Len(said) < NUM

WellFormed == /\ Fits
              /\ WordsOf(Before) # <<>>
              /\ Sign \in {<<>>, <<"<">>, <<">">>, <<">", ">">>}
              /\ Marks(Told) # {} => Len(WordsOf(Behind)) = 1 /\ WordsOf(Behind)[1] = Behind

\* A command runs with the words of its line, and its input and output are what the
\* line says; x, which can be opened, is, at the shell's place.  The shell crashes
\* only on a line that has no word, or nothing in front of its operator, or is cut.
RunsAsWritten ==
    /\ child = "running" /\ WellFormed =>
          LET words == WordsOf(Before)
              to(i, signs) == IF Sign \in signs THEN {Behind, terminal} ELSE {terminal}
          IN  /\ g_argv[1] = words[1]
              /\ g_argv \in {words, <<<<"ls">>, <<"--color=auto">>>> \o Tail(words)}
              /\ fd[0] \in to(0, {<<"<">>}) /\ fd[1] \in to(1, {<<">">>, <<">", ">">>})
              /\ Sign = <<"<">> /\ Behind = x /\ where \in DOMAIN file => fd[0] = x
              /\ Sign \in {<<">">>, <<">", ">">>} /\ Behind = x => fd[1] = x
              /\ Sign = <<">">> /\ Behind = x => Range(file[where]) \subseteq {count}
    /\ shell = "crashed" /\ Fits =>
          \/ WordsOf(Told) = <<>>
          \/ Marks(Told) # {} /\ WordsOf(SubSeq(Told, 1, Max(Marks(Told)) - 1)) \in {<<>>, <<<<">">>>>}

\* What is in a file stays in it, unless the line says > .
KeepsFiles == \A w \in DOMAIN file :
    w \in DOMAIN file' /\ (IsPrefix(file[w], file'[w]) \/ (WellFormed => Sign = <<">">>))

\* Each line does what it says, to the command and to the files.
AsWritten == [][RunsAsWritten' /\ KeepsFiles]_vars

\* Whatever is typed, and whether the command is there or not, the shell comes back to
\* its prompt, if it is not interrupted and does not crash.
ReadyAgain == (typed # <<>> \/ shell = "fork")
                ~> ((typed = <<>> /\ shell = "prompt") \/ shell \in {"crashed", "killed"})
=============================================================================
