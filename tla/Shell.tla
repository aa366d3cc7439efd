--------------------------------- MODULE Shell ---------------------------------
(***************************************************************************)
(* kernel/src/shell.c: the line editor of shell_run, its echo on the       *)
(* screen of module Terminal, how shell_execute finds the command, and the *)
(* output of commands.  Which characters arrive, and when, is module       *)
(* Machine's business: here any may.                                       *)
(*                                                                         *)
(* History variables say what the user means and should see: typed is the  *)
(* line after all corrections, transcript what the same output would look  *)
(* like on a printer with endless paper, and wrapped tells that the line   *)
(* has run over the right edge.                                            *)
(***************************************************************************)
EXTENDS Terminal, Strings

CONSTANTS
  InputSize,   \* sizeof(input_buffer), 128
  Typed,       \* the printable characters that can be typed
  Output,      \* the characters that commands print
  Garbage,     \* what input_buffer, on the stack, holds before it is written
  Clear, Reboot, Echo, Launch,   \* "clear", "reboot", "echo " and "launch "
  Words,       \* the commands that print and take no argument
  MaxRows      \* bound: how many rows the transcript may have

\* The last three lines: no command is found by two of shell_execute's tests.
ASSUME ShellAssumption ==
  /\ InputSize \in Nat \ {0}
  /\ LineFeed # CarriageReturn
  /\ {LineFeed, CarriageReturn} \cap (Typed \cup Output) = {}
  /\ NUL \notin Typed
  /\ {Clear, Reboot, Echo, Launch} \cup Words \subseteq Seq(Typed)
  /\ Clear # Reboot /\ {Clear, Reboot} \cap Words = {}
  /\ \A word \in {Clear, Reboot} \cup Words : ~IsPrefix(Launch, word) /\ ~IsPrefix(Echo, word)
  /\ ~IsPrefix(Launch, Echo) /\ ~IsPrefix(Echo, Launch)

VARIABLES
  terminal,      \* the screen
  input_buffer,
  input_length,
  pc,            \* "input", or "output" while kmain or a command prints
  command,       \* what shell_execute does: [name, argument]
  echoed,        \* how many characters of its argument echo has written
  typed,         \* history: the line as the user means it
  transcript,    \* history: the rows printed since the last clear
  wrapped        \* history: the typed line has run over the right edge

vars == <<terminal, input_buffer, input_length, pc, command, echoed, typed, transcript, wrapped>>

-----------------------------------------------------------------------------
\* Endless paper.
LastRow == transcript[Len(transcript)]

Printed(paper, character) ==
  LET row == paper[Len(paper)]
  IN  CASE character = LineFeed -> Append(paper, << >>)
        [] character # LineFeed /\ Len(row) = Width -> Append(paper, <<character>>)
        [] OTHER -> [paper EXCEPT ![Len(paper)] = Append(row, character)]

Erased == IF LastRow = << >> THEN transcript
                             ELSE [transcript EXCEPT ![Len(transcript)] = Front(LastRow)]

\* The bound: new rows are begun only below it, though one under way is finished.
Room == Len(transcript) < MaxRows

-----------------------------------------------------------------------------
\* kmain has called terminal_init; its messages and the shell's greeting follow.
PowerOn == [vga |-> [i \in Cells |-> Blank], row |-> 0, column |-> 0, reserved |-> 0,
            astray |-> FALSE]

Init ==
  /\ terminal = terminal_init(PowerOn)
  /\ input_buffer = [i \in 0 .. InputSize - 1 |-> Garbage]
  /\ input_length = 0
  /\ pc = "output"
  /\ command = [name |-> "kmain", argument |-> << >>]
  /\ echoed = 0
  /\ typed = << >>
  /\ transcript = << << >> >>
  /\ wrapped = FALSE

NoCommand == [name |-> "none", argument |-> << >>]

\* input_length = 0; terminal_prompt(); at the end of the loop's Enter branch.
PromptAgain(screen, paper) ==
  /\ terminal' = terminal_prompt(screen)
  /\ transcript' = [paper EXCEPT ![Len(paper)] = @ \o Prompt]
  /\ input_length' = 0
  /\ command' = NoCommand
  /\ echoed' = 0
  /\ typed' = << >>
  /\ wrapped' = FALSE
  /\ pc' = "input"

-----------------------------------------------------------------------------
\* Mutant: the screen is erased whether or not the line has a character.
EraseScreenAlways == TRUE

\* if (input_length > 0)
EraseScreen == input_length > 0

TypeBackspace ==
  /\ pc = "input"
  /\ input_length' = IF input_length > 0 THEN input_length - 1 ELSE 0
  /\ IF EraseScreen THEN terminal' = terminal_backspace(terminal) /\ transcript' = Erased
                    ELSE UNCHANGED <<terminal, transcript>>
  /\ typed' = IF typed = << >> THEN typed ELSE Front(typed)
  /\ UNCHANGED <<input_buffer, pc, command, echoed, wrapped>>

\* Mutant: the line is not terminated.
Unterminated == input_buffer

\* input_buffer[input_length] = '\0'
Terminated == [input_buffer EXCEPT ![input_length] = NUL]

\* Enter on an empty line: a new prompt.
TypeEmptyLine ==
  /\ pc = "input" /\ input_length = 0 /\ Room
  /\ input_buffer' = Terminated
  /\ PromptAgain(terminal_write_char(terminal, LineFeed), Printed(transcript, LineFeed))

\* The tests of shell_execute, in their order.
shell_execute(buffer) ==
  LET Is(word) == string_compare(buffer, Literal(word))
      Starts(prefix) == string_starts_with(buffer, Literal(prefix))
      Does(name, argument) == [name |-> name, argument |-> argument]
  IN  CASE \E word \in Words : Is(word) -> Does("print", << >>)
        [] Is(Clear) -> Does("clear", << >>)
        [] Is(Reboot) -> Does("reboot", << >>)
        [] Starts(Launch) -> Does("launch", From(buffer, Len(Launch)))
        [] Starts(Echo) -> Does("echo", From(buffer, Len(Echo)))
        [] OTHER -> Does("unknown", << >>)

\* Enter: the line is terminated and given to shell_execute.
TypeLine ==
  /\ pc = "input" /\ input_length > 0 /\ Room
  /\ input_buffer' = Terminated
  /\ terminal' = terminal_write_char(terminal, LineFeed)
  /\ transcript' = Printed(transcript, LineFeed)
  /\ command' = shell_execute(input_buffer')
  /\ pc' = "output"
  /\ UNCHANGED <<input_length, echoed, typed, wrapped>>

\* Mutant: the terminating '\0' is not counted.
LineFullLate == input_length >= InputSize

LineFull == input_length + 1 >= InputSize

\* if (input_length + 1u >= sizeof(input_buffer)) continue;
TypeIgnored ==
  /\ pc = "input" /\ LineFull
  /\ UNCHANGED vars

TypeCharacter(character) ==
  /\ pc = "input" /\ ~LineFull
  /\ input_buffer' = [input_buffer EXCEPT ![input_length] = character]
  /\ input_length' = input_length + 1
  /\ terminal' = terminal_write_char(terminal, character)
  /\ typed' = Append(typed, character)
  /\ transcript' = Printed(transcript, character)
  /\ wrapped' = (wrapped \/ terminal.column >= Width)
  /\ UNCHANGED <<pc, command, echoed>>

-----------------------------------------------------------------------------
\* A command that prints characters and line feeds, the last a line feed; so do kmain,
\* an application that is launched, and an unknown command.
Prints == pc = "output" /\ command.name \in {"kmain", "print", "launch", "unknown"}

PrintCharacter(character) ==
  /\ Prints /\ Room
  /\ terminal' = terminal_write_char(terminal, character)
  /\ transcript' = Printed(transcript, character)
  /\ UNCHANGED <<input_buffer, input_length, pc, command, echoed, typed, wrapped>>

EndCommand ==
  /\ Prints
  /\ PromptAgain(terminal_write_char(terminal, LineFeed), Printed(transcript, LineFeed))
  /\ UNCHANGED input_buffer

\* terminal_writeln(command + 5), a character at a time.
Echoes == pc = "output" /\ command.name = "echo"

EchoCharacter ==
  /\ Echoes /\ echoed < Len(command.argument)
  /\ LET character == command.argument[echoed + 1]
     IN  /\ terminal' = terminal_write_char(terminal, character)
         /\ transcript' = Printed(transcript, character)
  /\ echoed' = echoed + 1
  /\ UNCHANGED <<input_buffer, input_length, pc, command, typed, wrapped>>

EndEcho ==
  /\ Echoes /\ echoed = Len(command.argument)
  /\ PromptAgain(terminal_write_char(terminal, LineFeed), Printed(transcript, LineFeed))
  /\ UNCHANGED input_buffer

ClearCommand ==
  /\ pc = "output" /\ command.name = "clear"
  /\ PromptAgain(terminal_init(terminal), << << >> >>)
  /\ UNCHANGED input_buffer

\* shell_reboot does not return; what it does is in module Machine.
RebootCommand ==
  /\ pc = "output" /\ command.name = "reboot"
  /\ UNCHANGED vars

Next ==
  \/ TypeBackspace \/ TypeEmptyLine \/ TypeLine \/ TypeIgnored
  \/ \E character \in Typed : TypeCharacter(character)
  \/ \E character \in Output \cup {LineFeed} : PrintCharacter(character)
  \/ EndCommand \/ EchoCharacter \/ EndEcho \/ ClearCommand \/ RebootCommand

Spec == Init /\ [][Next]_vars

-----------------------------------------------------------------------------
(***************************************************************************)
(* Type invariant: the cursor stays on the screen below the header (its    *)
(* column may stand behind the last cell), and input_length leaves room    *)
(* for the '\0' stored at input_buffer[input_length].                      *)
(***************************************************************************)
TypeOK ==
  /\ terminal.row \in HeaderRows .. Height - 1
  /\ terminal.column \in 0 .. Width
  /\ terminal.reserved = HeaderRows
  /\ input_buffer \in [0 .. InputSize - 1 -> Typed \cup {NUL, Garbage}]
  /\ input_length \in 0 .. InputSize - 1
  /\ pc \in {"input", "output"}
  /\ command.name \in {"none", "kmain", "print", "clear", "reboot", "launch", "echo", "unknown"}
  /\ wrapped \in BOOLEAN

Row(t, r) == [c \in 1 .. Width |-> t.vga[r * Width + c - 1]]
Padded(row) == [c \in 1 .. Width |-> IF c <= Len(row) THEN row[c] ELSE Blank]

\* The row of the screen that shows row k of the paper.
RowOf(t, paper, k) == t.row - (Len(paper) - k)

Shows(t, paper) ==
  /\ ~t.astray
  /\ \A i \in Cells : i < Width * HeaderRows => t.vga[i] = HeaderCell
  /\ t.column = Len(paper[Len(paper)])
  /\ Len(paper) >= Height - HeaderRows => t.row = Height - 1
  /\ Len(paper) < Height - HeaderRows => RowOf(t, paper, 1) = HeaderRows
  /\ \A k \in 1 .. Len(paper) :
       RowOf(t, paper, k) >= HeaderRows => Row(t, RowOf(t, paper, k)) = Padded(paper[k])
  /\ \A r \in t.row + 1 .. Height - 1 : Row(t, r) = Padded(<< >>)

(***************************************************************************)
(* The screen is a window on the endless paper: below the header it shows  *)
(* the last rows printed, all of them while they fit, in order and with    *)
(* nothing else; the cursor is behind the last character; the header is    *)
(* never overwritten and nothing is written outside of the screen, by the  *)
(* prompt (which does not check the column) in particular.                 *)
(***************************************************************************)
ScreenShowsTranscript == Shows(terminal, transcript)

(***************************************************************************)
(* What the user sees is what Enter will execute: as long as the line has  *)
(* not run over the right edge, the cursor's row shows the prompt and then *)
(* exactly the characters in input_buffer.  (Once it has, Backspace cannot *)
(* go back over the edge on the screen though it does in the buffer.)      *)
(***************************************************************************)
EchoAgrees ==
  pc = "input" /\ ~wrapped =>
    LastRow = Prompt \o [i \in 1 .. input_length |-> input_buffer[i - 1]]

(***************************************************************************)
(* What is executed is what was typed, after all corrections: the command  *)
(* found in input_buffer, and the argument of launch and echo, are those   *)
(* of the line, never mixed with the rest of an earlier, longer line or    *)
(* with what the stack held before; what is no command is unknown.         *)
(***************************************************************************)
ExecutesTyped ==
  pc = "output" /\ command.name # "kmain" =>
    /\ command.name = "print" <=> typed \in Words
    /\ command.name = "clear" <=> typed = Clear
    /\ command.name = "reboot" <=> typed = Reboot
    /\ command.name = "launch" => typed = Launch \o command.argument
    /\ command.name = "echo" => typed = Echo \o command.argument
    /\ command.name = "unknown" => ~IsPrefix(Launch, typed) /\ ~IsPrefix(Echo, typed)
=============================================================================
