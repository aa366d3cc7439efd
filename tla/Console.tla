-------------------------------- MODULE Console --------------------------------
(***************************************************************************)
(* kernel/src/serial.c, the number formatting that terminal.c shares with  *)
(* it, and the printing half of the interface runtime.c gives to           *)
(* applications: each call writes to the terminal and then to the serial   *)
(* line, whose UART takes a character only when its holding register is    *)
(* empty.  What the terminal makes of its characters is module Terminal's  *)
(* business.  Interrupt handlers print nothing.                            *)
(***************************************************************************)
EXTENDS Integers, SequencesExt

CONSTANTS
  Texts,         \* the texts that kernel, shell and applications print
  Values,        \* the numbers printed in decimals, of type uint64_t or uint32_t
  Words,         \* the numbers printed in hexadecimals, of type uint32_t
  DecimalBytes,  \* sizeof(buffer) in the decimal loops: 21, and 11 for 32 bits
  HexDigits,     \* 8 for 32 bits
  LineFeed, CarriageReturn,
  MaxLog         \* bound: characters given to the serial line

ASSUME ConsoleAssumption ==
  /\ \A text \in Texts : text \in Seq({text[i] : i \in DOMAIN text})
  /\ DecimalBytes \in Nat \ {0} /\ HexDigits \in Nat \ {0} /\ MaxLog \in Nat

\* value, divided by base n times; with base 16, shifted right by n nibbles.
Shifted(value, base, n) ==
  LET quotient[k \in 0 .. n] == IF k = 0 THEN value ELSE quotient[k - 1] \div base
  IN  quotient[n]

\* The numbers have a width: 64 bits make at most 20 decimals, 32 bits make 8 nibbles.
ASSUME ValuesAssumption ==
  /\ Values \subseteq Nat /\ \A value \in Values : Shifted(value, 10, DecimalBytes) = 0
  /\ Words \subseteq Nat /\ \A value \in Words : Shifted(value, 16, HexDigits) = 0

VARIABLES
  shown,    \* characters written to the terminal
  queue,    \* what the running call has still to give to the UART
  returned, \* the '\r' for the '\n' at the head of queue has been given
  thr,      \* the UART's transmit holding register: at most one character
  wire,     \* what the UART has sent
  logged,   \* history: all that callers gave to the serial line
  number    \* history: the last number printed, [value, base], and where it is in shown

vars == <<shown, queue, returned, thr, wire, logged, number>>

Digit == <<"0", "1", "2", "3", "4", "5", "6", "7", "8", "9", "A", "B", "C", "D", "E", "F">>

-----------------------------------------------------------------------------
\* Formatting.

\* The first loop: buffer[index++] = '0' + value % 10; value /= 10.
LowDigits(value) ==
  LET loop[v \in 0 .. value] ==
        IF v = 0 THEN << >> ELSE <<Digit[(v % 10) + 1]>> \o loop[v \div 10]
  IN  loop[value]

\* Mutant: no case for zero.
UintWithoutZero(value) == Reverse(LowDigits(value))

\* terminal_write_uint, terminal_write_uint64, serial_write_uint64
write_uint(value) == IF value = 0 THEN <<"0">> ELSE Reverse(LowDigits(value))

\* Shifted right by four bits less each time, and cut to a nibble.
write_hex(value) ==
  <<"0", "x">> \o [i \in 1 .. HexDigits |-> Digit[(Shifted(value, 16, HexDigits - i) % 16) + 1]]

-----------------------------------------------------------------------------
NoNumber == [value |-> 0, base |-> 0, first |-> 1, last |-> 0]

Init ==
  /\ shown = << >>
  /\ queue = << >> /\ returned = FALSE
  /\ thr = << >> /\ wire = << >>
  /\ logged = << >>
  /\ number = NoNumber

\* A call that prints on the serial line, on the terminal, or on both.
ToSerial(text) ==
  /\ queue = << >> /\ Len(logged) + Len(text) <= MaxLog
  /\ queue' = text
  /\ logged' = logged \o text
  /\ UNCHANGED <<returned, thr, wire>>

ToTerminal(text) == shown' = shown \o text

serial_write(text) == ToSerial(text) /\ UNCHANGED <<shown, number>>

api_write(text) == ToTerminal(text) /\ ToSerial(text) /\ UNCHANGED number

api_writeln(text) == api_write(Append(text, LineFeed))

WriteNumber(value, base, text) ==
  /\ ToTerminal(text) /\ ToSerial(text)
  /\ number' = [value |-> value, base |-> base,
                first |-> Len(shown) + 1, last |-> Len(shown')]

api_write_u64(value) == WriteNumber(value, 10, write_uint(value))
api_write_hex32(value) == WriteNumber(value, 16, write_hex(value))

\* Mutants: a full holding register is written over; bit 0 is tested, which tells of input.
NoWait == TRUE
WaitsForInput == FALSE

\* while ((inb(COM1_PORT + 5) & 0x20) == 0): the loop ends when thr is empty.
HoldingEmpty == thr = << >>

serial_write_char ==
  /\ queue # << >> /\ HoldingEmpty
  /\ IF Head(queue) = LineFeed /\ ~returned
       THEN thr' = <<CarriageReturn>> /\ returned' = TRUE /\ UNCHANGED queue
       ELSE thr' = <<Head(queue)>> /\ returned' = FALSE /\ queue' = Tail(queue)
  /\ UNCHANGED <<shown, wire, logged, number>>

\* The UART shifts a character out and its holding register is empty again.
UartSends ==
  /\ thr # << >>
  /\ wire' = wire \o thr
  /\ thr' = << >>
  /\ UNCHANGED <<shown, queue, returned, logged, number>>

Calls ==
  \/ \E text \in Texts : serial_write(text) \/ api_write(text) \/ api_writeln(text)
  \/ \E value \in Values : api_write_u64(value)
  \/ \E value \in Words : api_write_hex32(value)

Next == Calls \/ serial_write_char \/ UartSends

\* The thread polls on and the UART's clock runs; nobody has to print.
Spec == Init /\ [][Next]_vars /\ WF_vars(serial_write_char) /\ WF_vars(UartSends)

-----------------------------------------------------------------------------
\* What goes over the line for a text.
Translated(text) ==
  LET sent[i \in 0 .. Len(text)] ==
        IF i = 0 THEN << >>
        ELSE sent[i - 1] \o (IF text[i] = LineFeed THEN <<CarriageReturn, LineFeed>>
                                                   ELSE <<text[i]>>)
  IN  sent[Len(text)]

(***************************************************************************)
(* The serial log is what was written to it, in order, nothing lost in the *)
(* UART and nothing twice: what has been sent and is being sent is the     *)
(* translation of what callers wrote, up to what is still to be given,     *)
(* each line feed with one carriage return before it.                      *)
(***************************************************************************)
WireExact ==
  LET given == SubSeq(logged, 1, Len(logged) - Len(queue))
  IN  /\ logged = given \o queue
      /\ wire \o thr = Translated(given) \o (IF returned THEN <<CarriageReturn>> ELSE << >>)

\* The value of a sequence of digits.
DigitValue(d) == (CHOOSE i \in DOMAIN Digit : Digit[i] = d) - 1
Value(digits, base) ==
  LET value[i \in 0 .. Len(digits)] ==
        IF i = 0 THEN 0 ELSE value[i - 1] * base + DigitValue(digits[i])
  IN  value[Len(digits)]

(***************************************************************************)
(* A number on the screen reads back as the number, zero and the largest   *)
(* one included: decimals without a leading zero and within the buffer     *)
(* that the loop fills backwards, hexadecimals with all their digits.  By  *)
(* WireExact the serial log has the same characters.                       *)
(***************************************************************************)
NumbersReadBack ==
  LET text == SubSeq(shown, number.first, number.last)
      digits == IF number.base = 16 THEN SubSeq(text, 3, Len(text)) ELSE text
  IN  number # NoNumber =>
        /\ digits # << >> /\ Value(digits, number.base) = number.value
        /\ number.base = 10 => /\ Len(text) <= DecimalBytes
                               /\ text[1] = "0" => text = <<"0">>
        /\ number.base = 16 => Len(digits) = HexDigits

(***************************************************************************)
(* Every call returns: the wait for the UART has no time limit, but the    *)
(* UART empties its holding register.                                      *)
(***************************************************************************)
WritesEnd == (queue # << >>) ~> (queue = << >>)
=============================================================================
