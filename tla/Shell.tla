-------------------------------- MODULE Shell --------------------------------
(***************************************************************************)
(* The shell (csrc/shell.c): the line editor over one buffer, the parser   *)
(* that cuts the line up in place, and the commands.  Each key is one step *)
(* of read_line; Enter runs the command to its end.                        *)
(*                                                                         *)
(* The names of commands are characters here, digits and the blank are     *)
(* themselves; str_eq is equality of sequences of characters.  Keys that   *)
(* read_line ignores (control characters, any key in a full line) change   *)
(* nothing.  The terminal is as wide as the line is long.                  *)
(***************************************************************************)
EXTENDS Integers, Sequences, SequencesExt

CONSTANTS
  Printable,      \* the characters that are typed
  LINE_BUF_SIZE,  \* 80 in the source
  MAX_ARGS,       \* 8 in the source
  WORD_SIZE,      \* 2^32 in the source
  HEX_DIGITS,     \* how many print a word: 8 in the source
  divisors,       \* the powers of ten below WORD_SIZE, falling
  Worlds          \* what memory and the counters may answer: [word, cycles, instret]

VARIABLES
  line_buf,
  len,
  term,    \* [row, cursor]: the line on the terminal, behind the prompt
  answer   \* what the last line did, until the next key

vars == <<line_buf, len, term, answer>>

NUL == "NUL"
Index == 0 .. LINE_BUF_SIZE  \* bytes behind the line, that nothing writes, stay NUL
Line == [Index -> Printable \cup {NUL}]
Empty == [row |-> [i \in 0 .. LINE_BUF_SIZE - 1 |-> " "], cursor |-> 0]
Nothing == [cmd |-> "none", op |-> "none", addr |-> 0, data |-> 0, said |-> << >>, line |-> << >>]

-----------------------------------------------------------------------------
(***************************************************************************)
(* The terminal and the numbers that are printed on it.                    *)
(***************************************************************************)
uart_putc(t, c) ==
  IF c = "BS" THEN [t EXCEPT !.cursor = IF @ = 0 THEN 0 ELSE @ - 1]
  ELSE [row |-> [t.row EXCEPT ![t.cursor] = c], cursor |-> t.cursor + 1]

uart_puts(t, s) == FoldLeft(uart_putc, t, s)

\* The digits, from the highest that is not zero on.
print_uint(val) ==
  IF val = 0 THEN <<0>>
  ELSE SubSeq([i \in DOMAIN divisors |-> (val \div divisors[i]) % 10],
              SelectInSeq(divisors, LAMBDA d : val >= d), Len(divisors))

print_hex(val) == [i \in 1 .. HEX_DIGITS |-> (val \div 16 ^ (HEX_DIGITS - i)) % 16]

hex == <<"0", "1", "2", "3", "4", "5", "6", "7", "8", "9", "a", "b", "c", "d", "e", "f">>
IsDigit(c) == c \in Range(hex)
digit(c) == (CHOOSE i \in DOMAIN hex : hex[i] = c) - 1

\* The digits before the first character that is none.
parse_hex(s) ==
  LET rest == IF Len(s) >= 2 /\ s[1] = "0" /\ s[2] = "x" THEN SubSeq(s, 3, Len(s)) ELSE s
      stop == SelectInSeq(rest, LAMBDA c : ~IsDigit(c))
      taken == IF stop = 0 THEN rest ELSE SubSeq(rest, 1, stop - 1)
  IN FoldLeft(LAMBDA val, c : (val * 16 + digit(c)) % WORD_SIZE, 0, taken)

aligned(addr) == addr - (addr % 4)

udiv(num, den) == IF den = 0 THEN 0 ELSE num \div den
umod(num, den) == IF den = 0 THEN 0 ELSE num % den

-----------------------------------------------------------------------------
(***************************************************************************)
(* The line editor.                                                        *)
(***************************************************************************)
\* Variant: the end of the line is not written, what was there stands behind it.
line_buf_terminated_old(buf, n) == [buf EXCEPT ![n] = IF n = 0 THEN NUL ELSE @]

line_buf_terminated(buf, n) == [buf EXCEPT ![n] = NUL]

\* Variant: the last place of the buffer, which the end of the line needs, is used.
PrintableKeyAtEnd(c) ==
  /\ len < LINE_BUF_SIZE
  /\ line_buf' = [line_buf EXCEPT ![len] = c]
  /\ len' = len + 1
  /\ term' = uart_putc(term, c)
  /\ answer' = Nothing

PrintableKey(c) ==
  /\ len < LINE_BUF_SIZE - 1
  /\ line_buf' = [line_buf EXCEPT ![len] = c]
  /\ len' = len + 1
  /\ term' = uart_putc(term, c)
  /\ answer' = Nothing

\* Variant: the character is not wiped out on the terminal.
BackspaceKeepsCharacter ==
  /\ len > 0
  /\ len' = len - 1
  /\ term' = uart_puts(term, <<"BS">>)
  /\ answer' = Nothing
  /\ UNCHANGED line_buf

Backspace ==
  /\ len > 0
  /\ len' = len - 1
  /\ term' = uart_puts(term, <<"BS", " ", "BS">>)
  /\ answer' = Nothing
  /\ UNCHANGED line_buf

-----------------------------------------------------------------------------
(***************************************************************************)
(* The parser and the commands.                                            *)
(***************************************************************************)
\* The first place from i on that holds one of chars, or none of them.
next_of(line, i, chars)     == CHOOSE j \in i .. LINE_BUF_SIZE :
                                 line[j] \in chars /\ \A k \in i .. j - 1 : line[k] \notin chars
next_not_of(line, i, chars) == CHOOSE j \in i .. LINE_BUF_SIZE :
                                 line[j] \notin chars /\ \A k \in i .. j - 1 : line[k] \in chars

\* One round of the loop: from a place of the line on, the next word is found and
\* ended, and the words found so far get one more.
next_arg(s) ==
  LET start == next_not_of(s.line, s.idx, {" "})
      end   == next_of(s.line, start, {" ", NUL})
  IN IF s.line[start] = NUL THEN [s EXCEPT !.idx = start]
     ELSE [ line |-> [s.line EXCEPT ![end] = NUL],
            idx  |-> IF s.line[end] = NUL THEN end ELSE end + 1,
            argv |-> Append(s.argv, start) ]

parse_args(line) ==
  LET round[n \in 0 .. MAX_ARGS] ==
        IF n = 0 THEN [line |-> line, idx |-> 0, argv |-> << >>] ELSE next_arg(round[n - 1])
  IN round[MAX_ARGS]

\* The string that begins at a place of the line.
string_at(line, start) ==
  [i \in 1 .. next_of(line, start, {NUL}) - start |-> line[start + i - 1]]

Answer(cmd, op, addr, data, said) ==
  [cmd |-> cmd, op |-> op, addr |-> addr, data |-> data, said |-> said, line |-> << >>]

\* help, info and csr print text and registers that never change; clear and an
\* unknown command print text.
fixed_text(cmd) == Answer(cmd, "none", 0, 0, << >>)

cmd_mem(args, word) ==
  LET addr == aligned(parse_hex(args[2])) IN
  IF Len(args) < 2 THEN fixed_text("usage")
  ELSE Answer("mem", "read", addr, word, <<print_hex(addr), print_hex(word)>>)

cmd_memw(args) ==
  LET addr == aligned(parse_hex(args[2]))
      val  == parse_hex(args[3])
  IN IF Len(args) < 3 THEN fixed_text("usage")
     ELSE Answer("memw", "write", addr, val, <<print_hex(val), print_hex(addr)>>)

\* The two counters and, unless nothing has retired, cycles per instruction with
\* two decimals: a 0 is put before a fraction of one digit.
cmd_perf(cycles, instret) ==
  LET cpi_int  == udiv(cycles, instret)
      cpi_frac == umod(udiv((cycles * 100) % WORD_SIZE, instret), 100)
      cpi      == <<print_uint(cpi_int), (IF cpi_frac < 10 THEN <<0>> ELSE << >>) \o print_uint(cpi_frac)>>
  IN Answer("perf", "none", 0, 0,
            <<print_uint(cycles), print_uint(instret)>> \o IF instret > 0 THEN cpi ELSE << >>)

command(word) ==
  IF word \in {<<"help">>, <<"?">>} THEN "help"
  ELSE IF word \in {<<"clear">>, <<"cls">>} THEN "clear"
  ELSE IF word \in {<<"reboot">>, <<"reset">>} THEN "reboot"
  ELSE IF word \in {<<"info">>, <<"csr">>, <<"mem">>, <<"memw">>, <<"perf">>} THEN word[1]
  ELSE "unknown"

process_command(args, world) ==
  CASE args = << >> -> Nothing
    [] args # << >> /\ command(args[1]) = "mem"  -> cmd_mem(args, world.word)
    [] args # << >> /\ command(args[1]) = "memw" -> cmd_memw(args)
    [] args # << >> /\ command(args[1]) = "perf" -> cmd_perf(world.cycles, world.instret)
    [] OTHER -> fixed_text(command(args[1]))

\* Enter ends the line, an empty one without further ado; a reboot starts main
\* again, which clears the buffer.
Enter ==
  LET line   == line_buf_terminated(line_buf, len)
      parsed == parse_args(line)
      args   == [i \in DOMAIN parsed.argv |-> string_at(parsed.line, parsed.argv[i])]
      shown  == [i \in 1 .. term.cursor |-> term.row[i - 1]]
  IN /\ \E world \in Worlds :
          answer' = IF len = 0 THEN Nothing
                    ELSE [process_command(args, world) EXCEPT !.line = shown]
     /\ line_buf' = IF len = 0 THEN line
                    ELSE IF answer'.cmd = "reboot" THEN [i \in Index |-> NUL]
                    ELSE parsed.line
     /\ len' = 0
     /\ term' = Empty

Init ==
  /\ line_buf = [i \in Index |-> NUL]
  /\ len = 0
  /\ term = Empty
  /\ answer = Nothing

Next == (\E c \in Printable : PrintableKey(c)) \/ Backspace \/ Enter

Spec == Init /\ [][Next]_vars

-----------------------------------------------------------------------------
TypeOK ==
  /\ line_buf \in Line
  /\ len \in 0 .. LINE_BUF_SIZE - 1
  /\ term.cursor \in 0 .. LINE_BUF_SIZE - 1

\* EchoShowsLine: what stands behind the prompt is the line that Enter would run,
\* and nothing else, after any keys and at the limit of the buffer
\* (shell.c:268-295).
EchoShowsLine ==
  /\ term.cursor = len
  /\ \A i \in DOMAIN term.row : term.row[i] = IF i < len THEN line_buf[i] ELSE " "

\* The words of a line as its reader sees them: the stretches between blanks.
WordStarts(s) == {i \in DOMAIN s : s[i] # " " /\ (i = 1 \/ s[i - 1] = " ")}
Word(s, n) ==
  LET i == CHOOSE i \in WordStarts(s) : Cardinality({j \in WordStarts(s) : j <= i}) = n
      last == CHOOSE j \in i .. Len(s) :
                (j = Len(s) \/ s[j + 1] = " ") /\ \A k \in i .. j : s[k] # " "
  IN SubSeq(s, i, last)

\* The number a reader sees in a sequence of digits.
Number(digits, base) ==
  FoldSet(LAMBDA i, sum : sum + digits[i] * base ^ (Len(digits) - i), 0, DOMAIN digits)

\* A word as a number: its hexadecimal digits, behind 0x or not, as far as they go.
Meaning(w) ==
  LET from == IF Len(w) > 1 /\ w[1] = "0" /\ w[2] = "x" THEN 3 ELSE 1
      last == CHOOSE j \in from - 1 .. Len(w) :
                (\A k \in from .. j : IsDigit(w[k])) /\ (j = Len(w) \/ ~IsDigit(w[j + 1]))
  IN Number([k \in 1 .. last - from + 1 |-> digit(w[from + k - 1])], 16) % WORD_SIZE

\* CommandsObeyLine: a line does what it says on the terminal, whatever lines
\* stood in the buffer before it: the command is its first word, the word that
\* is read or written has the address and the value of the next words, and what
\* is printed are those numbers.  CPI is right while a hundred times the cycles
\* fit a word (shell.c:228-251, 299-327, 415-511, 522-552).
CommandsObeyLine ==
  LET s == answer.line
      words == Cardinality(WordStarts(s))
      addr == answer.addr
      printed(i) == Number(answer.said[i], 16)
      count(i) == Number(answer.said[i], 10)
  IN words > 0 =>
       /\ answer.cmd \in {command(Word(s, 1)), "usage"}
       /\ answer.cmd = "usage" <=> \/ Word(s, 1) = <<"mem">> /\ words < 2
                                   \/ Word(s, 1) = <<"memw">> /\ words < 3
       /\ answer.op # "none" => addr \in Meaning(Word(s, 2)) - 3 .. Meaning(Word(s, 2)) /\ addr % 4 = 0
       /\ answer.op = "read" => printed(1) = addr /\ printed(2) = answer.data
       /\ answer.op = "write" =>
            answer.data = Meaning(Word(s, 3)) /\ printed(1) = answer.data /\ printed(2) = addr
       /\ answer.cmd = "perf" /\ Len(answer.said) = 4 /\ count(1) * 100 < WORD_SIZE =>
            /\ Len(answer.said[4]) = 2
            /\ count(3) * 100 + count(4) = (count(1) * 100) \div count(2)
=============================================================================
