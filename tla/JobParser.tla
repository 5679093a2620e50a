------------------------------ MODULE JobParser -----------------------------
(***************************************************************************)
(* The reader of .jobs files: client/parser.c and parse_uint of Part 2,    *)
(* parser.c of Part 1, which is the same code with BARRIER and with WAIT   *)
(* for one thread.  get_next and the parse_* function it leads to read a   *)
(* file descriptor character by character and never put one back, so what  *)
(* a wrong line costs depends on where the reader notices it.              *)
(***************************************************************************)
EXTENDS Integers, Sequences, FiniteSetsExt, TLC

CONSTANTS
  Files,     \* the contents of job files
  Cmds,      \* commands, whose lines may occur in them
  MaxSeats,  \* MAX_RESERVATION_SIZE
  UINT_MAX   \* scaled down with the numbers that occur in Files

Digits == {"0", "1", "2", "3", "4", "5", "6", "7", "8", "9"}
Words  == {"CREATE ", "RESERVE ", "SHOW ", "WAIT ", "LIST", "HELP", "BARRIER"}

ASSUME MaxAssumption == MaxSeats \in Nat \ {0} /\ UINT_MAX \in Nat
\* Of strings: their length is a number, no character is empty, every digit is
\* the text of a number, no keyword begins like another, a comment or an empty
\* line, or holds the end of a line, and a piece of a file has its characters.
ASSUME StringsAssumption ==
  /\ \A s \in Files \cup Words : Len(s) \in Nat
  /\ \A w \in Words : SubSeq(w, 1, 1) \notin {"\n", "#"} /\ Len(w) > 0
  /\ \A v, w \in Words : SubSeq(v, 1, 1) = SubSeq(w, 1, 1) => v = w
  /\ \A w \in Words : \A k \in 1 .. Len(w) : SubSeq(w, k, k) # "\n"
  /\ \A f \in Files : \A i \in 1 .. Len(f) : SubSeq(f, i, i) # ""
  /\ \A f \in Files : \A i, j \in 1 .. Len(f) : SubSeq(f, i, j) \in Words =>
       /\ Len(SubSeq(f, i, j)) = j - i + 1
       /\ \A k \in 1 .. j - i + 1 : SubSeq(SubSeq(f, i, j), k, k) = SubSeq(f, i + k - 1, i + k - 1)
  /\ \A c \in Digits : \E d \in 0 .. 9 : ToString(d) = c

VARIABLES
  part,  \* whose parser it is: Part 1 or Part 2
  file,  \* the job file
  pos,   \* where the file descriptor is; the next character has this index
  ran    \* the commands read so far, with the piece of the file each took

vars == <<part, file, pos, ran>>

EOF == ""
Size == Len(file)
Char(i) == IF i <= Size THEN SubSeq(file, i, i) ELSE EOF
Past(i) == IF i <= Size THEN i + 1 ELSE i

\* Mutant: the newline itself is not taken.
CleanupShort(i) ==
  LET ends == {j \in i .. Size : Char(j) = "\n"}
  IN IF ends = {} THEN Size + 1 ELSE Min(ends)

\* cleanup: where the descriptor is when the rest of the line has been read.
Cleanup(i) ==
  LET ends == {j \in i .. Size : Char(j) = "\n"}
  IN IF ends = {} THEN Size + 1 ELSE Min(ends) + 1

----------------------------------------------------------------------------
(* A parse in progress: whether all was as expected so far, the numbers    *)
(* read, and the position.                                                 *)

From(i) == [ok |-> TRUE, args |-> << >>, pos |-> i]

\* One character that must be among chars.
Literal(p, chars) ==
  IF ~p.ok THEN p
  ELSE [ok |-> Char(p.pos) \in chars, args |-> p.args, pos |-> Past(p.pos)]

DigitOf == [c \in Digits |-> CHOOSE d \in 0 .. 9 : ToString(d) = c]

\* A number that ends with the file: buf has no terminator, and strtoul goes on
\* into what is left in it.
Undefined == -1

\* Where the digits from i on end, and the number they write.
DigitsEnd(i) == Min({j \in i .. Size + 1 : Char(j) \notin Digits})
Decimal(i, end) ==
  LET value[j \in i - 1 .. end - 1] ==
        IF j < i THEN 0 ELSE 10 * value[j - 1] + DigitOf[Char(j)]
  IN value[end - 1]

\* parse_uint, and the test of the character after the number.  No digit at all
\* is the number 0.
Number(p, ends) ==
  LET end    == DigitsEnd(p.pos)
      number == IF end > Size THEN Undefined ELSE Decimal(p.pos, end)
  IN IF ~p.ok THEN p
     ELSE [ok   |-> number <= UINT_MAX /\ Char(end) \in ends,
           args |-> Append(p.args, number),
           pos  |-> Past(end)]

LineEnd == {"\n", EOF}

Invalid == [op |-> "INVALID", args |-> << >>]
Empty   == [op |-> "EMPTY", args |-> << >>]

Accept(op, p) == [cmd |-> [op |-> op, args |-> p.args], pos |-> p.pos]
Reject(i)     == [cmd |-> Invalid, pos |-> Cleanup(i)]
Result(op, p) == IF p.ok THEN Accept(op, p) ELSE Reject(p.pos)

----------------------------------------------------------------------------
(* The parse_* functions.                                                  *)

\* Mutant: the end of the line is not tested.
ParseCreateLoose(i) ==
  Result("CREATE", Number(Number(Number(From(i), {" "}), {" "}), LineEnd \cup {" "}))

ParseCreate(i) ==
  Result("CREATE", Number(Number(Number(From(i), {" "}), {" "}), LineEnd))

ParseShow(i) == Result("SHOW", Number(From(i), LineEnd))

\* Mutant: a second seat is not expected.
CoordinateLast(p) ==
  Literal(Number(Number(Literal(p, {"("}), {","}), {")"}), {"]"})

\* One turn of the loop of parse_reserve: a seat, and what separates it.
Coordinate(p) ==
  Literal(Number(Number(Literal(p, {"("}), {","}), {")"}), {" ", "]"})

\* Mutant: the loop turns once more, and its end is not tested.
ParseReserveLong(i) ==
  LET coords[n \in 0 .. MaxSeats + 1] ==
        IF n = 0 THEN Literal(Number(From(i), {" "}), {"["})
        ELSE LET p == coords[n - 1]
             IN IF ~p.ok \/ Char(p.pos - 1) = "]" THEN p ELSE Coordinate(p)
  IN Result("RESERVE", Literal(coords[MaxSeats + 1], {"\n"}))

\* A list of MaxSeats seats is refused even if it is complete.
ParseReserve(i) ==
  LET coords[n \in 0 .. MaxSeats] ==
        IF n = 0 THEN Literal(Number(From(i), {" "}), {"["})
        ELSE LET p == coords[n - 1]
             IN IF ~p.ok \/ Char(p.pos - 1) = "]" THEN p ELSE Coordinate(p)
      list == coords[MaxSeats]
  IN IF list.ok /\ Len(list.args) = 1 + 2 * MaxSeats
     THEN Reject(list.pos)
     ELSE Result("RESERVE", Literal(list, {"\n"}))

\* Part 2 has no thread to wait and skips what follows the delay.
ParseWait(i) ==
  LET delay  == Number(From(i), LineEnd)
      spaced == Number(From(i), {" "})
      thread == Number(spaced, LineEnd)
  IN IF delay.ok THEN Accept("WAIT", delay)
     ELSE IF part = 2 /\ spaced.ok THEN [Accept("WAIT", spaced) EXCEPT !.pos = Cleanup(@)]
     ELSE Result("WAIT", thread)

----------------------------------------------------------------------------
(* get_next.                                                               *)

\* The keywords by their first letters.
Keywords(c) == {w \in Words : SubSeq(w, 1, 1) = c /\ (part = 2 => w # "BARRIER")}

Arguments(word, i) ==
  CASE word = "CREATE "  -> ParseCreate(i)
    [] word = "RESERVE " -> ParseReserve(i)
    [] word = "SHOW "    -> ParseShow(i)
    [] word = "WAIT "    -> ParseWait(i)
    [] OTHER             -> Result(word, Literal(From(i), LineEnd))

\* As many characters are read as the keyword has, across the end of a line too.
GetNext(i) ==
  LET c == Char(i)
  IN CASE c = "\n" -> [cmd |-> Empty, pos |-> i + 1]
       [] c = "#"  -> [cmd |-> Empty, pos |-> Cleanup(i + 1)]
       [] Keywords(c) # {} ->
            LET word == CHOOSE w \in Keywords(c) : TRUE
                end  == Min({i + Len(word), Size + 1})
            IN IF SubSeq(file, i, end - 1) = word THEN Arguments(word, end) ELSE Reject(end)
       [] OTHER -> Reject(i + 1)

Init == part \in {1, 2} /\ file \in Files /\ pos = 1 /\ ran = << >>

\* A number that ends with the file may also come out too large.
Outcomes(cmd) == {cmd} \cup {Invalid : n \in {j \in DOMAIN cmd.args : cmd.args[j] = Undefined}}

\* One turn of the loop of the client's main, or of a thread of Part 1.
Command ==
  LET r == GetNext(pos)
  IN /\ pos <= Size
     /\ pos' = r.pos
     /\ \E cmd \in Outcomes(r.cmd) : ran' = Append(ran, [from |-> pos, to |-> r.pos, cmd |-> cmd])
     /\ UNCHANGED <<part, file>>

Next == Command
Spec == Init /\ [][Next]_vars

----------------------------------------------------------------------------
(* Reference: the line of a command, as HELP prints it (client/main.c of    *)
(* Part 2, threaded.c of Part 1).                                           *)

Ops == {"CREATE", "RESERVE", "SHOW", "LIST", "WAIT", "HELP", "BARRIER", "EMPTY", "INVALID"}

Keyword(op) == CASE op = "CREATE"  -> "CREATE "
                 [] op = "RESERVE" -> "RESERVE "
                 [] op = "SHOW"    -> "SHOW "
                 [] op = "WAIT"    -> "WAIT "
                 [] OTHER          -> op

\* The characters that follow argument n.
Separator(c, n) ==
  IF c.op = "RESERVE"
  THEN CASE n % 2 = 0 -> <<",">>
         [] n = 1     -> <<" ", "[", "(">>
         [] OTHER     -> IF n < Len(c.args) THEN <<")", " ", "(">> ELSE <<")", "]">>
  ELSE IF n < Len(c.args) THEN <<" ">> ELSE << >>

\* Where each argument of c begins, and where its line ends, in a line from i.
Starts(c, i) ==
  LET start[n \in 1 .. Len(c.args) + 1] ==
        IF n = 1 THEN i + Len(Keyword(c.op))
        ELSE DigitsEnd(start[n - 1]) + Len(Separator(c, n - 1))
  IN start

\* From i on the file reads as c, if an argument that is left out counts as 0:
\* its keyword, its arguments, each with what follows it, and then one of ends.
ReadsAs(c, i, ends) ==
  LET start == Starts(c, i)
      end   == start[Len(c.args) + 1]
  IN /\ start[1] <= Size + 1 /\ SubSeq(file, i, start[1] - 1) = Keyword(c.op)
     /\ \A n \in 1 .. Len(c.args) :
          LET after == DigitsEnd(start[n])
          IN /\ Decimal(start[n], after) = c.args[n]
             /\ \A m \in 1 .. Len(Separator(c, n)) : Char(after + m - 1) = Separator(c, n)[m]
     /\ Char(end) \in ends

\* No argument of c is left out in a line from i.
HasDigits(c, i) == \A n \in 1 .. Len(c.args) : Char(Starts(c, i)[n]) \in Digits

\* The line of c: each argument is written in decimal.
Spells(c, i, ends) == ReadsAs(c, i, ends) /\ HasDigits(c, i)

\* The numbers of arguments: a RESERVE may have as many seats as xs and ys.
Counts(op) == CASE op = "CREATE"  -> {3}
                [] op = "RESERVE" -> {1 + 2 * n : n \in 1 .. MaxSeats}
                [] op = "SHOW"    -> {1}
                [] op = "WAIT"    -> IF part = 2 THEN {1} ELSE {1, 2}
                [] OTHER          -> {0}

\* The commands of the parser's part.
Known(c) ==
  /\ c.op \in Ops \ {"EMPTY", "INVALID"} /\ Len(c.args) \in Counts(c.op)
  /\ part = 2 => c.op # "BARRIER"

\* A RESERVE of as many seats as the arrays hold.
Full(c) == c.op = "RESERVE" /\ Len(c.args) = 1 + 2 * MaxSeats

ASSUME CmdsAssumption == Cmds \subseteq [op : Ops, args : Seq(0 .. UINT_MAX)]

----------------------------------------------------------------------------
(* Properties.                                                             *)

\* A reservation never has more seats than the arrays xs and ys, and every
\* command but the empty ones has the arguments its operation uses.
TypeOK ==
  /\ part \in {1, 2} /\ pos \in 1 .. Size + 1
  /\ \A j \in 1 .. Len(ran) :
       /\ ran[j].cmd.op \in Ops
       /\ \A n \in DOMAIN ran[j].cmd.args : ran[j].cmd.args[n] \in Undefined .. UINT_MAX
       /\ ran[j].cmd.op = "RESERVE" =>
            Len(ran[j].cmd.args) \in {1 + 2 * n : n \in 1 .. MaxSeats}

\* A wrong line never leaves the reader in the middle of a line: the next
\* command is read from the start of one, or the file is at its end.
LineStart == pos = 1 \/ pos = Size + 1 \/ Char(pos - 1) = "\n"

\* A command is run only if one whole line reads as it, and that line is what
\* the command took: no command is put together from two lines or from a part
\* of one.  In Part 2 anything may follow the delay of a WAIT, which parse_wait
\* skips.  That every number is written (HasDigits) is not said: it is not true.
RunFromOneLine ==
  \A j \in 1 .. Len(ran) :
    LET c    == ran[j].cmd
        ends == IF part = 2 /\ c.op = "WAIT" THEN LineEnd \cup {" "} ELSE LineEnd
    IN c \notin {Invalid, Empty} /\ Undefined \notin {c.args[n] : n \in DOMAIN c.args} =>
         /\ ran[j].to = Cleanup(ran[j].from)
         /\ Known(c) /\ ReadsAs(c, ran[j].from, ends)

\* The reader needs no newline after a command without arguments only.
SureEnds(c) == IF c.args = << >> THEN LineEnd ELSE {"\n"}

\* A correct line that the reader comes to is run as it is written, whatever
\* was in the lines before it.  Of the lines the READMEs and parser.h allow, a
\* RESERVE of MAX_RESERVATION_SIZE seats and a last line that has arguments and no
\* newline are left out: the code does not run them as written.
CorrectLinesRun ==
  \A j \in 1 .. Len(ran) : \A c \in Cmds :
    Known(c) /\ ~Full(c) /\ Spells(c, ran[j].from, SureEnds(c)) => ran[j].cmd = c

=============================================================================
