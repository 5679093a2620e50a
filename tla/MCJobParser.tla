---------------------------- MODULE MCJobParser -----------------------------
(* Constant values for model checking JobParser.                           *)
EXTENDS JobParser

MCCmds ==
  {[op |-> "CREATE", args |-> <<1, 2, 10>>], [op |-> "SHOW", args |-> <<12>>],
   [op |-> "RESERVE", args |-> <<1, 2, 3>>], [op |-> "RESERVE", args |-> <<1, 2, 3, 0, 1>>],
   [op |-> "RESERVE", args |-> <<1, 2, 3, 4, 5, 6, 7>>],
   [op |-> "RESERVE", args |-> <<1, 2, 3, 4, 5, 6, 7, 8, 9>>],
   [op |-> "WAIT", args |-> <<7>>], [op |-> "WAIT", args |-> <<7, 1>>],
   [op |-> "LIST", args |-> << >>], [op |-> "HELP", args |-> << >>],
   [op |-> "BARRIER", args |-> << >>]}

\* How a command is written in a job file.
Spaced(a) ==
  LET join[k \in 1 .. Len(a)] ==
        IF k = 1 THEN ToString(a[1]) ELSE join[k - 1] \o " " \o ToString(a[k])
  IN join[Len(a)]

Seat(a, k) == "(" \o ToString(a[2 * k]) \o "," \o ToString(a[2 * k + 1]) \o ")"

SeatList(a) ==
  LET join[k \in 1 .. (Len(a) - 1) \div 2] ==
        IF k = 1 THEN Seat(a, 1) ELSE join[k - 1] \o " " \o Seat(a, k)
  IN "[" \o join[(Len(a) - 1) \div 2] \o "]"

Line(c) ==
  CASE c.args = << >>   -> c.op
    [] c.op = "RESERVE" -> "RESERVE " \o ToString(c.args[1]) \o " " \o SeatList(c.args)
    [] OTHER            -> c.op \o " " \o Spaced(c.args)

\* Lines that are cut short, too long, misspelt, out of range, or no command, and
\* some that only look so: a number with a zero in front, and the READMEs' comma.
OddLines ==
  {"", "# SHOW 1", "C", "SHO", "LISTS", "SHOW ", "SHOW 1000", "SHOW 1 1", "CREATE 1 2",
   "CREATE 1 2 3 4", "RESERVE 1 [(1,1)", "RESERVE 1 [(1,1) ]", "RESERVE 1 [(1,1)] ",
   "RESERVE 1 [(2, 3)]", "RESERVE 1", "RESERVE 1 []", "RESERVE 1 [(1,1)(2,2)]",
   "CREATE  2 2", "WAIT ", "WAIT 1 x", "SHOW 012", "BARRIERS", "show 1"}

MCLines == {Line(c) : c \in MCCmds} \cup OddLines
\* Lines that swallow those after them, or do not.
FirstLines == {"", "C", "RESERVE 1", "CREATE 1 2", "SHOW 12"}

\* Three lines, the last one with or without its end.
MCFiles == {k \o "\n" \o l \o "\n" \o m \o e : k \in FirstLines, l \in MCLines,
                                              m \in MCLines, e \in {"\n", ""}}

=============================================================================
