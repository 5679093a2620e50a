--------------------------- MODULE JobParserProofs --------------------------
(***************************************************************************)
(* Proofs about JobParser, for any job files: what the reader hands on has  *)
(* the arguments its operation uses, it is never left in the middle of a   *)
(* line, every command it hands on is written on the line it took, and it  *)
(* hands on every command that is written.  The last two need, for each    *)
(* parse_* function, that it accepts a text exactly if ReadsAs says so of   *)
(* it.  The provers know nothing of strings: what is used of them is       *)
(* StringsAssumption.                                                      *)
(***************************************************************************)
EXTENDS JobParser, Flatten

\* Names for the texts that have no name in the SMT backend of the provers: its
\* translation fails on a string that holds a space or a comma.
Space == " "
Comma == ","
CreateWord  == "CREATE "
ReserveWord == "RESERVE "
ShowWord    == "SHOW "
WaitWord    == "WAIT "

\* What there is to know of them.
LEMMA NamedCharacters ==
  /\ Space # EOF /\ Comma # EOF /\ Space # "\n" /\ Comma # "\n" /\ Space # "]"
  /\ Space \notin LineEnd
BY Zenon DEF Space, Comma, EOF, LineEnd

\* They are the keywords, and those of their commands.
LEMMA NamedWords ==
  /\ {CreateWord, ReserveWord, ShowWord, WaitWord, "LIST", "HELP", "BARRIER"} = Words
  /\ Keyword("CREATE") = CreateWord /\ Keyword("RESERVE") = ReserveWord
  /\ Keyword("SHOW") = ShowWord /\ Keyword("WAIT") = WaitWord
  /\ Keyword("LIST") = "LIST" /\ Keyword("HELP") = "HELP" /\ Keyword("BARRIER") = "BARRIER"
<1>1. {CreateWord, ReserveWord, ShowWord, WaitWord, "LIST", "HELP", "BARRIER"} = Words
  BY Zenon DEF Words, CreateWord, ReserveWord, ShowWord, WaitWord
<1>2. Keyword("CREATE") = CreateWord /\ Keyword("RESERVE") = ReserveWord
  BY Zenon DEF Keyword, CreateWord, ReserveWord
<1>3. Keyword("SHOW") = ShowWord /\ Keyword("WAIT") = WaitWord
  BY Zenon DEF Keyword, ShowWord, WaitWord
<1>4. Keyword("LIST") = "LIST" /\ Keyword("HELP") = "HELP" /\ Keyword("BARRIER") = "BARRIER"
  BY Zenon DEF Keyword
<1> QED
  BY <1>1, <1>2, <1>3, <1>4, Zenon

----------------------------------------------------------------------------
(* Places in the file.                                                     *)

Places == 1 .. Size + 1
AtLine(i) == i = 1 \/ i = Size + 1 \/ Char(i - 1) = "\n"

\* There is no character past the end of the file, and one before it.
LEMMA FileFacts ==
  ASSUME file \in Files
  PROVE  /\ Size \in Nat /\ Char(Size + 1) = EOF
         /\ \A i \in Places : /\ i \in Nat /\ Past(i) \in Places
                              /\ (Char(i) # EOF) <=> (i <= Size)
                              /\ i <= Size => Past(i) = i + 1
                              /\ i > Size => Past(i) = Size + 1 /\ i = Size + 1
<1>1. Size \in Nat
  BY StringsAssumption, Zenon DEF Size
<1>2. \A i \in 1 .. Size : SubSeq(file, i, i) # ""
  BY StringsAssumption, Zenon DEF Size
<1>3. ASSUME NEW i \in 1 .. Size PROVE Char(i) # EOF
  <2>1. i <= Size
    BY <1>1
  <2> QED
    BY <1>2, <2>1, Zenon DEF Char, EOF
<1>4. Char(Size + 1) = EOF
  BY <1>1 DEF Char
<1>5. \A i \in Places : i \in Nat /\ (i \in 1 .. Size \/ i = Size + 1)
  BY <1>1 DEF Places
<1>6. \A i \in Places : Past(i) = IF i <= Size THEN i + 1 ELSE i
  BY DEF Past
<1> QED
  BY <1>1, <1>3, <1>4, <1>5, <1>6 DEF Places

\* The least place of a set.
LEMMA MinIs ==
  ASSUME NEW T \in SUBSET Nat, T # {}
  PROVE  Min(T) \in T /\ \A i \in T : Min(T) <= i
<1>1. \E i \in T : \A j \in T : i <= j
  BY Least
<1> QED
  BY <1>1, Zenon DEF Min

\* After the end of a line, or of the file, comes the start of a line.
LEMMA LineRead ==
  ASSUME file \in Files, NEW i \in Places, Char(i) \in LineEnd
  PROVE  AtLine(Past(i)) /\ Past(i) \in Places
<1>1. CASE i <= Size
  <2>1. Char(i) = "\n" /\ Past(i) = i + 1 /\ (i + 1) - 1 = i
    BY <1>1, FileFacts DEF LineEnd
  <2> QED
    BY <2>1, FileFacts DEF AtLine
<1>2. CASE i > Size
  BY <1>2, FileFacts DEF AtLine
<1> QED
  BY <1>1, <1>2, FileFacts

\* cleanup goes on to the start of a line.
LEMMA CleanupEnds ==
  ASSUME file \in Files, NEW i \in Places
  PROVE  Cleanup(i) \in Places /\ AtLine(Cleanup(i))
<1> DEFINE ends == {j \in i .. Size : Char(j) = "\n"}
<1>1. Size \in Nat /\ i \in Nat /\ i > 0
  BY FileFacts DEF Places
<1>2. Cleanup(i) = IF ends = {} THEN Size + 1 ELSE Min(ends) + 1
  BY DEF Cleanup
<1>3. CASE ends = {}
  BY <1>1, <1>2, <1>3 DEF Places, AtLine
<1>4. CASE ends # {}
  <2>1. ends \in SUBSET Nat
    BY <1>1
  <2>2. PICK k \in ends : k = Min(ends)
    BY <1>4, <2>1, MinIs
  <2>3. k \in i .. Size /\ Char(k) = "\n" /\ k + 1 - 1 = k
    BY <1>1
  <2> HIDE DEF ends
  <2> QED
    BY <1>1, <1>2, <1>4, <2>2, <2>3 DEF Places, AtLine
<1> QED
  BY <1>3, <1>4

----------------------------------------------------------------------------
(* Parses in progress.                                                     *)

Numbers == Undefined .. UINT_MAX

\* A parse keeps to the file, and its numbers to their range as long as all is
\* as expected.
Parses == {p \in [ok : BOOLEAN, args : Seq(Int), pos : Places] : p.ok => p.args \in Seq(Numbers)}

\* The last character read was one of these.
Took(p, chars) == \E i \in Places : Char(i) \in chars /\ p.pos = Past(i)

\* Whether something is in a set is true or false.
LEMMA Truth ==
  ASSUME NEW c, NEW S
  PROVE  \E b \in BOOLEAN : b = (c \in S)
<1>1. CASE c \in S
  <2>1. TRUE = (c \in S)
    BY <1>1, SMT
  <2> QED
    BY <2>1, Zenon
<1>2. CASE c \notin S
  <2>1. FALSE = (c \in S)
    BY <1>2, SMT
  <2> QED
    BY <2>1, Zenon
<1> QED
  BY <1>1, <1>2

\* How a parse is put together.
Made(b, a, n) == [ok |-> b, args |-> a, pos |-> n]

\* And that it is one.
LEMMA ParseMade ==
  ASSUME NEW b \in BOOLEAN, NEW a \in Seq(Int), NEW n \in Places, b => a \in Seq(Numbers)
  PROVE  /\ Made(b, a, n) \in Parses /\ Made(b, a, n).ok = b
         /\ Made(b, a, n).args = a /\ Made(b, a, n).pos = n
<1>1. Made(b, a, n).ok = b /\ Made(b, a, n).args = a /\ Made(b, a, n).pos = n
  BY DEF Made
<1>2. Made(b, a, n) \in [ok : BOOLEAN, args : Seq(Int), pos : Places]
  BY DEF Made
<1> QED
  BY <1>1, <1>2 DEF Parses

\* A parse begins with nothing read.
LEMMA FromParses ==
  ASSUME file \in Files, NEW i \in Places
  PROVE  From(i) \in Parses /\ From(i).ok /\ Len(From(i).args) = 0
<1>1. << >> \in Seq(Int) /\ << >> \in Seq(Numbers) /\ Len(<< >>) = 0
  OBVIOUS
<1> QED
  BY <1>1 DEF From, Parses

\* A literal character reads no number.
LEMMA LiteralParses ==
  ASSUME file \in Files, NEW p \in Parses, NEW chars
  PROVE  /\ Literal(p, chars) \in Parses
         /\ Literal(p, chars).args = p.args
         /\ Literal(p, chars).ok => p.ok /\ Took(Literal(p, chars), chars)
<1>1. p \in [ok : BOOLEAN, args : Seq(Int), pos : Places] /\ (p.ok => p.args \in Seq(Numbers))
  BY DEF Parses
<1>2. CASE ~p.ok
  BY <1>1, <1>2 DEF Literal
<1>3. CASE p.ok
  <2>1. Literal(p, chars) = Made(Char(p.pos) \in chars, p.args, Past(p.pos))
    BY <1>3, Zenon DEF Literal, Made
  <2>2. PICK q \in Parses :
          /\ q = Made(Char(p.pos) \in chars, p.args, Past(p.pos))
          /\ q.ok = (Char(p.pos) \in chars) /\ q.args = p.args /\ q.pos = Past(p.pos)
    <3>1. Past(p.pos) \in Places /\ p.args \in Seq(Int) /\ p.args \in Seq(Numbers)
      BY <1>1, <1>3, FileFacts
    <3>2. PICK b \in BOOLEAN : b = (Char(p.pos) \in chars)
      BY Truth
    <3>3. PICK q \in Parses : q = Made(b, p.args, Past(p.pos))
      BY <3>1, ParseMade
    <3>4. q.ok = b /\ q.args = p.args /\ q.pos = Past(p.pos)
      BY <3>1, <3>3, ParseMade
    <3> QED
      BY <3>2, <3>3, <3>4, Zenon
  <2>4. q.ok => Took(q, chars)
    BY <1>1, <2>2 DEF Took
  <2> QED
    BY <1>3, <2>1, <2>2, <2>4, Zenon
<1> QED
  BY <1>2, <1>3

----------------------------------------------------------------------------
(* The value of a number.                                                  *)

\* f is the function by which Number reads the digits from a on, up to n.
Values(f, a, n) == f = [j \in a - 1 .. n |-> IF j < a THEN 0 ELSE 10 * f[j - 1] + DigitOf[Char(j)]]

\* That function exists,
LEMMA ValuesExist ==
  ASSUME NEW a \in Nat
  PROVE  \A n \in Nat : \E f : Values(f, a, a - 1 + n)
<1> DEFINE T == {n \in Nat : \E f : Values(f, a, a - 1 + n)}
<1>1. 0 \in T
  <2>1. PICK f : f = [j \in a - 1 .. a - 1 + 0 |-> 0]
    OBVIOUS
  <2>2. Values(f, a, a - 1 + 0)
    BY <2>1 DEF Values
  <2> QED
    BY <2>2
<1>2. ASSUME NEW n \in T PROVE n + 1 \in T
  <2>1. PICK f : Values(f, a, a - 1 + n)
    OBVIOUS
  <2>2. PICK m \in Int : m = a + n /\ m - 1 = a - 1 + n /\ m = a - 1 + (n + 1) /\ a <= m
    OBVIOUS
  <2>3. f = [j \in a - 1 .. m - 1 |-> IF j < a THEN 0 ELSE 10 * f[j - 1] + DigitOf[Char(j)]]
    BY <2>1, <2>2 DEF Values
  <2>4. PICK v : v = 10 * f[m - 1] + DigitOf[Char(m)]
    OBVIOUS
  <2>5. PICK g : g = [j \in a - 1 .. m |-> IF j = m THEN v ELSE f[j]]
    OBVIOUS
  <2> HIDE DEF T
  <2>6. ASSUME NEW j \in a - 1 .. m
        PROVE  g[j] = IF j < a THEN 0 ELSE 10 * g[j - 1] + DigitOf[Char(j)]
    <3>1. CASE j = m
      <4>1. ~(j < a) /\ j - 1 \in a - 1 .. m /\ j - 1 # m /\ j - 1 = m - 1
        BY <2>2, <3>1
      <4>2. g[j] = v /\ g[j - 1] = f[m - 1]
        BY <2>5, <3>1, <4>1
      <4> QED
        BY <2>4, <3>1, <4>1, <4>2
    <3>2. CASE j # m
      <4>1. /\ j \in a - 1 .. m - 1
            /\ ~(j < a) => j - 1 \in a - 1 .. m - 1 /\ j - 1 # m /\ j - 1 \in a - 1 .. m
        BY <2>2, <3>2
      <4>2. g[j] = f[j] /\ (~(j < a) => g[j - 1] = f[j - 1])
        BY <2>5, <3>2, <4>1
      <4>3. f[j] = IF j < a THEN 0 ELSE 10 * f[j - 1] + DigitOf[Char(j)]
        BY <2>3, <4>1
      <4> QED
        BY <4>2, <4>3
    <3> QED
      BY <3>1, <3>2
  <2>7. Values(g, a, m)
    BY <2>5, <2>6 DEF Values
  <2> QED
    BY <2>2, <2>7 DEF T
<1> HIDE DEF T
<1>3. T = Nat
  <2>1. T \in SUBSET Nat
    BY DEF T
  <2> QED
    BY <1>1, <1>2, <2>1, Induction
<1> QED
  BY <1>3 DEF T

\* and what it reads from digits is a number.
LEMMA ValuesAreNumbers ==
  ASSUME NEW a \in Nat, NEW m \in Int, a - 1 <= m, NEW f, Values(f, a, m),
         \A j \in a .. m : Char(j) \in Digits
  PROVE  f[m] \in Nat
<1>1. \A j \in a .. m : DigitOf[Char(j)] \in Nat
  <2>1. \A c \in Digits : \E d \in 0 .. 9 : ToString(d) = c
    BY StringsAssumption
  <2>2. \A c \in Digits : (CHOOSE d \in 0 .. 9 : ToString(d) = c) \in 0 .. 9
    BY <2>1
  <2>3. \A c \in Digits : DigitOf[c] \in 0 .. 9
    BY <2>2 DEF DigitOf
  <2> QED
    BY <2>3
<1>2. \A j \in a - 1 .. m : f[j] = IF j < a THEN 0 ELSE 10 * f[j - 1] + DigitOf[Char(j)]
  BY DEF Values
<1> DEFINE T == {n \in Nat : a - 1 + n <= m => f[a - 1 + n] \in Nat}
<1>3. 0 \in T
  BY <1>2
<1>4. ASSUME NEW n \in T PROVE n + 1 \in T
  <2>1. SUFFICES ASSUME a - 1 + (n + 1) <= m PROVE f[a - 1 + (n + 1)] \in Nat
    OBVIOUS
  <2>2. PICK j \in Int : /\ j = a - 1 + (n + 1) /\ j - 1 = a - 1 + n
                          /\ a <= j /\ j \in a .. m /\ j \in a - 1 .. m
    BY <2>1
  <2>3. f[j - 1] \in Nat
    BY <2>1, <2>2
  <2>4. f[j] = 10 * f[j - 1] + DigitOf[Char(j)]
    BY <1>2, <2>2
  <2> QED
    BY <1>1, <2>2, <2>3, <2>4
<1> HIDE DEF T
<1>5. T = Nat
  <2>1. T \in SUBSET Nat
    BY DEF T
  <2> QED
    BY <1>3, <1>4, <2>1, Induction
<1>6. \A n \in Nat : a - 1 + n <= m => f[a - 1 + n] \in Nat
  BY <1>5 DEF T
<1>7. PICK n \in Nat : a - 1 + n = m
  <2>1. m - (a - 1) \in Nat /\ a - 1 + (m - (a - 1)) = m
    OBVIOUS
  <2> QED
    BY <2>1
<1> QED
  BY <1>6, <1>7

\* Where a number ends: before it there are digits only.
LEMMA DigitsEndIs ==
  ASSUME file \in Files, NEW i \in Places
  PROVE  /\ DigitsEnd(i) \in Places /\ i <= DigitsEnd(i)
         /\ \A j \in i .. DigitsEnd(i) - 1 : Char(j) \in Digits
<1> DEFINE others == {j \in i .. Size + 1 : Char(j) \notin Digits}
<1>1. Size \in Nat /\ i \in Nat /\ i > 0 /\ i <= Size + 1
  BY FileFacts DEF Places
<1>2. Size + 1 \in others
  <2>1. Char(Size + 1) \notin Digits
    BY FileFacts DEF Digits, EOF
  <2> QED
    BY <1>1, <2>1
<1>3. others \in SUBSET Nat
  BY <1>1
<1>4. PICK e \in others : e = Min(others) /\ \A j \in others : e <= j
  <2> HIDE DEF others
  <2> QED
    BY <1>2, <1>3, MinIs
<1>5. e \in Places /\ i <= e
  BY <1>1 DEF Places
<1>6. ASSUME NEW j \in i .. e - 1 PROVE Char(j) \in Digits
  BY <1>1, <1>4, <1>5 DEF Places
<1>7. DigitsEnd(i) = e
  BY <1>4, Zenon DEF DigitsEnd
<1> HIDE DEF others
<1> QED
  BY <1>5, <1>6, <1>7

\* Digits write a number.
LEMMA DecimalIs ==
  ASSUME file \in Files, NEW i \in Places
  PROVE  Decimal(i, DigitsEnd(i)) \in Nat
<1>1. PICK e \in Places : e = DigitsEnd(i) /\ i <= e /\ \A j \in i .. e - 1 : Char(j) \in Digits
  BY DigitsEndIs
<1> DEFINE f == CHOOSE v : v = [j \in i - 1 .. e - 1 |->
                                  IF j < i THEN 0 ELSE 10 * v[j - 1] + DigitOf[Char(j)]]
<1>2. Decimal(i, e) = f[e - 1]
  BY Zenon DEF Decimal
<1>3. i \in Nat /\ e - i \in Nat /\ i - 1 + (e - i) = e - 1 /\ e - 1 \in Int /\ i - 1 <= e - 1
  BY <1>1, FileFacts DEF Places
<1>4. \E v : Values(v, i, e - 1)
  BY <1>3, ValuesExist
<1>5. Values(f, i, e - 1)
  BY <1>4, Zenon DEF Values
<1> HIDE DEF f
<1>6. f[e - 1] \in Nat
  BY <1>1, <1>3, <1>5, ValuesAreNumbers
<1> QED
  BY <1>1, <1>2, <1>6

\* What is read as the number from i on.
NumberAt(i) == IF DigitsEnd(i) > Size THEN Undefined ELSE Decimal(i, DigitsEnd(i))

\* A number reads one number, and the character after it.
LEMMA NumberReads ==
  ASSUME file \in Files, NEW p \in Parses, p.ok, NEW chars
  PROVE  /\ Number(p, chars) \in Parses
         /\ Number(p, chars).args = Append(p.args, NumberAt(p.pos))
         /\ Number(p, chars).pos = Past(DigitsEnd(p.pos))
         /\ Number(p, chars).ok <=>
              (NumberAt(p.pos) <= UINT_MAX /\ Char(DigitsEnd(p.pos)) \in chars)
<1>1. p.args \in Seq(Int) /\ p.args \in Seq(Numbers) /\ p.pos \in Places
  BY DEF Parses
<1>2. PICK e \in Places : e = DigitsEnd(p.pos)
  BY <1>1, DigitsEndIs
<1>3. PICK n \in Int : n = NumberAt(p.pos) /\ Undefined <= n
  <2>1. Decimal(p.pos, DigitsEnd(p.pos)) \in Nat
    BY <1>1, DecimalIs
  <2> QED
    BY <2>1 DEF NumberAt, Undefined
<1>4. Number(p, chars) = Made(n <= UINT_MAX /\ Char(e) \in chars, Append(p.args, n), Past(e))
  BY <1>2, <1>3, Zenon DEF Number, Made, NumberAt
<1>5. PICK a \in Seq(Int) : a = Append(p.args, n)
  BY <1>1, AppendProperties
<1>6. n <= UINT_MAX => a \in Seq(Numbers)
  <2>1. UINT_MAX \in Nat
    BY MaxAssumption
  <2>2. n <= UINT_MAX => n \in Numbers
    BY <1>3, <2>1 DEF Numbers, Undefined
  <2> QED
    BY <1>1, <1>5, <2>2, AppendProperties
<1>7. PICK b \in BOOLEAN :
        /\ b = (n <= UINT_MAX /\ Char(e) \in chars)
        /\ b <=> (n <= UINT_MAX /\ Char(e) \in chars)
  <2>1. CASE n <= UINT_MAX /\ Char(e) \in chars
    <3>1. TRUE = (n <= UINT_MAX /\ Char(e) \in chars)
      BY <2>1, SMT
    <3> QED
      BY <2>1, <3>1, Zenon
  <2>2. CASE ~(n <= UINT_MAX /\ Char(e) \in chars)
    <3>1. FALSE = (n <= UINT_MAX /\ Char(e) \in chars)
      BY <2>2, SMT
    <3> QED
      BY <2>2, <3>1, Zenon
  <2> QED
    BY <2>1, <2>2
<1>8. PICK q \in Parses : q = Made(b, a, Past(e)) /\ q.ok = b /\ q.args = a /\ q.pos = Past(e)
  <2>1. PICK i \in Places : i = Past(e)
    BY FileFacts
  <2>2. b => a \in Seq(Numbers)
    BY <1>6, <1>7
  <2>3. PICK q \in Parses : q = Made(b, a, i)
    BY <2>2, ParseMade
  <2>4. q.ok = b /\ q.args = a /\ q.pos = i
    BY <2>2, <2>3, ParseMade
  <2> QED
    BY <2>1, <2>3, <2>4, Zenon
<1>9. Number(p, chars) = q
  BY <1>4, <1>5, <1>7, <1>8, Zenon
<1> QED
  BY <1>2, <1>3, <1>5, <1>7, <1>8, <1>9, Zenon

\* So it is a parse again.
LEMMA NumberParses ==
  ASSUME file \in Files, NEW p \in Parses, NEW chars
  PROVE  /\ Number(p, chars) \in Parses
         /\ p.ok => Len(Number(p, chars).args) = Len(p.args) + 1
         /\ Number(p, chars).ok => p.ok /\ Took(Number(p, chars), chars)
<1>1. CASE ~p.ok
  <2>1. Number(p, chars) = p
    BY <1>1 DEF Number
  <2> QED
    BY <1>1, <2>1
<1>2. CASE p.ok
  <2>1. PICK e \in Places : e = DigitsEnd(p.pos)
    BY DigitsEndIs DEF Parses
  <2>2. PICK q \in Parses : /\ q = Number(p, chars) /\ q.args = Append(p.args, NumberAt(p.pos))
                            /\ q.pos = Past(e) /\ (q.ok => Char(e) \in chars)
    BY <1>2, <2>1, NumberReads
  <2>3. Len(q.args) = Len(p.args) + 1
    <3>1. NumberAt(p.pos) \in Int
      <4>1. Decimal(p.pos, DigitsEnd(p.pos)) \in Nat
        BY DecimalIs DEF Parses
      <4> QED
        BY <4>1 DEF NumberAt, Undefined
    <3>2. p.args \in Seq(Int)
      BY DEF Parses
    <3> QED
      BY <2>2, <3>1, <3>2, AppendProperties
  <2> QED
    BY <1>2, <2>2, <2>3 DEF Took
<1> QED
  BY <1>1, <1>2

----------------------------------------------------------------------------
(* What get_next and the parse_* functions return.                         *)

SeatCounts == {1 + 2 * n : n \in 1 .. MaxSeats}
Commands == {c \in [op : Ops, args : Seq(Numbers)] : c.op = "RESERVE" => Len(c.args) \in SeatCounts}

\* A command, with the reader at the start of a line or at the end of the file.
Read(r) == r.cmd \in Commands /\ r.pos \in Places /\ AtLine(r.pos)

\* The empty commands have no arguments.
LEMMA NoArguments == Invalid \in Commands /\ Empty \in Commands
<1>1. << >> \in Seq(Numbers)
  OBVIOUS
<1> QED
  BY <1>1 DEF Commands, Invalid, Empty, Ops

\* A wrong line is left behind.
LEMMA RejectReads ==
  ASSUME file \in Files, NEW i \in Places
  PROVE  Read(Reject(i))
BY CleanupEnds, NoArguments DEF Read, Reject

\* A parse that went as expected makes a command.
LEMMA AcceptReads ==
  ASSUME file \in Files, NEW op \in Ops, NEW p \in Parses, p.ok, AtLine(p.pos),
         op = "RESERVE" => Len(p.args) \in SeatCounts
  PROVE  Read(Accept(op, p))
<1>1. p.args \in Seq(Numbers) /\ p.pos \in Places
  BY DEF Parses
<1>2. [op |-> op, args |-> p.args] \in Commands
  BY <1>1 DEF Commands
<1> QED
  BY <1>1, <1>2 DEF Read, Accept

\* With a number or a keyword before the end of a line,
LEMMA EndOfLine ==
  ASSUME file \in Files, NEW p, Took(p, LineEnd)
  PROVE  AtLine(p.pos)
BY LineRead DEF Took

\* a line is read to its end whether it is right or wrong.
LEMMA ResultReads ==
  ASSUME file \in Files, NEW op \in Ops \ {"RESERVE"}, NEW p \in Parses, p.ok => Took(p, LineEnd)
  PROVE  Read(Result(op, p))
<1>1. CASE p.ok
  <2>1. Read(Accept(op, p))
    BY <1>1, EndOfLine, AcceptReads
  <2> QED
    BY <1>1, <2>1 DEF Result
<1>2. CASE ~p.ok
  <2>1. p.pos \in Places
    BY DEF Parses
  <2> QED
    BY <1>2, <2>1, RejectReads DEF Result
<1> QED
  BY <1>1, <1>2

\* CREATE, three numbers.
LEMMA CreateReads ==
  ASSUME file \in Files, NEW i \in Places
  PROVE  Read(ParseCreate(i))
<1>1. PICK a \in Parses : a = Number(From(i), {Space})
  BY FromParses, NumberParses
<1>2. PICK b \in Parses : b = Number(a, {Space})
  BY NumberParses
<1>3. PICK c \in Parses : c = Number(b, LineEnd) /\ (c.ok => Took(c, LineEnd))
  BY NumberParses
<1>4. Read(Result("CREATE", c))
  BY <1>3, ResultReads DEF Ops
<1> QED
  BY <1>1, <1>2, <1>3, <1>4, Zenon DEF ParseCreate, Space

\* SHOW, one number.
LEMMA ShowReads ==
  ASSUME file \in Files, NEW i \in Places
  PROVE  Read(ParseShow(i))
<1>1. PICK a \in Parses : a = Number(From(i), LineEnd) /\ (a.ok => Took(a, LineEnd))
  BY FromParses, NumberParses
<1>2. Read(Result("SHOW", a))
  BY <1>1, ResultReads DEF Ops
<1> QED
  BY <1>1, <1>2, Zenon DEF ParseShow

\* WAIT, a delay and perhaps a thread, or something that is skipped.
LEMMA WaitReads ==
  ASSUME file \in Files, NEW i \in Places
  PROVE  Read(ParseWait(i))
<1>1. PICK delay \in Parses : delay = Number(From(i), LineEnd) /\ (delay.ok => Took(delay, LineEnd))
  BY FromParses, NumberParses
<1>2. PICK spaced \in Parses : spaced = Number(From(i), {Space})
  BY FromParses, NumberParses
<1>3. PICK thread \in Parses : thread = Number(spaced, LineEnd) /\ (thread.ok => Took(thread, LineEnd))
  BY NumberParses
<1>4. ParseWait(i) =
        IF delay.ok THEN Accept("WAIT", delay)
        ELSE IF part = 2 /\ spaced.ok THEN [Accept("WAIT", spaced) EXCEPT !.pos = Cleanup(@)]
        ELSE Result("WAIT", thread)
  BY <1>1, <1>2, <1>3, Zenon DEF ParseWait, Space
<1>5. delay.ok => Read(Accept("WAIT", delay))
  BY <1>1, EndOfLine, AcceptReads DEF Ops
<1>6. spaced.ok => Read([Accept("WAIT", spaced) EXCEPT !.pos = Cleanup(@)])
  <2>1. SUFFICES ASSUME spaced.ok PROVE Read([Accept("WAIT", spaced) EXCEPT !.pos = Cleanup(@)])
    OBVIOUS
  <2>2. spaced.pos \in Places /\ spaced.args \in Seq(Numbers)
    BY <2>1 DEF Parses
  <2>3. PICK k \in Places : k = Cleanup(spaced.pos) /\ AtLine(k)
    BY <2>2, CleanupEnds
  <2>4. PICK c \in Commands : c = [op |-> "WAIT", args |-> spaced.args]
    BY <2>2 DEF Commands, Ops
  <2>5. [Accept("WAIT", spaced) EXCEPT !.pos = Cleanup(@)] = [cmd |-> c, pos |-> k]
    BY <2>3, <2>4 DEF Accept
  <2> QED
    BY <2>3, <2>5 DEF Read
<1>7. Read(Result("WAIT", thread))
  BY <1>3, ResultReads DEF Ops
<1> QED
  BY <1>4, <1>5, <1>6, <1>7

----------------------------------------------------------------------------
(* The seats of a RESERVE.                                                 *)

\* One more seat is two more numbers.
LEMMA CoordinateParses ==
  ASSUME file \in Files, NEW p \in Parses
  PROVE  /\ Coordinate(p) \in Parses
         /\ Coordinate(p).ok => p.ok /\ Len(Coordinate(p).args) = Len(p.args) + 2
<1>1. PICK a \in Parses : a = Literal(p, {"("}) /\ a.args = p.args /\ (a.ok => p.ok)
  BY LiteralParses
<1>2. PICK b \in Parses :
        b = Number(a, {Comma}) /\ (a.ok => Len(b.args) = Len(a.args) + 1) /\ (b.ok => a.ok)
  BY NumberParses
<1>3. PICK c \in Parses :
        c = Number(b, {")"}) /\ (b.ok => Len(c.args) = Len(b.args) + 1) /\ (c.ok => b.ok)
  BY NumberParses
<1>4. PICK d \in Parses : d = Literal(c, {Space, "]"}) /\ d.args = c.args /\ (d.ok => c.ok)
  BY LiteralParses
<1>5. Coordinate(p) = d
  BY <1>1, <1>2, <1>3, <1>4, Zenon DEF Coordinate, Space, Comma
<1>6. Len(p.args) \in Nat
  BY LenProperties DEF Parses
<1>7. d.ok => p.ok /\ Len(d.args) = Len(p.args) + 2
  <2>1. Len(d.args) = Len(c.args) /\ Len(a.args) = Len(p.args)
    BY <1>1, <1>4, Zenon
  <2>2. d.ok => /\ p.ok /\ Len(c.args) = Len(b.args) + 1 /\ Len(b.args) = Len(a.args) + 1
    BY <1>1, <1>2, <1>3, <1>4, Zenon
  <2>3. PICK k \in Nat : k = Len(p.args)
    BY <1>6
  <2>4. d.ok => Len(d.args) = (k + 1) + 1
    BY <2>1, <2>2, <2>3, Zenon
  <2>5. (k + 1) + 1 = k + 2
    OBVIOUS
  <2> QED
    BY <2>2, <2>3, <2>4, <2>5, Zenon
<1> QED
  BY <1>5, <1>7

\* The loop of parse_reserve, up to m seats: it stops after a "]".
Turn(p) == IF ~p.ok \/ Char(p.pos - 1) = "]" THEN p ELSE Coordinate(p)
Opening(i) == Literal(Number(From(i), {Space}), {"["})
Loops(f, i, m) == f = [n \in 0 .. m |-> IF n = 0 THEN Opening(i) ELSE Turn(f[n - 1])]

\* That function exists,
LEMMA LoopsExist ==
  ASSUME NEW i
  PROVE  \A m \in Nat : \E f : Loops(f, i, m)
<1> DEFINE T == {m \in Nat : \E f : Loops(f, i, m)}
<1>1. 0 \in T
  <2>1. PICK f : f = [n \in 0 .. 0 |-> Opening(i)]
    OBVIOUS
  <2>2. Loops(f, i, 0)
    BY <2>1 DEF Loops
  <2> QED
    BY <2>2
<1>2. ASSUME NEW m \in T PROVE m + 1 \in T
  <2>1. PICK f : Loops(f, i, m)
    OBVIOUS
  <2>2. PICK v : v = Turn(f[m])
    OBVIOUS
  <2>3. PICK g : g = [n \in 0 .. m + 1 |-> IF n = m + 1 THEN v ELSE f[n]]
    OBVIOUS
  <2>4. m \in Nat
    OBVIOUS
  <2> HIDE DEF T
  <2>5. ASSUME NEW n \in 0 .. m + 1
        PROVE  g[n] = IF n = 0 THEN Opening(i) ELSE Turn(g[n - 1])
    <3>1. CASE n = m + 1
      <4>1. n # 0 /\ n - 1 \in 0 .. m + 1 /\ n - 1 # m + 1 /\ n - 1 = m
        BY <2>4, <3>1
      <4>2. g[n] = v /\ g[n - 1] = f[m]
        BY <2>3, <3>1, <4>1
      <4> QED
        BY <2>2, <4>1, <4>2
    <3>2. CASE n # m + 1
      <4>1. n \in 0 .. m /\ (n # 0 => n - 1 \in 0 .. m /\ n - 1 # m + 1 /\ n - 1 \in 0 .. m + 1)
        BY <2>4, <3>2
      <4>2. g[n] = f[n] /\ (n # 0 => g[n - 1] = f[n - 1])
        BY <2>3, <3>2, <4>1
      <4>3. f[n] = IF n = 0 THEN Opening(i) ELSE Turn(f[n - 1])
        BY <2>1, <4>1 DEF Loops
      <4> QED
        BY <4>2, <4>3
    <3> QED
      BY <3>1, <3>2
  <2>6. Loops(g, i, m + 1)
    BY <2>3, <2>5 DEF Loops
  <2> QED
    BY <2>4, <2>6 DEF T
<1> HIDE DEF T
<1>3. T = Nat
  <2>1. T \in SUBSET Nat
    BY DEF T
  <2> QED
    BY <1>1, <1>2, <2>1, Induction
<1> QED
  BY <1>3 DEF T

\* makes one turn after another,
LEMMA LoopTurns ==
  ASSUME NEW a, NEW m \in Nat, NEW f, Loops(f, a, m)
  PROVE  /\ f[0] = Opening(a)
         /\ \A n \in Nat : n < m => f[n + 1] = Turn(f[n])
<1>1. \A n \in 0 .. m : f[n] = IF n = 0 THEN Opening(a) ELSE Turn(f[n - 1])
  BY DEF Loops
<1>2. ASSUME NEW n \in Nat, n < m PROVE f[n + 1] = Turn(f[n])
  <2>1. n + 1 \in 0 .. m /\ n + 1 # 0 /\ (n + 1) - 1 = n
    BY <1>2
  <2> QED
    BY <1>1, <2>1
<1> QED
  BY <1>1, <1>2

\* and holds, after n seats or fewer, what a RESERVE needs.
LEMMA LoopSeats ==
  ASSUME file \in Files, NEW i \in Places, NEW m \in Nat, NEW f, Loops(f, i, m)
  PROVE  /\ f[m] \in Parses
         /\ f[m].ok /\ m > 0 => Len(f[m].args) \in {1 + 2 * k : k \in 1 .. m}
<1>0. \A n \in 0 .. m : f[n] = IF n = 0 THEN Opening(i) ELSE Turn(f[n - 1])
  BY DEF Loops
<1>1. PICK o \in Parses : /\ o = Opening(i)
                          /\ o.ok => Len(o.args) = 1 /\ Char(o.pos - 1) # "]"
  <2>1. PICK p \in Parses : p = From(i) /\ p.ok /\ Len(p.args) = 0
    BY FromParses
  <2>2. PICK q \in Parses : q = Number(p, {Space}) /\ Len(q.args) = Len(p.args) + 1
    BY <2>1, NumberParses
  <2>3. PICK r \in Parses : r = Literal(q, {"["}) /\ r.args = q.args /\ (r.ok => Took(r, {"["}))
    BY LiteralParses
  <2>4. Len(r.args) = 1
    <3>1. Len(r.args) = 0 + 1
      BY <2>1, <2>2, <2>3, Zenon
    <3> QED
      BY <3>1
  <2>5. r.ok => Char(r.pos - 1) # "]"
    <3>1. SUFFICES ASSUME r.ok PROVE Char(r.pos - 1) # "]"
      OBVIOUS
    <3>2. PICK j \in Places : Char(j) = "[" /\ r.pos = Past(j)
      BY <2>3, <3>1 DEF Took
    <3>3. j <= Size /\ Past(j) = j + 1 /\ (j + 1) - 1 = j
      <4>1. Char(j) # EOF
        BY <3>2 DEF EOF
      <4>2. j <= Size /\ j \in Nat
        BY <4>1, FileFacts
      <4> QED
        BY <4>2, FileFacts
    <3> QED
      BY <3>2, <3>3
  <2>6. r = Opening(i)
    BY <2>1, <2>2, <2>3, Zenon DEF Opening
  <2> QED
    BY <2>4, <2>5, <2>6
<1>2. CASE m = 0
  BY <1>0, <1>1, <1>2
<1>3. CASE m # 0
  <2> DEFINE Sound(n) == /\ f[n] \in Parses
                         /\ f[n].ok => Len(f[n].args) \in {1 + 2 * k : k \in 1 .. n}
             T == {n \in Nat : n + 1 <= m => Sound(n + 1)}
  <2>1. 0 \in T
    <3>1. f[0] = o /\ f[1] = Turn(f[0])
      BY <1>0, <1>1, <1>3
    <3>2. f[1] = IF o.ok THEN Coordinate(o) ELSE o
      BY <1>1, <3>1 DEF Turn
    <3>3. PICK c \in Parses : c = Coordinate(o) /\ (c.ok => o.ok /\ Len(c.args) = Len(o.args) + 2)
      BY CoordinateParses
    <3>4. c.ok => Len(c.args) = 1 + 2 * 1
      <4>1. c.ok => Len(c.args) = 1 + 2
        BY <1>1, <3>3, Zenon
      <4>2. 1 + 2 = 1 + 2 * 1
        OBVIOUS
      <4> QED
        BY <4>1, <4>2, Zenon
    <3>5. Sound(1)
      BY <3>2, <3>3, <3>4
    <3>6. Sound(0 + 1)
      <4>1. 0 + 1 = 1
        OBVIOUS
      <4> HIDE DEF Sound
      <4> QED
        BY <3>5, <4>1, Zenon
    <3> HIDE DEF Sound
    <3> QED
      BY <3>6
  <2>2. ASSUME NEW n \in T PROVE n + 1 \in T
    <3>1. SUFFICES ASSUME n + 2 <= m PROVE Sound(n + 2)
      OBVIOUS
    <3>2. Sound(n + 1)
      BY <3>1
    <3>3. PICK p \in Parses : /\ p = f[n + 1]
                              /\ p.ok => Len(p.args) \in {1 + 2 * k : k \in 1 .. n + 1}
      BY <3>2
    <3>4. f[n + 2] = Turn(p)
      BY <1>0, <3>1, <3>3
    <3>5. CASE ~p.ok \/ Char(p.pos - 1) = "]"
      BY <3>3, <3>4, <3>5 DEF Turn
    <3>6. CASE ~(~p.ok \/ Char(p.pos - 1) = "]")
      <4>1. PICK c \in Parses : c = Coordinate(p) /\ (c.ok => p.ok /\ Len(c.args) = Len(p.args) + 2)
        BY CoordinateParses
      <4>2. c.ok => Len(c.args) \in {1 + 2 * k : k \in 1 .. n + 2}
        <5>1. SUFFICES ASSUME c.ok PROVE Len(c.args) \in {1 + 2 * k : k \in 1 .. n + 2}
          OBVIOUS
        <5>2. PICK k \in 1 .. n + 1 : Len(p.args) = 1 + 2 * k
          BY <3>3, <4>1, <5>1
        <5>3. Len(c.args) = 1 + 2 * (k + 1) /\ k + 1 \in 1 .. n + 2
          BY <4>1, <5>1, <5>2
        <5> QED
          BY <5>3
      <4>3. f[n + 2] = c
        BY <3>4, <3>6, <4>1 DEF Turn
      <4> QED
        BY <4>1, <4>2, <4>3
    <3> QED
      BY <3>5, <3>6
  <2> HIDE DEF T
  <2>3. T = Nat
    <3>1. T \in SUBSET Nat
      BY DEF T
    <3> QED
      BY <2>1, <2>2, <3>1, Induction
  <2>4. PICK n \in Nat : n + 1 = m
    <3>1. m - 1 \in Nat /\ (m - 1) + 1 = m
      BY <1>3
    <3> QED
      BY <3>1
  <2>5. Sound(n + 1)
    <3>1. n \in T /\ n + 1 <= m
      BY <2>3, <2>4
    <3> HIDE DEF Sound
    <3> QED
      BY <3>1 DEF T
  <2> QED
    BY <2>4, <2>5, Zenon
<1> QED
  BY <1>2, <1>3

\* parse_reserve, by its loop.
LEMMA ReserveLoop ==
  ASSUME NEW a
  PROVE  \E f : /\ Loops(f, a, MaxSeats)
                /\ ParseReserve(a) =
                     IF f[MaxSeats].ok /\ Len(f[MaxSeats].args) = 1 + 2 * MaxSeats
                     THEN Reject(f[MaxSeats].pos)
                     ELSE Result("RESERVE", Literal(f[MaxSeats], {"\n"}))
<1> DEFINE f == CHOOSE coords : coords =
             [n \in 0 .. MaxSeats |->
                IF n = 0 THEN Literal(Number(From(a), {Space}), {"["})
                ELSE LET p == coords[n - 1]
                     IN IF ~p.ok \/ Char(p.pos - 1) = "]" THEN p ELSE Coordinate(p)]
<1>1. Loops(f, a, MaxSeats)
  <2>1. \E coords : Loops(coords, a, MaxSeats)
    BY MaxAssumption, LoopsExist
  <2> QED
    BY <2>1, Zenon DEF Loops, Opening, Turn
<1>2. ParseReserve(a) =
        IF f[MaxSeats].ok /\ Len(f[MaxSeats].args) = 1 + 2 * MaxSeats
        THEN Reject(f[MaxSeats].pos)
        ELSE Result("RESERVE", Literal(f[MaxSeats], {"\n"}))
  BY Zenon DEF ParseReserve, Space
<1> HIDE DEF f
<1> QED
  BY <1>1, <1>2

\* RESERVE, a number and a list of seats shorter than the limit.
LEMMA ReserveReads ==
  ASSUME file \in Files, NEW i \in Places
  PROVE  Read(ParseReserve(i))
<1>1. PICK f : /\ Loops(f, i, MaxSeats)
               /\ ParseReserve(i) =
                     IF f[MaxSeats].ok /\ Len(f[MaxSeats].args) = 1 + 2 * MaxSeats
                     THEN Reject(f[MaxSeats].pos)
                     ELSE Result("RESERVE", Literal(f[MaxSeats], {"\n"}))
  BY ReserveLoop
<1>2. PICK list \in Parses : /\ list = f[MaxSeats]
                             /\ list.ok => Len(list.args) \in SeatCounts
  <2>1. MaxSeats \in Nat /\ MaxSeats > 0
    BY MaxAssumption
  <2> QED
    BY <1>1, <2>1, LoopSeats DEF SeatCounts
<1>3. Read(Reject(list.pos))
  BY RejectReads DEF Parses
<1>4. PICK q \in Parses : /\ q = Literal(list, {"\n"}) /\ q.args = list.args
                          /\ q.ok => list.ok /\ Took(q, {"\n"})
  BY LiteralParses
<1>5. Read(Result("RESERVE", q))
  <2>1. CASE q.ok
    <3>1. Took(q, LineEnd)
      BY <1>4, <2>1 DEF Took, LineEnd
    <3>2. AtLine(q.pos)
      BY <3>1, EndOfLine
    <3>3. Len(q.args) \in SeatCounts
      BY <1>2, <1>4, <2>1, Zenon
    <3>4. Read(Accept("RESERVE", q))
      BY <2>1, <3>2, <3>3, AcceptReads DEF Ops
    <3> QED
      BY <2>1, <3>4 DEF Result
  <2>2. CASE ~q.ok
    BY <2>2, RejectReads DEF Result, Parses
  <2> QED
    BY <2>1, <2>2
<1> QED
  BY <1>1, <1>2, <1>3, <1>4, <1>5, Zenon

----------------------------------------------------------------------------
(* get_next, and the commands of a job file.                               *)

\* What follows a keyword.
LEMMA ArgumentsRead ==
  ASSUME file \in Files, NEW i \in Places, NEW word \in Words
  PROVE  Read(Arguments(word, i))
<1>1. CASE word \in {CreateWord, ReserveWord, ShowWord, WaitWord}
  BY <1>1, CreateReads, ReserveReads, ShowReads, WaitReads
     DEF Arguments, CreateWord, ReserveWord, ShowWord, WaitWord
<1>2. CASE word \in {"LIST", "HELP", "BARRIER"}
  <2>1. PICK p \in Parses : p = Literal(From(i), LineEnd) /\ (p.ok => Took(p, LineEnd))
    BY FromParses, LiteralParses
  <2>2. Read(Result(word, p))
    BY <1>2, <2>1, ResultReads DEF Ops
  <2>3. Arguments(word, i) = Result(word, p)
    BY <1>2, <2>1 DEF Arguments, CreateWord, ReserveWord, ShowWord, WaitWord
  <2> QED
    BY <2>2, <2>3
<1> QED
  BY <1>1, <1>2 DEF Words, CreateWord, ReserveWord, ShowWord, WaitWord

\* One command, from any place in the file.
LEMMA NextReads ==
  ASSUME file \in Files, NEW i \in Places, i <= Size
  PROVE  Read(GetNext(i))
<1>0. Keywords("\n") = {} /\ Keywords("#") = {}
  BY StringsAssumption, Zenon DEF Keywords
<1>1. i + 1 \in Places /\ Past(i) = i + 1 /\ i \in Nat /\ Size \in Nat /\ Past(i) \in Places
  BY FileFacts
<1>2. CASE Char(i) = "\n"
  <2>1. AtLine(i + 1)
    BY <1>1, <1>2, LineRead DEF LineEnd
  <2>2. Read([cmd |-> Empty, pos |-> i + 1])
    BY <1>1, <2>1, NoArguments DEF Read
  <2> QED
    BY <1>0, <1>2, <2>2 DEF GetNext
<1>3. CASE Char(i) = "#"
  <2>1. Read([cmd |-> Empty, pos |-> Cleanup(i + 1)])
    BY <1>1, CleanupEnds, NoArguments DEF Read
  <2> QED
    BY <1>0, <1>3, <2>1 DEF GetNext
<1>4. CASE Char(i) \notin {"\n", "#"} /\ Keywords(Char(i)) # {}
  <2>1. PICK word \in Words : word = CHOOSE w \in Keywords(Char(i)) : TRUE
    BY <1>4 DEF Keywords
  <2>2. PICK end \in Places : end = Min({i + Len(word), Size + 1})
    <3>1. Len(word) \in Nat
      BY StringsAssumption
    <3>2. PICK T \in SUBSET Nat : T = {i + Len(word), Size + 1} /\ T # {}
      <4>1. {i + Len(word), Size + 1} \in SUBSET Nat
        BY <1>1, <3>1
      <4> QED
        BY <4>1, Zenon
    <3>3. Min(T) \in T /\ \A j \in T : Min(T) <= j
      BY <3>2, MinIs
    <3>4. \A j \in T : j >= i
      BY <1>1, <3>1, <3>2
    <3>5. Min(T) <= Size + 1 /\ Min(T) \in Nat /\ Min(T) >= i /\ i > 0
      BY <3>2, <3>3, <3>4 DEF Places
    <3> QED
      BY <1>1, <3>2, <3>5 DEF Places
  <2>3. GetNext(i) = IF SubSeq(file, i, end - 1) = word THEN Arguments(word, end) ELSE Reject(end)
    BY <1>4, <2>1, <2>2, Zenon DEF GetNext
  <2> QED
    BY <2>3, ArgumentsRead, RejectReads
<1>5. CASE Char(i) \notin {"\n", "#"} /\ Keywords(Char(i)) = {}
  BY <1>1, <1>5, RejectReads DEF GetNext
<1> QED
  BY <1>2, <1>3, <1>4, <1>5

----------------------------------------------------------------------------
(* A parse and the text it has read.                                       *)

\* p has gone as expected, read the numbers a, and come to i.
State(p, a, i) == p \in Parses /\ p.ok /\ p.args = a /\ p.pos = i

\* The digits from i on end before e, inside the file, and write n.
Field(i, n, e) ==
  /\ i \in Places /\ e \in 1 .. Size /\ e = DigitsEnd(i)
  /\ n \in 0 .. UINT_MAX /\ n = Decimal(i, e)

\* A character, in the file or not.
LEMMA CharInFile ==
  ASSUME file \in Files, NEW i \in Places, Char(i) # EOF
  PROVE  i \in 1 .. Size /\ Past(i) = i + 1 /\ i + 1 \in Places /\ (i + 1) - 1 = i
<1>1. i \in Nat /\ i > 0 /\ i <= Size /\ Past(i) = i + 1 /\ Size \in Nat /\ Past(i) \in Places
  BY FileFacts DEF Places
<1> QED
  BY <1>1

\* A number in the file is read if it is in range,
LEMMA FieldRead ==
  ASSUME file \in Files, NEW p, NEW a, NEW i, State(p, a, i), NEW n, NEW e, Field(i, n, e),
         NEW chars
  PROVE  /\ Number(p, chars).ok <=> Char(e) \in chars
         /\ Char(e) \in chars => State(Number(p, chars), Append(a, n), e + 1)
<1>1. /\ Number(p, chars) \in Parses
      /\ Number(p, chars).args = Append(p.args, NumberAt(p.pos))
      /\ Number(p, chars).pos = Past(DigitsEnd(p.pos))
      /\ Number(p, chars).ok <=> (NumberAt(p.pos) <= UINT_MAX /\ Char(DigitsEnd(p.pos)) \in chars)
  BY NumberReads DEF State
<1>2. p.pos = i /\ p.args = a /\ DigitsEnd(i) = e /\ NumberAt(i) = n
  <2>1. e <= Size /\ ~(e > Size)
    BY FileFacts DEF Field
  <2> QED
    BY <2>1 DEF State, Field, NumberAt
<1>3. Past(e) = e + 1 /\ n <= UINT_MAX
  BY MaxAssumption DEF Field, Past
<1> QED
  BY <1>1, <1>2, <1>3 DEF State

\* and it is in the file if it is read and has a defined value.
LEMMA NumberWas ==
  ASSUME file \in Files, NEW p \in Parses, NEW chars, Number(p, chars).ok,
         EOF \notin chars \/ NumberAt(p.pos) # Undefined
  PROVE  /\ p.ok
         /\ \E n, e : /\ Field(p.pos, n, e) /\ Char(e) \in chars
                      /\ State(Number(p, chars), Append(p.args, n), e + 1)
<1>1. p.ok
  BY NumberParses
<1>2. /\ NumberAt(p.pos) <= UINT_MAX /\ Char(DigitsEnd(p.pos)) \in chars
  BY <1>1, NumberReads
<1>3. p.pos \in Places /\ DigitsEnd(p.pos) \in Places /\ Decimal(p.pos, DigitsEnd(p.pos)) \in Nat
  BY DigitsEndIs, DecimalIs DEF Parses
<1>4. PICK e \in Places : e = DigitsEnd(p.pos)
  BY <1>3
<1>5. e \in 1 .. Size
  <2>1. CASE EOF \notin chars
    BY <1>2, <1>4, <2>1, CharInFile
  <2>2. CASE NumberAt(p.pos) # Undefined
    BY <1>4, <2>2, FileFacts DEF NumberAt, Places
  <2> QED
    BY <2>1, <2>2
<1>6. NumberAt(p.pos) = Decimal(p.pos, e) /\ NumberAt(p.pos) \in Nat
  BY <1>3, <1>4, <1>5, FileFacts DEF NumberAt
<1>7. NumberAt(p.pos) \in 0 .. UINT_MAX
  BY <1>2, <1>6, MaxAssumption
<1>8. Field(p.pos, NumberAt(p.pos), e)
  BY <1>3, <1>4, <1>5, <1>6, <1>7 DEF Field
<1>9. State(p, p.args, p.pos)
  BY <1>1 DEF State
<1>10. State(Number(p, chars), Append(p.args, NumberAt(p.pos)), e + 1) /\ Char(e) \in chars
  BY <1>2, <1>4, <1>8, <1>9, FieldRead
<1> QED
  BY <1>1, <1>8, <1>10

\* A literal character is read if it is there,
LEMMA LiteralRead ==
  ASSUME file \in Files, NEW p, NEW a, NEW i, State(p, a, i), NEW chars
  PROVE  /\ Literal(p, chars).ok <=> Char(i) \in chars
         /\ Char(i) \in chars => State(Literal(p, chars), a, Past(i))
<1>1. Literal(p, chars) \in Parses /\ Literal(p, chars).args = a
  BY LiteralParses DEF State
<1>2. PICK b \in BOOLEAN : b = (Char(i) \in chars)
  BY Truth
<1>3. b <=> Char(i) \in chars
  BY <1>2, Zenon
<1>4. Literal(p, chars) = Made(b, a, Past(i))
  BY <1>2, Zenon DEF Literal, State, Made
<1>5. Made(b, a, Past(i)).ok = b /\ Made(b, a, Past(i)).pos = Past(i)
  BY DEF Made
<1>6. Literal(p, chars).ok = b /\ Literal(p, chars).pos = Past(i)
  BY <1>4, <1>5, Zenon
<1> QED
  BY <1>1, <1>3, <1>6, Zenon DEF State

\* and it is there if it is read.
LEMMA LiteralWas ==
  ASSUME file \in Files, NEW p \in Parses, NEW chars, Literal(p, chars).ok
  PROVE  /\ p.ok /\ Char(p.pos) \in chars
         /\ State(Literal(p, chars), p.args, Past(p.pos))
<1>1. p.ok
  BY LiteralParses
<1>2. State(p, p.args, p.pos)
  BY <1>1 DEF State
<1> QED
  BY <1>1, <1>2, LiteralRead

\* A parse begins with nothing read.
LEMMA FromRead ==
  ASSUME file \in Files, NEW i \in Places
  PROVE  State(From(i), << >>, i)
BY FromParses DEF State, From

----------------------------------------------------------------------------
(* The line of a command.                                                  *)

\* s is the function by which Starts places m arguments.
Placed(s, c, i, m) ==
  s = [n \in 1 .. m + 1 |-> IF n = 1 THEN i + Len(Keyword(c.op))
                            ELSE DigitsEnd(s[n - 1]) + Len(Separator(c, n - 1))]

\* That function exists,
LEMMA PlacedExists ==
  ASSUME NEW c, NEW i
  PROVE  \A m \in Nat : \E s : Placed(s, c, i, m)
<1> DEFINE T == {m \in Nat : \E s : Placed(s, c, i, m)}
<1>1. 0 \in T
  <2>1. PICK s : s = [n \in 1 .. 0 + 1 |-> i + Len(Keyword(c.op))]
    OBVIOUS
  <2>2. Placed(s, c, i, 0)
    BY <2>1 DEF Placed
  <2> QED
    BY <2>2
<1>2. ASSUME NEW m \in T PROVE m + 1 \in T
  <2>1. PICK s : Placed(s, c, i, m)
    OBVIOUS
  <2>2. PICK v : v = DigitsEnd(s[m + 1]) + Len(Separator(c, m + 1))
    OBVIOUS
  <2>3. PICK t : t = [n \in 1 .. (m + 1) + 1 |-> IF n = m + 2 THEN v ELSE s[n]]
    OBVIOUS
  <2>4. m \in Nat
    OBVIOUS
  <2> HIDE DEF T
  <2>5. ASSUME NEW n \in 1 .. (m + 1) + 1
        PROVE  t[n] = IF n = 1 THEN i + Len(Keyword(c.op))
                      ELSE DigitsEnd(t[n - 1]) + Len(Separator(c, n - 1))
    <3>1. CASE n = m + 2
      <4>1. n # 1 /\ n - 1 \in 1 .. (m + 1) + 1 /\ n - 1 # m + 2 /\ n - 1 = m + 1
        BY <2>4, <3>1
      <4>2. t[n] = v /\ t[n - 1] = s[m + 1]
        BY <2>3, <3>1, <4>1
      <4> QED
        BY <2>2, <4>1, <4>2
    <3>2. CASE n # m + 2
      <4>1. n \in 1 .. m + 1 /\ (n # 1 => n - 1 \in 1 .. (m + 1) + 1 /\ n - 1 # m + 2)
        BY <2>4, <3>2
      <4>2. t[n] = s[n] /\ (n # 1 => t[n - 1] = s[n - 1])
        BY <2>3, <3>2, <4>1
      <4>3. s[n] = IF n = 1 THEN i + Len(Keyword(c.op))
                   ELSE DigitsEnd(s[n - 1]) + Len(Separator(c, n - 1))
        BY <2>1, <4>1 DEF Placed
      <4> QED
        BY <4>2, <4>3
    <3> QED
      BY <3>1, <3>2
  <2>6. Placed(t, c, i, m + 1)
    BY <2>3, <2>5 DEF Placed
  <2> QED
    BY <2>4, <2>6 DEF T
<1> HIDE DEF T
<1>3. T = Nat
  <2>1. T \in SUBSET Nat
    BY DEF T
  <2> QED
    BY <1>1, <1>2, <2>1, Induction
<1> QED
  BY <1>3 DEF T

\* and Starts is it.
LEMMA StartsAre ==
  ASSUME NEW c, Len(c.args) \in Nat, NEW i
  PROVE  /\ Starts(c, i)[1] = i + Len(Keyword(c.op))
         /\ \A n \in 1 .. Len(c.args) :
              Starts(c, i)[n + 1] = DigitsEnd(Starts(c, i)[n]) + Len(Separator(c, n))
<1> DEFINE s == CHOOSE start : start =
              [n \in 1 .. Len(c.args) + 1 |->
                 IF n = 1 THEN i + Len(Keyword(c.op))
                 ELSE DigitsEnd(start[n - 1]) + Len(Separator(c, n - 1))]
<1>1. Starts(c, i) = s
  BY Zenon DEF Starts
<1>2. \E t : Placed(t, c, i, Len(c.args))
  BY PlacedExists
<1>3. Placed(s, c, i, Len(c.args))
  BY <1>2, Zenon DEF Placed
<1> HIDE DEF s
<1>4. \A n \in 1 .. Len(c.args) + 1 :
        s[n] = IF n = 1 THEN i + Len(Keyword(c.op))
               ELSE DigitsEnd(s[n - 1]) + Len(Separator(c, n - 1))
  BY <1>3 DEF Placed
<1>5. s[1] = i + Len(Keyword(c.op))
  BY <1>4
<1>6. ASSUME NEW n \in 1 .. Len(c.args)
      PROVE  s[n + 1] = DigitsEnd(s[n]) + Len(Separator(c, n))
  <2>1. n + 1 \in 1 .. Len(c.args) + 1 /\ n + 1 # 1 /\ (n + 1) - 1 = n
    OBVIOUS
  <2>2. s[n + 1] = DigitsEnd(s[(n + 1) - 1]) + Len(Separator(c, (n + 1) - 1))
    BY <1>4, <2>1
  <2> QED
    BY <2>1, <2>2
<1> QED
  BY <1>1, <1>5, <1>6

\* What separates the arguments of the other commands is a space,
LEMMA PlainSeparators ==
  ASSUME NEW c, Len(c.args) \in Nat, c.op # "RESERVE", NEW n \in 1 .. Len(c.args)
  PROVE  Separator(c, n) = IF n < Len(c.args) THEN <<Space>> ELSE << >>
BY DEF Separator, Space, Comma

\* and those of a RESERVE are written as a list of pairs.
LEMMA SeatSeparators ==
  ASSUME NEW c, c.op = "RESERVE", NEW m \in Nat \ {0}, Len(c.args) = 1 + 2 * m
  PROVE  /\ Separator(c, 1) = <<Space, "[", "(">>
         /\ \A k \in 1 .. m : /\ Separator(c, 2 * k) = <<Comma>>
                              /\ Separator(c, 2 * k + 1) =
                                   IF k < m THEN <<")", Space, "(">> ELSE <<")", "]">>
<1>1. Separator(c, 1) = <<Space, "[", "(">>
  <2>1. 1 % 2 # 0
    OBVIOUS
  <2> QED
    BY <2>1 DEF Separator, Space, Comma
<1>2. ASSUME NEW k \in 1 .. m
      PROVE  /\ Separator(c, 2 * k) = <<Comma>>
             /\ Separator(c, 2 * k + 1) = IF k < m THEN <<")", Space, "(">> ELSE <<")", "]">>
  <2>1. 2 * k # 1 /\ (2 * k) % 2 = 0 /\ 2 * k # 1 + 2 * m
    OBVIOUS
  <2>2. 2 * k + 1 # 1 /\ (2 * k + 1) % 2 # 0 /\ (2 * k + 1 < Len(c.args) <=> k < m)
    OBVIOUS
  <2> QED
    BY <2>1, <2>2 DEF Separator, Space, Comma
<1> QED
  BY <1>1, <1>2

\* No character of q ends a line or the file.
Plain(q) == Len(q) \in Nat /\ \A m \in 1 .. Len(q) : q[m] \notin {"\n", EOF}

\* One character,
LEMMA PlainOne ==
  ASSUME NEW q, Len(q) = 1, q[1] \notin {"\n", EOF}
  PROVE  Plain(q)
<1>1. \A m \in 1 .. 1 : m = 1
  OBVIOUS
<1>2. \A m \in 1 .. 1 : q[m] \notin {"\n", EOF}
  BY <1>1, Zenon
<1> QED
  BY <1>2 DEF Plain

\* two,
LEMMA PlainTwo ==
  ASSUME NEW q, Len(q) = 2, q[1] \notin {"\n", EOF},
         q[2] \notin {"\n", EOF}
  PROVE  Plain(q)
<1>1. \A m \in 1 .. 2 : m = 1 \/ m = 2
  OBVIOUS
<1>2. \A m \in 1 .. 2 : q[m] \notin {"\n", EOF}
  BY <1>1, Zenon
<1> QED
  BY <1>2 DEF Plain

\* or three are plain if each is.
LEMMA PlainThree ==
  ASSUME NEW q, Len(q) = 3, q[1] \notin {"\n", EOF},
         q[2] \notin {"\n", EOF},
         q[3] \notin {"\n", EOF}
  PROVE  Plain(q)
<1>1. \A m \in 1 .. 3 : m = 1 \/ m = 2 \/ m = 3
  OBVIOUS
<1>2. \A m \in 1 .. 3 : q[m] \notin {"\n", EOF}
  BY <1>1, Zenon
<1> QED
  BY <1>2 DEF Plain

\* That is so of every separator.
LEMMA SeparatorCharacters ==
  ASSUME NEW c, NEW n \in Nat
  PROVE  Plain(Separator(c, n))
<1>1. Plain(<< >>)
  <2>1. Len(<< >>) = 0
    OBVIOUS
  <2> QED
    BY <2>1 DEF Plain
<1>2. Plain(<<Space>>)
  <2>1. PICK q : q = <<Space>>
    OBVIOUS
  <2>2. Len(q) = 1 /\ q[1] = Space
    BY <2>1
  <2>3. Plain(q)
    BY <2>2, PlainOne, NamedCharacters DEF EOF
  <2> QED
    BY <2>1, <2>3, Zenon
<1>3. Plain(<<Comma>>)
  <2>1. PICK q : q = <<Comma>>
    OBVIOUS
  <2>2. Len(q) = 1 /\ q[1] = Comma
    BY <2>1
  <2>3. Plain(q)
    BY <2>2, PlainOne, NamedCharacters DEF EOF
  <2> QED
    BY <2>1, <2>3, Zenon
<1>4. Plain(<<")", "]">>)
  <2>1. PICK q : q = <<")", "]">>
    OBVIOUS
  <2>2. Len(q) = 2 /\ q[1] = ")" /\ q[2] = "]"
    BY <2>1
  <2>3. Plain(q)
    BY <2>2, PlainTwo DEF EOF
  <2> QED
    BY <2>1, <2>3, Zenon
<1>5. Plain(<<Space, "[", "(">>)
  <2>1. PICK q : q = <<Space, "[", "(">>
    OBVIOUS
  <2>2. Len(q) = 3 /\ q[1] = Space /\ q[2] = "[" /\ q[3] = "("
    BY <2>1
  <2>3. Plain(q)
    BY <2>2, PlainThree, NamedCharacters DEF EOF
  <2> QED
    BY <2>1, <2>3, Zenon
<1>6. Plain(<<")", Space, "(">>)
  <2>1. PICK q : q = <<")", Space, "(">>
    OBVIOUS
  <2>2. Len(q) = 3 /\ q[1] = ")" /\ q[2] = Space /\ q[3] = "("
    BY <2>1
  <2>3. Plain(q)
    BY <2>2, PlainThree, NamedCharacters DEF EOF
  <2> QED
    BY <2>1, <2>3, Zenon
<1>7. CASE c.op # "RESERVE"
  BY <1>1, <1>2, <1>7, Zenon DEF Separator, Space, Comma
<1>8. CASE c.op = "RESERVE" /\ n % 2 = 0
  <2>1. n # 1
    BY <1>8
  <2>2. Separator(c, n) = <<Comma>>
    BY <1>8, <2>1 DEF Separator, Space, Comma
  <2> QED
    BY <1>3, <2>2, Zenon
<1>9. CASE c.op = "RESERVE" /\ n % 2 # 0 /\ n = 1
  <2>1. Separator(c, n) = <<Space, "[", "(">>
    BY <1>9 DEF Separator, Space, Comma
  <2> QED
    BY <1>5, <2>1
<1>10. CASE c.op = "RESERVE" /\ n % 2 # 0 /\ n # 1
  <2>1. Separator(c, n) = IF n < Len(c.args) THEN <<")", Space, "(">> ELSE <<")", "]">>
    BY <1>10 DEF Separator, Space, Comma
  <2> QED
    BY <1>4, <1>6, <2>1, Zenon
<1> QED
  BY <1>7, <1>8, <1>9, <1>10

----------------------------------------------------------------------------
(* The end of the line.                                                    *)

\* From i to e there is no end of a line.
Clean(i, e) == e \in Places /\ i <= e /\ \A j \in i .. e - 1 : Char(j) # "\n"

\* A number stays in its line,
LEMMA CleanDigits ==
  ASSUME file \in Files, NEW i \in Places, NEW a, Clean(i, a)
  PROVE  Clean(i, DigitsEnd(a))
<1>1. a \in Places /\ i <= a /\ \A j \in i .. a - 1 : Char(j) # "\n"
  BY DEF Clean
<1>2. PICK e \in Places : e = DigitsEnd(a) /\ a <= e /\ \A j \in a .. e - 1 : Char(j) \in Digits
  BY <1>1, DigitsEndIs
<1>3. i \in Nat /\ a \in Nat /\ e \in Nat
  BY <1>1, FileFacts
<1>4. ASSUME NEW j \in i .. e - 1 PROVE Char(j) # "\n"
  <2>1. j \in i .. a - 1 \/ j \in a .. e - 1
    BY <1>3
  <2>2. "\n" \notin Digits
    BY DEF Digits
  <2> QED
    BY <1>1, <1>2, <2>1, <2>2
<1> QED
  BY <1>1, <1>2, <1>3, <1>4 DEF Clean

\* and so does a text in which no character ends it.
LEMMA CleanText ==
  ASSUME file \in Files, NEW i \in Places, NEW a, Clean(i, a), NEW q, Plain(q),
         \A m \in 1 .. Len(q) : Char(a + m - 1) = q[m]
  PROVE  Clean(i, a + Len(q))
<1>1. a \in Places /\ i <= a /\ \A j \in i .. a - 1 : Char(j) # "\n"
  BY DEF Clean
<1>2. PICK k \in Nat : k = Len(q)
  BY DEF Plain
<1>3. \A m \in 1 .. k : Char(a + m - 1) \notin {"\n", EOF}
  BY <1>2, Zenon DEF Plain
<1>4. i \in Nat /\ a \in Nat /\ Size \in Nat /\ a > 0 /\ a <= Size + 1
  BY <1>1, FileFacts DEF Places
<1>5. a + k \in Places
  <2>1. CASE k = 0
    BY <1>1, <1>4, <2>1
  <2>2. CASE k # 0
    <3>1. k \in 1 .. k
      BY <2>2
    <3>2. Char(a + k - 1) # EOF
      BY <1>3, <3>1
    <3>3. a + k - 1 <= Size
      BY <3>2 DEF Char
    <3> QED
      BY <1>4, <3>3 DEF Places
  <2> QED
    BY <2>1, <2>2
<1>6. ASSUME NEW j \in i .. (a + k) - 1 PROVE Char(j) # "\n"
  <2>1. CASE j \in i .. a - 1
    BY <1>1, <2>1
  <2>2. CASE j \notin i .. a - 1
    <3>1. PICK m \in 1 .. k : j = a + m - 1
      <4>1. j - a + 1 \in 1 .. k /\ j = a + (j - a + 1) - 1
        BY <1>4, <2>2
      <4> QED
        BY <4>1
    <3> QED
      BY <1>3, <3>1
  <2> QED
    BY <2>1, <2>2
<1>7. i <= a + k
  BY <1>1, <1>4
<1> QED
  BY <1>2, <1>5, <1>6, <1>7 DEF Clean

\* cleanup does not care where in a line it begins,
LEMMA CleanupSkips ==
  ASSUME file \in Files, NEW i \in Places, NEW e, Clean(i, e)
  PROVE  Cleanup(i) = Cleanup(e)
<1>1. e \in Places /\ i <= e /\ \A j \in i .. e - 1 : Char(j) # "\n"
  BY DEF Clean
<1>2. i \in Nat /\ e \in Nat /\ Size \in Nat
  BY <1>1, FileFacts
<1>3. {j \in i .. Size : Char(j) = "\n"} = {j \in e .. Size : Char(j) = "\n"}
  <2>1. ASSUME NEW j \in i .. Size, Char(j) = "\n" PROVE j \in e .. Size
    <3>1. j \notin i .. e - 1
      BY <1>1, <2>1
    <3> QED
      BY <1>2, <3>1
  <2>2. \A j \in e .. Size : j \in i .. Size
    BY <1>1, <1>2
  <2> QED
    BY <2>1, <2>2
<1> QED
  BY <1>3, Zenon DEF Cleanup

\* and at its end it takes one character, if there is one.
LEMMA CleanupAtEnd ==
  ASSUME file \in Files, NEW e \in Places, Char(e) \in LineEnd
  PROVE  Cleanup(e) = Past(e)
<1> DEFINE T == {j \in e .. Size : Char(j) = "\n"}
<1>1. e \in Nat /\ Size \in Nat
  BY FileFacts
<1>2. Cleanup(e) = IF T = {} THEN Size + 1 ELSE Min(T) + 1
  BY DEF Cleanup
<1>3. CASE e <= Size
  <2>1. Char(e) = "\n"
    BY <1>3, FileFacts DEF LineEnd
  <2>2. e \in T /\ T \in SUBSET Nat /\ \A j \in T : e <= j
    BY <1>1, <1>3, <2>1
  <2>3. PICK k \in Nat : k = Min(T) /\ k \in T /\ k <= e
    <3> HIDE DEF T
    <3> QED
      BY <2>2, MinIs
  <2>4. k = e
    BY <1>1, <2>2, <2>3
  <2> HIDE DEF T
  <2> QED
    BY <1>2, <1>3, <2>2, <2>3, <2>4, FileFacts
<1>4. CASE ~(e <= Size)
  <2>1. T = {}
    BY <1>1, <1>4
  <2> HIDE DEF T
  <2> QED
    BY <1>1, <1>2, <1>4, <2>1, FileFacts
<1> QED
  BY <1>3, <1>4

\* The file reads w from i on.
Here(w, i) == i + Len(w) <= Size + 1 /\ SubSeq(file, i, i + Len(w) - 1) = w

\* Then it has its first character there, and no end of a line.
LEMMA KeywordText ==
  ASSUME file \in Files, NEW i \in Places, NEW w \in Words, Here(w, i)
  PROVE  i <= Size /\ Char(i) = SubSeq(w, 1, 1) /\ Clean(i, i + Len(w))
<1>1. PICK k \in Nat : k = Len(w) /\ k > 0 /\ \A m \in 1 .. k : SubSeq(w, m, m) # "\n"
  BY StringsAssumption
<1>2. i \in Nat /\ i > 0 /\ Size \in Nat /\ i + k <= Size + 1
  BY <1>1, FileFacts DEF Here, Places
<1>3. PICK j \in 1 .. Size : j = i + k - 1
  BY <1>1, <1>2
<1>4. SubSeq(file, i, j) = w /\ i \in 1 .. Size
  BY <1>1, <1>2, <1>3 DEF Here
<1>5. \A m \in 1 .. j - i + 1 : SubSeq(w, m, m) = SubSeq(file, i + m - 1, i + m - 1)
  <2>1. SubSeq(file, i, j) \in Words => \A m \in 1 .. j - i + 1 :
          SubSeq(SubSeq(file, i, j), m, m) = SubSeq(file, i + m - 1, i + m - 1)
    BY <1>4, StringsAssumption, Zenon DEF Size
  <2> QED
    BY <1>4, <2>1
<1>6. j - i + 1 = k
  BY <1>1, <1>2, <1>3
<1>7. \A m \in 1 .. k : Char(i + m - 1) = SubSeq(w, m, m)
  BY <1>2, <1>5, <1>6 DEF Char
<1>8. Char(i) = SubSeq(w, 1, 1)
  <2>1. 1 \in 1 .. k /\ i + 1 - 1 = i
    BY <1>1, <1>2
  <2> QED
    BY <1>7, <2>1
<1>9. ASSUME NEW n \in i .. (i + k) - 1 PROVE Char(n) # "\n"
  <2>1. PICK m \in 1 .. k : n = i + m - 1
    <3>1. n - i + 1 \in 1 .. k /\ n = i + (n - i + 1) - 1
      BY <1>2
    <3> QED
      BY <3>1
  <2> QED
    BY <1>1, <1>7, <2>1
<1> QED
  BY <1>1, <1>2, <1>4, <1>8, <1>9 DEF Clean, Places

\* As many characters are read as the keyword has: it is there, or it is not.
LEMMA KeywordRead ==
  ASSUME file \in Files, NEW i \in Places, i <= Size, NEW w \in Words
  PROVE  LET end == Min({i + Len(w), Size + 1})
         IN /\ end \in Places
            /\ SubSeq(file, i, end - 1) = w <=> Here(w, i)
            /\ Here(w, i) => end = i + Len(w)
<1>1. PICK k \in Nat : k = Len(w) /\ k > 0
  BY StringsAssumption
<1>2. i \in Nat /\ i > 0 /\ Size \in Nat
  BY FileFacts DEF Places
<1>3. PICK T \in SUBSET Nat : T = {i + Len(w), Size + 1}
  <2>1. {i + Len(w), Size + 1} \in SUBSET Nat
    BY <1>1, <1>2
  <2> QED
    BY <2>1, Zenon
<1>4. Min(T) \in T /\ \A j \in T : Min(T) <= j
  <2>1. T # {}
    BY <1>3
  <2> QED
    BY <2>1, MinIs
<1>5. PICK end \in Nat : end = Min(T)
  BY <1>4
<1>6. (end = i + k \/ end = Size + 1) /\ end <= i + k /\ end <= Size + 1
  BY <1>1, <1>3, <1>4, <1>5
<1>7. end > i /\ end \in Places /\ end - 1 \in 1 .. Size /\ i \in 1 .. Size
  BY <1>1, <1>2, <1>6 DEF Places
<1>8. Here(w, i) => end = i + k /\ SubSeq(file, i, end - 1) = w
  <2>1. Here(w, i) => i + k <= Size + 1 /\ SubSeq(file, i, i + k - 1) = w
    BY <1>1, Zenon DEF Here
  <2>2. i + k <= Size + 1 => end = i + k /\ i + k - 1 = end - 1
    BY <1>2, <1>6
  <2> QED
    BY <2>1, <2>2
<1>9. SubSeq(file, i, end - 1) = w => Here(w, i)
  <2>1. SUFFICES ASSUME SubSeq(file, i, end - 1) = w PROVE Here(w, i)
    OBVIOUS
  <2>2. SubSeq(file, i, end - 1) \in Words => Len(SubSeq(file, i, end - 1)) = (end - 1) - i + 1
    BY <1>7, StringsAssumption, Zenon DEF Size
  <2>3. k = (end - 1) - i + 1
    BY <1>1, <2>1, <2>2
  <2>4. i + k - 1 = end - 1 /\ i + k <= Size + 1
    BY <1>2, <1>6, <2>3
  <2> QED
    BY <1>1, <2>1, <2>4, Zenon DEF Here
<1>10. Min({i + Len(w), Size + 1}) = end
  BY <1>3, <1>5, Zenon
<1> QED
  BY <1>1, <1>7, <1>8, <1>9, <1>10, Zenon

\* The keywords of a part.
PartWords == {w \in Words : part = 2 => w # "BARRIER"}

\* A command of one begins with it,
LEMMA NextIs ==
  ASSUME file \in Files, NEW i \in Places, NEW w \in PartWords, Here(w, i)
  PROVE  i <= Size /\ GetNext(i) = Arguments(w, i + Len(w))
<1>1. w \in Words /\ i <= Size /\ Char(i) = SubSeq(w, 1, 1)
  BY KeywordText DEF PartWords
<1>2. Char(i) # "\n" /\ Char(i) # "#"
  BY <1>1, StringsAssumption
<1>3. w \in Keywords(Char(i)) /\ \A v \in Keywords(Char(i)) : v = w
  <2>1. w \in Keywords(Char(i))
    BY <1>1 DEF Keywords, PartWords
  <2>2. \A v \in Words : SubSeq(v, 1, 1) = SubSeq(w, 1, 1) => v = w
    BY <1>1, StringsAssumption, Zenon
  <2> QED
    BY <1>1, <2>1, <2>2 DEF Keywords
<1>4. w = CHOOSE v \in Keywords(Char(i)) : TRUE
  BY <1>3, Zenon
<1>5. PICK end : end = Min({i + Len(w), Size + 1})
  OBVIOUS
<1>6. SubSeq(file, i, end - 1) = w /\ end = i + Len(w)
  BY <1>1, <1>5, KeywordRead
<1>7. GetNext(i) = IF SubSeq(file, i, end - 1) = w THEN Arguments(w, end) ELSE Reject(end)
  BY <1>2, <1>3, <1>4, <1>5, Zenon DEF GetNext
<1> QED
  BY <1>1, <1>6, <1>7

\* and every command does that is neither wrong nor empty.
LEMMA NextWas ==
  ASSUME file \in Files, NEW i \in Places, i <= Size, GetNext(i).cmd \notin {Invalid, Empty}
  PROVE  \E w \in PartWords : Here(w, i) /\ GetNext(i) = Arguments(w, i + Len(w))
<1>0. Keywords("\n") = {} /\ Keywords("#") = {}
  BY StringsAssumption, Zenon DEF Keywords
<1>1. \A k : Reject(k).cmd = Invalid
  BY DEF Reject
<1>2. Char(i) # "\n"
  BY <1>0 DEF GetNext
<1>3. Char(i) # "#"
  BY <1>0 DEF GetNext
<1>4. Keywords(Char(i)) # {}
  <2>1. SUFFICES ASSUME Keywords(Char(i)) = {} PROVE FALSE
    OBVIOUS
  <2>2. GetNext(i) = Reject(i + 1)
    BY <1>2, <1>3, <2>1 DEF GetNext
  <2> QED
    BY <1>1, <2>2
<1>5. PICK w \in PartWords : w = CHOOSE v \in Keywords(Char(i)) : TRUE
  BY <1>4 DEF Keywords, PartWords
<1>6. PICK end : end = Min({i + Len(w), Size + 1})
  OBVIOUS
<1>7. GetNext(i) = IF SubSeq(file, i, end - 1) = w THEN Arguments(w, end) ELSE Reject(end)
  BY <1>2, <1>3, <1>4, <1>5, <1>6, Zenon DEF GetNext
<1>8. SubSeq(file, i, end - 1) = w
  BY <1>1, <1>7
<1>9. Here(w, i) /\ end = i + Len(w)
  <2>1. w \in Words
    BY DEF PartWords
  <2> QED
    BY <1>6, <1>8, <2>1, KeywordRead, Zenon
<1> QED
  BY <1>7, <1>8, <1>9

\* What reads as a command is on one line.
LEMMA OneLine ==
  ASSUME file \in Files, NEW i \in Places, NEW c, Len(c.args) \in Nat, Keyword(c.op) \in Words,
         NEW ends, ReadsAs(c, i, ends)
  PROVE  Clean(i, Starts(c, i)[Len(c.args) + 1]) /\ Char(Starts(c, i)[Len(c.args) + 1]) \in ends
<1> DEFINE s == Starts(c, i)
           T == {n \in Nat : n <= Len(c.args) => Clean(i, s[n + 1])}
<1>1. s[1] = i + Len(Keyword(c.op))
      /\ \A n \in 1 .. Len(c.args) : s[n + 1] = DigitsEnd(s[n]) + Len(Separator(c, n))
  BY StartsAre
<1>2. /\ s[1] <= Size + 1 /\ SubSeq(file, i, s[1] - 1) = Keyword(c.op)
      /\ \A n \in 1 .. Len(c.args) : \A m \in 1 .. Len(Separator(c, n)) :
           Char(DigitsEnd(s[n]) + m - 1) = Separator(c, n)[m]
      /\ Char(s[Len(c.args) + 1]) \in ends
  BY DEF ReadsAs
<1> HIDE DEF s
<1>3. 0 \in T
  <2>0. PICK w \in Words : w = Keyword(c.op)
    OBVIOUS
  <2>1. Here(w, i)
    <3>1. PICK k \in Nat : k = Len(w)
      BY StringsAssumption
    <3>2. s[1] = i + k /\ s[1] <= Size + 1 /\ SubSeq(file, i, s[1] - 1) = w
      BY <1>1, <1>2, <2>0, <3>1
    <3>3. PICK a : a = s[1] /\ a = i + k
      BY <3>2, Zenon
    <3>4. i \in Nat
      BY FileFacts
    <3>5. a - 1 = i + k - 1
      BY <3>3, <3>4
    <3> QED
      BY <3>1, <3>2, <3>3, <3>5, Zenon DEF Here
  <2>2. Clean(i, s[0 + 1])
    BY <1>1, <2>0, <2>1, KeywordText
  <2> QED
    BY <2>2
<1>4. ASSUME NEW n \in T PROVE n + 1 \in T
  <2>1. SUFFICES ASSUME n + 1 <= Len(c.args) PROVE Clean(i, s[(n + 1) + 1])
    OBVIOUS
  <2>2. PICK k \in 1 .. Len(c.args) : k = n + 1 /\ Clean(i, s[k])
    BY <2>1
  <2>3. Clean(i, DigitsEnd(s[k]))
    BY <2>2, CleanDigits
  <2>4. Plain(Separator(c, k))
    BY SeparatorCharacters
  <2>5. \A m \in 1 .. Len(Separator(c, k)) : Char(DigitsEnd(s[k]) + m - 1) = Separator(c, k)[m]
    BY <1>2
  <2>6. Clean(i, DigitsEnd(s[k]) + Len(Separator(c, k)))
    BY <2>3, <2>4, <2>5, CleanText
  <2>7. Clean(i, s[k + 1])
    BY <1>1, <2>6
  <2> QED
    BY <2>2, <2>7
<1> HIDE DEF T
<1>5. T = Nat
  <2>1. T \in SUBSET Nat
    BY DEF T
  <2> QED
    BY <1>3, <1>4, <2>1, Induction
<1>6. Clean(i, s[Len(c.args) + 1])
  <2>1. Len(c.args) \in T
    BY <1>5
  <2> QED
    BY <2>1 DEF T
<1> QED
  BY <1>2, <1>6 DEF s

----------------------------------------------------------------------------
(* Texts and arguments.                                                    *)

\* The file reads the characters q from e on.
Follows(q, e) == \A m \in 1 .. Len(q) : Char(e + m - 1) = q[m]

\* It may read no character at all,
LEMMA FollowsNothing ==
  ASSUME NEW e
  PROVE  Follows(<< >>, e) /\ Len(<< >>) = 0
BY DEF Follows

\* one,
LEMMA FollowsOne ==
  ASSUME NEW x, NEW e \in Int
  PROVE  Len(<<x>>) = 1 /\ (Follows(<<x>>, e) <=> Char(e) = x)
<1>1. PICK q : q = <<x>>
  OBVIOUS
<1>2. Len(q) = 1 /\ q[1] = x
  BY <1>1
<1>3. (\A m \in 1 .. 1 : m = 1) /\ 1 \in 1 .. 1 /\ e + 1 - 1 = e
  OBVIOUS
<1>4. Follows(q, e) <=> Char(e) = x
  BY <1>2, <1>3, Zenon DEF Follows
<1> QED
  BY <1>1, <1>2, <1>4, Zenon

\* two,
LEMMA FollowsTwo ==
  ASSUME NEW x, NEW y, NEW e \in Int
  PROVE  Len(<<x, y>>) = 2 /\ (Follows(<<x, y>>, e) <=> Char(e) = x /\ Char(e + 1) = y)
<1>1. PICK q : q = <<x, y>>
  OBVIOUS
<1>2. Len(q) = 2 /\ q[1] = x /\ q[2] = y
  BY <1>1
<1>3. (\A m \in 1 .. 2 : m = 1 \/ m = 2) /\ 1 \in 1 .. 2 /\ 2 \in 1 .. 2
      /\ e + 1 - 1 = e /\ e + 2 - 1 = e + 1
  OBVIOUS
<1>4. Follows(q, e) <=> (Char(e) = x /\ Char(e + 1) = y)
  BY <1>2, <1>3, Zenon DEF Follows
<1> QED
  BY <1>1, <1>2, <1>4, Zenon

\* or three.
LEMMA FollowsThree ==
  ASSUME NEW x, NEW y, NEW z, NEW e \in Int
  PROVE  /\ Len(<<x, y, z>>) = 3
         /\ Follows(<<x, y, z>>, e) <=> (Char(e) = x /\ Char(e + 1) = y /\ Char(e + 2) = z)
<1>1. PICK q : q = <<x, y, z>>
  OBVIOUS
<1>2. Len(q) = 3 /\ q[1] = x /\ q[2] = y /\ q[3] = z
  BY <1>1
<1>3. (\A m \in 1 .. 3 : m = 1 \/ m = 2 \/ m = 3) /\ 1 \in 1 .. 3 /\ 2 \in 1 .. 3 /\ 3 \in 1 .. 3
      /\ e + 1 - 1 = e /\ e + 2 - 1 = e + 1 /\ e + 3 - 1 = e + 2
  OBVIOUS
<1>4. Follows(q, e) <=> (Char(e) = x /\ Char(e + 1) = y /\ Char(e + 2) = z)
  BY <1>2, <1>3, Zenon DEF Follows
<1> QED
  BY <1>1, <1>2, <1>4, Zenon

\* Argument n of c is written from a on.
Argument(c, n, a) ==
  Decimal(a, DigitsEnd(a)) = c.args[n] /\ Follows(Separator(c, n), DigitsEnd(a))

\* The place where the line of c ends.
EndOf(c, i) == Starts(c, i)[Len(c.args) + 1]

\* c has the keyword w, from i to a.
Keyed(c, w, i, a) ==
  /\ w \in Words /\ Keyword(c.op) = w /\ Here(w, i) /\ i \in Places
  /\ a = i + Len(w) /\ Len(c.args) \in Nat

\* A text reads as a command by its keyword and its arguments.
LEMMA ReadsAsBy ==
  ASSUME file \in Files, NEW c, NEW w, NEW i, NEW a, Keyed(c, w, i, a), NEW ends
  PROVE  /\ Starts(c, i)[1] = a /\ a \in Places
         /\ \A n \in 1 .. Len(c.args) :
              Starts(c, i)[n + 1] = DigitsEnd(Starts(c, i)[n]) + Len(Separator(c, n))
         /\ ReadsAs(c, i, ends) <=> (/\ \A n \in 1 .. Len(c.args) : Argument(c, n, Starts(c, i)[n])
                                    /\ Char(EndOf(c, i)) \in ends)
<1>1. PICK k \in Nat : k = Len(w)
  BY StringsAssumption DEF Keyed
<1>2. i \in Nat /\ i > 0 /\ Size \in Nat
  BY FileFacts DEF Keyed, Places
<1>3. a = i + k /\ a <= Size + 1
  BY <1>1 DEF Keyed, Here
<1>4. SubSeq(file, i, i + k - 1) = w
  BY <1>1, Zenon DEF Keyed, Here
<1>5. i + k - 1 = a - 1 /\ a \in Places
  BY <1>2, <1>3 DEF Places
<1>6. SubSeq(file, i, a - 1) = Keyword(c.op)
  BY <1>4, <1>5, Zenon DEF Keyed
<1>7. /\ Starts(c, i)[1] = a
      /\ \A n \in 1 .. Len(c.args) :
           Starts(c, i)[n + 1] = DigitsEnd(Starts(c, i)[n]) + Len(Separator(c, n))
  BY StartsAre DEF Keyed
<1>8. ReadsAs(c, i, ends) <=>
        /\ Starts(c, i)[1] <= Size + 1 /\ SubSeq(file, i, Starts(c, i)[1] - 1) = Keyword(c.op)
        /\ \A n \in 1 .. Len(c.args) : Argument(c, n, Starts(c, i)[n])
        /\ Char(EndOf(c, i)) \in ends
  BY Zenon DEF ReadsAs, Argument, EndOf, Follows
<1> QED
  BY <1>3, <1>5, <1>6, <1>7, <1>8, Zenon

\* A number whose end is in the file.
LEMMA FieldIs ==
  ASSUME file \in Files, NEW a \in Places, NEW e, e = DigitsEnd(a), Char(e) # EOF,
         NEW n \in 0 .. UINT_MAX, n = Decimal(a, e)
  PROVE  Field(a, n, e) /\ e + 1 \in Places
<1>1. e \in Places
  BY DigitsEndIs
<1>2. e \in 1 .. Size /\ e + 1 \in Places
  BY <1>1, CharInFile
<1> QED
  BY <1>1, <1>2 DEF Field

----------------------------------------------------------------------------
(* The commands that are a list of numbers.                                *)

\* A space follows an argument that is not the last,
LEMMA SpaceFollows ==
  ASSUME file \in Files, NEW c, Len(c.args) \in Nat, c.op # "RESERVE",
         NEW n \in 1 .. Len(c.args), n < Len(c.args), NEW a \in Places
  PROVE  /\ Argument(c, n, a) <=>
              (Decimal(a, DigitsEnd(a)) = c.args[n] /\ Char(DigitsEnd(a)) = Space)
         /\ Argument(c, n, a) => DigitsEnd(a) + 1 \in Places
         /\ Len(Separator(c, n)) = 1
<1>1. PICK e \in Places : e = DigitsEnd(a)
  BY DigitsEndIs
<1>2. e \in Int
  BY FileFacts
<1>3. Separator(c, n) = <<Space>>
  BY PlainSeparators, Zenon
<1>4. Len(<<Space>>) = 1 /\ (Follows(<<Space>>, e) <=> Char(e) = Space)
  BY <1>2, FollowsOne
<1>5. Argument(c, n, a) <=> (Decimal(a, e) = c.args[n] /\ Char(e) = Space)
  BY <1>1, <1>3, <1>4, Zenon DEF Argument
<1>6. Char(e) = Space => e + 1 \in Places
  BY CharInFile, NamedCharacters
<1>7. Len(Separator(c, n)) = 1
  BY <1>3, <1>4, Zenon
<1> QED
  BY <1>1, <1>5, <1>6, <1>7, Zenon

\* and nothing the last.
LEMMA NothingFollows ==
  ASSUME file \in Files, NEW c, Len(c.args) \in Nat, c.op # "RESERVE",
         NEW n \in 1 .. Len(c.args), ~(n < Len(c.args)), NEW a \in Places
  PROVE  /\ Argument(c, n, a) <=> Decimal(a, DigitsEnd(a)) = c.args[n]
         /\ DigitsEnd(a) + Len(Separator(c, n)) = DigitsEnd(a)
<1>1. PICK e \in Places : e = DigitsEnd(a)
  BY DigitsEndIs
<1>2. e \in Int /\ e + 0 = e
  BY FileFacts
<1>3. Separator(c, n) = << >>
  BY PlainSeparators, Zenon
<1>4. Len(<< >>) = 0 /\ Follows(<< >>, e)
  BY FollowsNothing
<1>5. Argument(c, n, a) <=> Decimal(a, e) = c.args[n]
  BY <1>1, <1>3, <1>4, Zenon DEF Argument
<1>6. DigitsEnd(a) + Len(Separator(c, n)) = e
  BY <1>1, <1>2, <1>3, <1>4, Zenon
<1> QED
  BY <1>1, <1>5, <1>6, Zenon

\* Where the arguments of such a command are.
LEMMA StartsKeyed ==
  ASSUME file \in Files, NEW c, NEW w, NEW i, NEW a, Keyed(c, w, i, a)
  PROVE  /\ Starts(c, i)[1] = a /\ a \in Places /\ Len(c.args) \in Nat
         /\ \A n \in 1 .. Len(c.args) :
              Starts(c, i)[n + 1] = DigitsEnd(Starts(c, i)[n]) + Len(Separator(c, n))
<1>1. PICK ends : ends = {}
  OBVIOUS
<1> QED
  BY <1>1, ReadsAsBy DEF Keyed

Lined(c, i) == \E w, a : Keyed(c, w, i, a)

\* From an argument of c that is not the last, of a line from i, to the next,
Inner(c, i) ==
  \A n \in 1 .. Len(c.args) : n # Len(c.args) /\ Starts(c, i)[n] \in Places =>
    /\ Argument(c, n, Starts(c, i)[n]) <=>
         (/\ Decimal(Starts(c, i)[n], DigitsEnd(Starts(c, i)[n])) = c.args[n]
          /\ Char(DigitsEnd(Starts(c, i)[n])) = Space)
    /\ Argument(c, n, Starts(c, i)[n]) => Starts(c, i)[n + 1] \in Places
    /\ Starts(c, i)[n + 1] = DigitsEnd(Starts(c, i)[n]) + 1

\* and from the last to the end of the line.
Final(c, i) ==
  \A k : k = Len(c.args) /\ k # 0 /\ Starts(c, i)[k] \in Places =>
    /\ Argument(c, k, Starts(c, i)[k]) <=>
         Decimal(Starts(c, i)[k], DigitsEnd(Starts(c, i)[k])) = c.args[k]
    /\ EndOf(c, i) = DigitsEnd(Starts(c, i)[k])

\* So it is with every command but RESERVE.
LEMMA InnerArguments ==
  ASSUME file \in Files, NEW c, NEW i, Lined(c, i), c.op # "RESERVE"
  PROVE  Inner(c, i)
<1>0. PICK w, a : Keyed(c, w, i, a)
  BY DEF Lined
<1>1. Len(c.args) \in Nat
  BY <1>0 DEF Keyed
<1>2. ASSUME NEW n \in 1 .. Len(c.args), n # Len(c.args), NEW b \in Places, b = Starts(c, i)[n]
      PROVE  /\ Argument(c, n, b) <=>
                  (Decimal(b, DigitsEnd(b)) = c.args[n] /\ Char(DigitsEnd(b)) = Space)
             /\ Argument(c, n, b) => Starts(c, i)[n + 1] \in Places
             /\ Starts(c, i)[n + 1] = DigitsEnd(b) + 1
  <2>1. n < Len(c.args)
    BY <1>1, <1>2
  <2>2. /\ Argument(c, n, b) <=> (Decimal(b, DigitsEnd(b)) = c.args[n] /\ Char(DigitsEnd(b)) = Space)
        /\ Argument(c, n, b) => DigitsEnd(b) + 1 \in Places
        /\ Len(Separator(c, n)) = 1
    BY <1>1, <2>1, SpaceFollows, Zenon
  <2>3. Starts(c, i)[n + 1] = DigitsEnd(Starts(c, i)[n]) + Len(Separator(c, n))
    BY <1>0, StartsKeyed, Zenon
  <2> QED
    BY <1>2, <2>2, <2>3, Zenon
<1> QED
  BY <1>2, Zenon DEF Inner

\* So it is with the last.
LEMMA LastArgument ==
  ASSUME file \in Files, NEW c, NEW i, Lined(c, i), c.op # "RESERVE"
  PROVE  Final(c, i)
<1>0. PICK w, a : Keyed(c, w, i, a)
  BY DEF Lined
<1>1. Len(c.args) \in Nat
  BY <1>0 DEF Keyed
<1>2. ASSUME NEW k \in 1 .. Len(c.args), ~(k < Len(c.args)), NEW b \in Places, b = Starts(c, i)[k]
      PROVE  /\ Argument(c, k, b) <=> Decimal(b, DigitsEnd(b)) = c.args[k]
             /\ EndOf(c, i) = DigitsEnd(b)
  <2>1. /\ Argument(c, k, b) <=> Decimal(b, DigitsEnd(b)) = c.args[k]
        /\ DigitsEnd(b) + Len(Separator(c, k)) = DigitsEnd(b)
    BY <1>1, <1>2, NothingFollows, Zenon
  <2>2. Starts(c, i)[k + 1] = DigitsEnd(Starts(c, i)[k]) + Len(Separator(c, k))
    BY <1>0, StartsKeyed, Zenon
  <2>3. k = Len(c.args)
    BY <1>1, <1>2
  <2>4. EndOf(c, i) = Starts(c, i)[k + 1]
    BY <2>3, Zenon DEF EndOf
  <2> QED
    BY <1>2, <2>1, <2>2, <2>4, Zenon
<1>3. ASSUME NEW k, k = Len(c.args), k # 0 PROVE k \in 1 .. Len(c.args) /\ ~(k < Len(c.args))
  BY <1>1, <1>3
<1> QED
  BY <1>2, <1>3, Zenon DEF Final

\* No argument:
LEMMA ReadsAsNone ==
  ASSUME file \in Files, NEW c, NEW w, NEW i, NEW a, Keyed(c, w, i, a), Len(c.args) = 0, NEW ends
  PROVE  EndOf(c, i) = a /\ (ReadsAs(c, i, ends) <=> Char(a) \in ends)
<1>1. Starts(c, i)[1] = a /\ 0 + 1 = 1
  BY StartsKeyed
<1>2. EndOf(c, i) = a
  BY <1>1 DEF EndOf
<1>3. ReadsAs(c, i, ends) <=> (/\ \A n \in 1 .. Len(c.args) : Argument(c, n, Starts(c, i)[n])
                              /\ Char(EndOf(c, i)) \in ends)
  BY ReadsAsBy, Zenon
<1>4. \A n \in 1 .. Len(c.args) : FALSE
  OBVIOUS
<1> QED
  BY <1>2, <1>3, <1>4, Zenon

\* one,
LEMMA ReadsAsOne ==
  ASSUME file \in Files, NEW c, NEW w, NEW i, NEW a, Keyed(c, w, i, a), Len(c.args) = 1,
         c.op # "RESERVE", NEW ends
  PROVE  /\ EndOf(c, i) = DigitsEnd(a)
         /\ ReadsAs(c, i, ends) <=>
              (Decimal(a, DigitsEnd(a)) = c.args[1] /\ Char(DigitsEnd(a)) \in ends)
<1>1. PICK s : s = Starts(c, i)
  OBVIOUS
<1>2. s[1] = a /\ a \in Places
  BY <1>1, StartsKeyed, Zenon
<1>3. /\ Argument(c, 1, s[1]) <=> Decimal(s[1], DigitsEnd(s[1])) = c.args[1]
      /\ EndOf(c, i) = DigitsEnd(s[1])
  <2>1. Lined(c, i)
    BY Zenon DEF Lined
  <2>2. Final(c, i)
    BY <2>1, LastArgument, Zenon
  <2> QED
    BY <1>1, <1>2, <2>2 DEF Final
<1>4. ReadsAs(c, i, ends) <=> (/\ \A n \in 1 .. 1 : Argument(c, n, s[n])
                              /\ Char(EndOf(c, i)) \in ends)
  BY <1>1, ReadsAsBy, Zenon
<1>5. 1 \in 1 .. 1 /\ \A n \in 1 .. 1 : n = 1
  OBVIOUS
<1> QED
  BY <1>2, <1>3, <1>4, <1>5, Zenon

\* two,
LEMMA ReadsAsTwo ==
  ASSUME file \in Files, NEW c, NEW w, NEW i, NEW a, Keyed(c, w, i, a), Len(c.args) = 2,
         c.op # "RESERVE", NEW ends, NEW b, b = DigitsEnd(a) + 1
  PROVE  /\ ReadsAs(c, i, ends) <=>
              (/\ Decimal(a, DigitsEnd(a)) = c.args[1] /\ Char(DigitsEnd(a)) = Space
               /\ Decimal(b, DigitsEnd(b)) = c.args[2] /\ Char(DigitsEnd(b)) \in ends)
         /\ ReadsAs(c, i, ends) => b \in Places /\ EndOf(c, i) = DigitsEnd(b)
<1>1. PICK s : s = Starts(c, i)
  OBVIOUS
<1>2. s[1] = a /\ a \in Places
  BY <1>1, StartsKeyed, Zenon
<1>3. /\ Argument(c, 1, s[1]) <=>
           (Decimal(s[1], DigitsEnd(s[1])) = c.args[1] /\ Char(DigitsEnd(s[1])) = Space)
      /\ Argument(c, 1, s[1]) => s[2] \in Places
      /\ s[2] = DigitsEnd(s[1]) + 1
  <2>0. Lined(c, i)
    BY Zenon DEF Lined
  <2>1. Inner(c, i)
    BY <2>0, InnerArguments, Zenon
  <2>2. 1 \in 1 .. 2 /\ 1 # 2 /\ 1 + 1 = 2
    OBVIOUS
  <2> QED
    BY <1>1, <1>2, <2>1, <2>2 DEF Inner
<1>4. s[2] \in Places =>
        /\ Argument(c, 2, s[2]) <=> Decimal(s[2], DigitsEnd(s[2])) = c.args[2]
        /\ EndOf(c, i) = DigitsEnd(s[2])
  <2>1. Lined(c, i)
    BY Zenon DEF Lined
  <2>2. Final(c, i)
    BY <2>1, LastArgument, Zenon
  <2> QED
    BY <1>1, <2>2 DEF Final
<1>5. s[2] = b
  BY <1>2, <1>3, Zenon
<1>6. ReadsAs(c, i, ends) <=> (/\ \A n \in 1 .. 2 : Argument(c, n, s[n])
                              /\ Char(EndOf(c, i)) \in ends)
  BY <1>1, ReadsAsBy, Zenon
<1>7. 1 \in 1 .. 2 /\ 2 \in 1 .. 2 /\ \A n \in 1 .. 2 : n = 1 \/ n = 2
  OBVIOUS
<1>8. ReadsAs(c, i, ends) <=> (/\ Argument(c, 1, s[1]) /\ Argument(c, 2, s[2])
                              /\ Char(EndOf(c, i)) \in ends)
  BY <1>6, <1>7, Zenon
<1> QED
  BY <1>2, <1>3, <1>4, <1>5, <1>8, Zenon

\* and three.
LEMMA ReadsAsThree ==
  ASSUME file \in Files, NEW c, NEW w, NEW i, NEW a, Keyed(c, w, i, a), Len(c.args) = 3,
         c.op # "RESERVE", NEW ends, NEW b, b = DigitsEnd(a) + 1, NEW d, d = DigitsEnd(b) + 1
  PROVE  /\ ReadsAs(c, i, ends) <=>
              (/\ Decimal(a, DigitsEnd(a)) = c.args[1] /\ Char(DigitsEnd(a)) = Space
               /\ Decimal(b, DigitsEnd(b)) = c.args[2] /\ Char(DigitsEnd(b)) = Space
               /\ Decimal(d, DigitsEnd(d)) = c.args[3] /\ Char(DigitsEnd(d)) \in ends)
         /\ ReadsAs(c, i, ends) => b \in Places /\ d \in Places /\ EndOf(c, i) = DigitsEnd(d)
<1>1. PICK s : s = Starts(c, i)
  OBVIOUS
<1>2. s[1] = a /\ a \in Places
  BY <1>1, StartsKeyed, Zenon
<1>3. Inner(c, i)
  <2>1. Lined(c, i)
    BY Zenon DEF Lined
  <2> QED
    BY <2>1, InnerArguments, Zenon
<1>4. /\ Argument(c, 1, s[1]) <=>
           (Decimal(s[1], DigitsEnd(s[1])) = c.args[1] /\ Char(DigitsEnd(s[1])) = Space)
      /\ Argument(c, 1, s[1]) => s[2] \in Places
      /\ s[2] = DigitsEnd(s[1]) + 1
  <2>1. 1 \in 1 .. 3 /\ 1 # 3 /\ 1 + 1 = 2
    OBVIOUS
  <2> QED
    BY <1>1, <1>2, <1>3, <2>1 DEF Inner
<1>5. s[2] \in Places =>
        /\ Argument(c, 2, s[2]) <=>
             (Decimal(s[2], DigitsEnd(s[2])) = c.args[2] /\ Char(DigitsEnd(s[2])) = Space)
        /\ Argument(c, 2, s[2]) => s[3] \in Places
        /\ s[3] = DigitsEnd(s[2]) + 1
  <2>1. 2 \in 1 .. 3 /\ 2 # 3 /\ 2 + 1 = 3
    OBVIOUS
  <2> QED
    BY <1>1, <1>3, <2>1 DEF Inner
<1>6. s[3] \in Places =>
        /\ Argument(c, 3, s[3]) <=> Decimal(s[3], DigitsEnd(s[3])) = c.args[3]
        /\ EndOf(c, i) = DigitsEnd(s[3])
  <2>1. Lined(c, i)
    BY Zenon DEF Lined
  <2>2. Final(c, i)
    BY <2>1, LastArgument, Zenon
  <2> QED
    BY <1>1, <2>2 DEF Final
<1>7. s[2] = b /\ (s[2] \in Places => s[3] = d)
  BY <1>2, <1>4, <1>5, Zenon
<1>8. ReadsAs(c, i, ends) <=> (/\ \A n \in 1 .. 3 : Argument(c, n, s[n])
                              /\ Char(EndOf(c, i)) \in ends)
  BY <1>1, ReadsAsBy, Zenon
<1>9. /\ 1 \in 1 .. 3 /\ 2 \in 1 .. 3 /\ 3 \in 1 .. 3
      /\ \A n \in 1 .. 3 : n = 1 \/ n = 2 \/ n = 3
  OBVIOUS
<1>10. ReadsAs(c, i, ends) <=> (/\ Argument(c, 1, s[1]) /\ Argument(c, 2, s[2])
                               /\ Argument(c, 3, s[3]) /\ Char(EndOf(c, i)) \in ends)
  BY <1>8, <1>9, Zenon
<1> QED
  BY <1>2, <1>4, <1>5, <1>6, <1>7, <1>10, Zenon

----------------------------------------------------------------------------
(* A command that is read, and the line it is read from.                   *)

\* No value of c is undefined.
Sound(c) == Undefined \notin {c.args[n] : n \in DOMAIN c.args}

\* What may follow the last argument.
EndsOf(op) == IF part = 2 /\ op = "WAIT" THEN LineEnd \cup {Space} ELSE LineEnd

\* The line from i says the command of r, and r has taken it whole.
Whole(r, i) == r.pos = Cleanup(i) /\ Known(r.cmd) /\ ReadsAs(r.cmd, i, EndsOf(r.cmd.op))

\* What a parse that has gone well leads to.
LEMMA ResultWas ==
  ASSUME NEW op, NEW p, Result(op, p).cmd # Invalid
  PROVE  /\ p.ok /\ Result(op, p).pos = p.pos
         /\ Result(op, p).cmd.op = op /\ Result(op, p).cmd.args = p.args
BY DEF Result, Accept, Reject

\* and where one does that has read the numbers of c.
LEMMA ResultIs ==
  ASSUME NEW c \in [op : Ops, args : Seq(Int)], NEW p, NEW i, State(p, c.args, i)
  PROVE  Result(c.op, p).cmd = c /\ Result(c.op, p).pos = i
<1>1. Result(c.op, p) = Accept(c.op, p)
  BY Zenon DEF Result, State
<1>2. [op |-> c.op, args |-> c.args] = c
  OBVIOUS
<1>3. Accept(c.op, p).cmd = [op |-> c.op, args |-> p.args] /\ Accept(c.op, p).pos = p.pos
  BY DEF Accept
<1> QED
  BY <1>1, <1>2, <1>3, Zenon DEF State

\* The numbers of a command that has one,
LEMMA OneNumber ==
  ASSUME NEW x
  PROVE  Len(Append(<< >>, x)) = 1 /\ Append(<< >>, x)[1] = x
OBVIOUS

\* two,
LEMMA TwoNumbers ==
  ASSUME NEW x, NEW y, NEW s, s = Append(Append(<< >>, x), y)
  PROVE  Len(s) = 2 /\ s[1] = x /\ s[2] = y
OBVIOUS

\* or three.
LEMMA ThreeNumbers ==
  ASSUME NEW x, NEW y, NEW z, NEW s, s = Append(Append(Append(<< >>, x), y), z)
  PROVE  Len(s) = 3 /\ s[1] = x /\ s[2] = y /\ s[3] = z
OBVIOUS

\* And two more after an odd number of them.
Longer(q, s, n, x, y) ==
  /\ Len(q) = 2 * n + 3 /\ q[2 * n + 2] = x /\ q[2 * n + 3] = y
  /\ \A j \in 1 .. 2 * n + 1 : q[j] = s[j]

\* That is what two calls of Append make of it.
LEMMA TwoMore ==
  ASSUME NEW s \in Seq(Int), NEW n \in Nat, Len(s) = 2 * n + 1, NEW x, NEW y
  PROVE  Longer(Append(Append(s, x), y), s, n, x, y)
<1>1. PICK t : t = Append(s, x)
  OBVIOUS
<1>2. PICK k \in Nat : k = 2 * n + 1 /\ k = Len(s) /\ k + 1 = 2 * n + 2 /\ k + 2 = 2 * n + 3
  OBVIOUS
<1>3. Len(t) = k + 1 /\ t[k + 1] = x /\ \A j \in 1 .. k : t[j] = s[j]
  BY <1>1, <1>2
<1>4. PICK q : q = Append(t, y)
  OBVIOUS
<1>5. Len(q) = k + 2 /\ q[k + 2] = y /\ \A j \in 1 .. k + 1 : q[j] = t[j]
  BY <1>1, <1>2, <1>3, <1>4
<1>6. q[k + 1] = x /\ \A j \in 1 .. k : q[j] = s[j]
  BY <1>2, <1>3, <1>5
<1>7. q = Append(Append(s, x), y)
  BY <1>1, <1>4, Zenon
<1>8. Longer(q, s, n, x, y)
  BY <1>2, <1>5, <1>6, Zenon DEF Longer
<1> QED
  BY <1>7, <1>8, Zenon

\* The last number of a sound command is in the file.
LEMMA LastNumberWas ==
  ASSUME file \in Files, NEW p \in Parses, NEW chars, Number(p, chars).ok,
         NEW c, c.args = Number(p, chars).args, Sound(c)
  PROVE  /\ p.ok
         /\ \E n, e : /\ Field(p.pos, n, e) /\ Char(e) \in chars
                      /\ State(Number(p, chars), Append(p.args, n), e + 1)
<1>1. p.ok
  BY NumberParses
<1>2. p.args \in Seq(Int) /\ c.args = Append(p.args, NumberAt(p.pos))
  BY <1>1, NumberReads DEF Parses
<1>3. Len(p.args) + 1 \in DOMAIN c.args /\ c.args[Len(p.args) + 1] = NumberAt(p.pos)
  BY <1>2
<1>4. NumberAt(p.pos) # Undefined
  BY <1>3 DEF Sound
<1> QED
  BY <1>4, NumberWas

\* A command that ends its line takes it whole.
LEMMA WholeLine ==
  ASSUME file \in Files, NEW c, NEW w, NEW i, NEW a, Keyed(c, w, i, a), ReadsAs(c, i, LineEnd)
  PROVE  EndOf(c, i) \in Places /\ Cleanup(i) = Past(EndOf(c, i))
<1>1. i \in Places /\ Len(c.args) \in Nat /\ Keyword(c.op) \in Words
  BY DEF Keyed
<1>2. Clean(i, EndOf(c, i)) /\ Char(EndOf(c, i)) \in LineEnd
  BY <1>1, OneLine, Zenon DEF EndOf
<1>3. EndOf(c, i) \in Places
  BY <1>2 DEF Clean
<1> QED
  BY <1>1, <1>2, <1>3, CleanupSkips, CleanupAtEnd, Zenon

\* CREATE is read from its line,
LEMMA CreateWas ==
  ASSUME file \in Files, NEW i \in Places, Here(CreateWord, i), NEW a \in Places,
         a = i + Len(CreateWord), ParseCreate(a).cmd # Invalid, Sound(ParseCreate(a).cmd)
  PROVE  Whole(ParseCreate(a), i)
<1>1. PICK p : p = Number(Number(From(a), {Space}), {Space})
  OBVIOUS
<1>2. PICK r : r = ParseCreate(a)
  OBVIOUS
<1>3. r = Result("CREATE", Number(p, LineEnd)) /\ r.cmd # Invalid /\ Sound(r.cmd)
  BY <1>1, <1>2, Zenon DEF ParseCreate, Space
<1>4. PICK c : c = r.cmd
  OBVIOUS
<1>5. /\ Number(p, LineEnd).ok /\ r.pos = Number(p, LineEnd).pos
      /\ c.op = "CREATE" /\ c.args = Number(p, LineEnd).args
  BY <1>3, <1>4, ResultWas
<1>6. From(a) \in Parses /\ Number(From(a), {Space}) \in Parses /\ p \in Parses
  BY <1>1, FromParses, NumberParses
<1>7. PICK z, e3 : /\ p.ok /\ Field(p.pos, z, e3) /\ Char(e3) \in LineEnd
                   /\ State(Number(p, LineEnd), Append(p.args, z), e3 + 1)
  BY <1>3, <1>4, <1>5, <1>6, LastNumberWas, Zenon
<1>8. PICK y, e2 : /\ Number(From(a), {Space}).ok /\ Field(Number(From(a), {Space}).pos, y, e2)
                   /\ Char(e2) = Space /\ State(p, Append(Number(From(a), {Space}).args, y), e2 + 1)
  BY <1>1, <1>6, <1>7, NumberWas, NamedCharacters
<1>9. PICK x, e1 : /\ Field(From(a).pos, x, e1) /\ Char(e1) = Space
                   /\ State(Number(From(a), {Space}), Append(From(a).args, x), e1 + 1)
  BY <1>6, <1>8, NumberWas, NamedCharacters
<1>10. From(a).pos = a /\ From(a).args = << >>
  BY DEF From
<1>11. /\ Field(a, x, e1) /\ Field(e1 + 1, y, e2) /\ Field(e2 + 1, z, e3)
       /\ c.args = Append(Append(Append(<< >>, x), y), z) /\ r.pos = e3 + 1
  BY <1>5, <1>7, <1>8, <1>9, <1>10, Zenon DEF State
<1>12. Len(c.args) = 3 /\ c.args[1] = x /\ c.args[2] = y /\ c.args[3] = z
  BY <1>11, ThreeNumbers
<1>13. Keyed(c, CreateWord, i, a)
  BY <1>5, <1>12, NamedWords DEF Keyed
<1>14. ReadsAs(c, i, LineEnd) /\ EndOf(c, i) = e3
  <2>1. e1 + 1 = DigitsEnd(a) + 1 /\ e2 + 1 = DigitsEnd(e1 + 1) + 1
    BY <1>11 DEF Field
  <2>2. /\ Decimal(a, DigitsEnd(a)) = x /\ DigitsEnd(a) = e1
        /\ Decimal(e1 + 1, DigitsEnd(e1 + 1)) = y /\ DigitsEnd(e1 + 1) = e2
        /\ Decimal(e2 + 1, DigitsEnd(e2 + 1)) = z /\ DigitsEnd(e2 + 1) = e3
    BY <1>11, Zenon DEF Field
  <2>3. c.op # "RESERVE"
    BY <1>5
  <2> QED
    BY <1>7, <1>8, <1>9, <1>12, <1>13, <2>1, <2>2, <2>3, ReadsAsThree
<1>15. r.pos = Cleanup(i)
  <2>1. e3 \in 1 .. Size
    BY <1>11 DEF Field
  <2>2. Past(e3) = e3 + 1
    BY <2>1, FileFacts DEF Past
  <2> QED
    BY <1>11, <1>13, <1>14, <2>2, WholeLine, Zenon
<1>16. Known(c) /\ EndsOf(c.op) = LineEnd
  BY <1>5, <1>12 DEF Known, Counts, Ops, EndsOf
<1> QED
  BY <1>2, <1>4, <1>14, <1>15, <1>16, Zenon DEF Whole

\* and its line is read as CREATE.
LEMMA CreateIs ==
  ASSUME file \in Files, NEW c \in [op : Ops, args : Seq(0 .. UINT_MAX)], c.op = "CREATE",
         Known(c), NEW i, NEW a, Keyed(c, CreateWord, i, a), ReadsAs(c, i, {"\n"})
  PROVE  ParseCreate(a).cmd = c
<1>1. Len(c.args) = 3
  BY DEF Known, Counts
<1>2. PICK e1 : e1 = DigitsEnd(a)
  OBVIOUS
<1>3. PICK b : b = e1 + 1
  OBVIOUS
<1>4. PICK e2 : e2 = DigitsEnd(b)
  OBVIOUS
<1>5. PICK d : d = e2 + 1
  OBVIOUS
<1>6. PICK e3 : e3 = DigitsEnd(d)
  OBVIOUS
<1>7. /\ Decimal(a, e1) = c.args[1] /\ Char(e1) = Space /\ Decimal(b, e2) = c.args[2] /\ Char(e2) = Space
      /\ Decimal(d, e3) = c.args[3] /\ Char(e3) \in {"\n"} /\ b \in Places /\ d \in Places
  <2>1. c.op # "RESERVE"
    OBVIOUS
  <2> QED
    BY <1>1, <1>2, <1>3, <1>4, <1>5, <1>6, <2>1, ReadsAsThree
<1>8. /\ c.args \in Seq(Int) /\ c.args[1] \in 0 .. UINT_MAX
      /\ c.args[2] \in 0 .. UINT_MAX /\ c.args[3] \in 0 .. UINT_MAX
  BY <1>1, MaxAssumption
<1>9. a \in Places
  BY StartsKeyed
<1>10. /\ Char(e1) # EOF /\ Char(e2) # EOF /\ Char(e3) # EOF
       /\ Char(e1) \in {Space} /\ Char(e2) \in {Space} /\ Char(e3) \in LineEnd
  BY <1>7, NamedCharacters DEF EOF, LineEnd
<1>11. Field(a, c.args[1], e1) /\ Field(b, c.args[2], e2) /\ Field(d, c.args[3], e3)
  BY <1>2, <1>4, <1>6, <1>7, <1>8, <1>9, <1>10, FieldIs, Zenon
<1>12. State(From(a), << >>, a)
  BY <1>9, FromRead
<1>13. State(Number(From(a), {Space}), Append(<< >>, c.args[1]), b)
  BY <1>3, <1>10, <1>11, <1>12, FieldRead, Zenon
<1>14. State(Number(Number(From(a), {Space}), {Space}), Append(Append(<< >>, c.args[1]), c.args[2]), d)
  BY <1>5, <1>10, <1>11, <1>13, FieldRead, Zenon
<1>15. State(Number(Number(Number(From(a), {Space}), {Space}), LineEnd),
             Append(Append(Append(<< >>, c.args[1]), c.args[2]), c.args[3]), e3 + 1)
  BY <1>10, <1>11, <1>14, FieldRead, Zenon
<1>16. Append(Append(Append(<< >>, c.args[1]), c.args[2]), c.args[3]) = c.args
  BY <1>1, <1>8
<1>17. c \in [op : Ops, args : Seq(Int)]
  BY <1>8
<1>18. PICK p : p = Number(Number(Number(From(a), {Space}), {Space}), LineEnd) /\ State(p, c.args, e3 + 1)
  BY <1>15, <1>16, Zenon
<1>19. Result(c.op, p).cmd = c
  BY <1>17, <1>18, ResultIs, Zenon
<1> QED
  BY <1>18, <1>19, Zenon DEF ParseCreate, Space

\* SHOW is read from its line,
LEMMA ShowWas ==
  ASSUME file \in Files, NEW i \in Places, Here(ShowWord, i), NEW a \in Places,
         a = i + Len(ShowWord), ParseShow(a).cmd # Invalid, Sound(ParseShow(a).cmd)
  PROVE  Whole(ParseShow(a), i)
<1>1. PICK r : r = ParseShow(a)
  OBVIOUS
<1>2. r = Result("SHOW", Number(From(a), LineEnd)) /\ r.cmd # Invalid /\ Sound(r.cmd)
  BY <1>1, Zenon DEF ParseShow
<1>3. PICK c : c = r.cmd
  OBVIOUS
<1>4. /\ Number(From(a), LineEnd).ok /\ r.pos = Number(From(a), LineEnd).pos
      /\ c.op = "SHOW" /\ c.args = Number(From(a), LineEnd).args
  BY <1>2, <1>3, ResultWas
<1>5. From(a) \in Parses /\ From(a).pos = a /\ From(a).args = << >>
  BY FromParses DEF From
<1>6. PICK x, e : /\ Field(From(a).pos, x, e) /\ Char(e) \in LineEnd
                  /\ State(Number(From(a), LineEnd), Append(From(a).args, x), e + 1)
  BY <1>2, <1>3, <1>4, <1>5, LastNumberWas, Zenon
<1>7. Field(a, x, e) /\ c.args = Append(<< >>, x) /\ r.pos = e + 1
  BY <1>4, <1>5, <1>6, Zenon DEF State
<1>8. Len(c.args) = 1 /\ c.args[1] = x
  BY <1>7, OneNumber
<1>9. Keyed(c, ShowWord, i, a)
  BY <1>4, <1>8, NamedWords DEF Keyed
<1>10. ReadsAs(c, i, LineEnd) /\ EndOf(c, i) = e
  <2>1. Decimal(a, DigitsEnd(a)) = x /\ DigitsEnd(a) = e
    BY <1>7, Zenon DEF Field
  <2>2. c.op # "RESERVE"
    BY <1>4
  <2> QED
    BY <1>6, <1>8, <1>9, <2>1, <2>2, ReadsAsOne
<1>11. r.pos = Cleanup(i)
  <2>1. e \in 1 .. Size
    BY <1>7 DEF Field
  <2>2. Past(e) = e + 1
    BY <2>1, FileFacts DEF Past
  <2> QED
    BY <1>7, <1>9, <1>10, <2>2, WholeLine, Zenon
<1>12. Known(c) /\ EndsOf(c.op) = LineEnd
  BY <1>4, <1>8 DEF Known, Counts, Ops, EndsOf
<1> QED
  BY <1>1, <1>3, <1>10, <1>11, <1>12, Zenon DEF Whole

\* and its line is read as SHOW.
LEMMA ShowIs ==
  ASSUME file \in Files, NEW c \in [op : Ops, args : Seq(0 .. UINT_MAX)], c.op = "SHOW",
         Known(c), NEW i, NEW a, Keyed(c, ShowWord, i, a), ReadsAs(c, i, {"\n"})
  PROVE  ParseShow(a).cmd = c
<1>1. Len(c.args) = 1
  BY DEF Known, Counts
<1>2. PICK e : e = DigitsEnd(a)
  OBVIOUS
<1>3. Decimal(a, e) = c.args[1] /\ Char(e) \in {"\n"}
  <2>1. c.op # "RESERVE"
    OBVIOUS
  <2> QED
    BY <1>1, <1>2, <2>1, ReadsAsOne
<1>4. c.args \in Seq(Int) /\ c.args[1] \in 0 .. UINT_MAX
  BY <1>1, MaxAssumption
<1>5. a \in Places
  BY StartsKeyed
<1>6. Char(e) # EOF /\ Char(e) \in LineEnd
  BY <1>3 DEF EOF, LineEnd
<1>7. Field(a, c.args[1], e)
  BY <1>2, <1>3, <1>4, <1>5, <1>6, FieldIs, Zenon
<1>8. State(Number(From(a), LineEnd), Append(<< >>, c.args[1]), e + 1)
  BY <1>5, <1>6, <1>7, FromRead, FieldRead, Zenon
<1>9. Append(<< >>, c.args[1]) = c.args
  BY <1>1, <1>4
<1>10. c \in [op : Ops, args : Seq(Int)]
  BY <1>4
<1>11. PICK p : p = Number(From(a), LineEnd) /\ State(p, c.args, e + 1)
  BY <1>8, <1>9, Zenon
<1>12. Result(c.op, p).cmd = c
  BY <1>10, <1>11, ResultIs, Zenon
<1> QED
  BY <1>11, <1>12, Zenon DEF ParseShow

\* The commands that are one word are read from their lines,
LEMMA WordWas ==
  ASSUME file \in Files, part \in {1, 2}, NEW i \in Places, NEW w \in PartWords,
         w \in {"LIST", "HELP", "BARRIER"}, Here(w, i), NEW a \in Places, a = i + Len(w), NEW r,
         r = Result(w, Literal(From(a), LineEnd)), r.cmd # Invalid
  PROVE  Whole(r, i)
<1>1. PICK c : c = r.cmd
  OBVIOUS
<1>2. /\ Literal(From(a), LineEnd).ok /\ r.pos = Literal(From(a), LineEnd).pos
      /\ c.op = w /\ c.args = Literal(From(a), LineEnd).args
  BY <1>1, ResultWas
<1>3. From(a) \in Parses /\ From(a).pos = a /\ From(a).args = << >>
  BY FromParses DEF From
<1>4. Char(a) \in LineEnd /\ State(Literal(From(a), LineEnd), << >>, Past(a))
  BY <1>2, <1>3, LiteralWas
<1>5. c.args = << >> /\ r.pos = Past(a)
  BY <1>2, <1>4, Zenon DEF State
<1>6. Len(c.args) = 0
  BY <1>5
<1>7. Keyed(c, w, i, a)
  BY <1>2, <1>6, NamedWords DEF Keyed
<1>8. ReadsAs(c, i, LineEnd) /\ EndOf(c, i) = a
  BY <1>4, <1>6, <1>7, ReadsAsNone, Zenon
<1>9. r.pos = Cleanup(i)
  BY <1>5, <1>7, <1>8, WholeLine, Zenon
<1>10. Known(c) /\ EndsOf(c.op) = LineEnd
  BY <1>2, <1>6 DEF Known, Counts, Ops, EndsOf, PartWords
<1> QED
  BY <1>1, <1>8, <1>9, <1>10, Zenon DEF Whole

\* and their lines are read so.
LEMMA WordIs ==
  ASSUME file \in Files, NEW c \in [op : Ops, args : Seq(0 .. UINT_MAX)],
         c.op \in {"LIST", "HELP", "BARRIER"},
         Known(c), NEW i, NEW a, Keyed(c, c.op, i, a), ReadsAs(c, i, LineEnd)
  PROVE  Result(c.op, Literal(From(a), LineEnd)).cmd = c
<1>1. Len(c.args) = 0 /\ c.args = << >>
  BY DEF Known, Counts
<1>2. Char(a) \in LineEnd
  BY <1>1, ReadsAsNone, Zenon
<1>3. a \in Places
  BY StartsKeyed
<1>4. State(Literal(From(a), LineEnd), c.args, Past(a))
  BY <1>1, <1>2, <1>3, FromRead, LiteralRead
<1>5. c \in [op : Ops, args : Seq(Int)]
  BY <1>1
<1> QED
  BY <1>4, <1>5, ResultIs, Zenon

\* c is a WAIT whose arguments are in the file from a on, and end before k.
ReadAsWait(a, c, k) ==
  \E x, e :
    /\ Field(a, x, e) /\ c.op = "WAIT"
    /\ \/ Char(e) \in LineEnd /\ c.args = Append(<< >>, x) /\ k = e + 1
       \/ part = 2 /\ Char(e) = Space /\ c.args = Append(<< >>, x) /\ k = Cleanup(e + 1)
       \/ /\ part = 1 /\ Char(e) = Space
          /\ \E y, f : /\ Field(e + 1, y, f) /\ Char(f) \in LineEnd /\ k = f + 1
                       /\ c.args = Append(Append(<< >>, x), y)

\* It is what parse_wait accepts.
LEMMA WaitCases ==
  ASSUME file \in Files, part \in {1, 2}, NEW a \in Places, NEW r, r = ParseWait(a),
         r.cmd # Invalid, Sound(r.cmd)
  PROVE  ReadAsWait(a, r.cmd, r.pos)
<1>1. PICK delay, spaced :
        delay = Number(From(a), LineEnd) /\ spaced = Number(From(a), {Space})
  OBVIOUS
<1>2. r = IF delay.ok THEN Accept("WAIT", delay)
          ELSE IF part = 2 /\ spaced.ok THEN [Accept("WAIT", spaced) EXCEPT !.pos = Cleanup(@)]
          ELSE Result("WAIT", Number(spaced, LineEnd))
  BY <1>1, Zenon DEF ParseWait, Space
<1>3. From(a) \in Parses /\ From(a).pos = a /\ From(a).args = << >> /\ spaced \in Parses
  BY <1>1, FromParses, NumberParses DEF From
<1>4. CASE delay.ok
  <2>1. r = Accept("WAIT", delay)
    BY <1>2, <1>4, Zenon
  <2>2. r.cmd.op = "WAIT" /\ r.cmd.args = delay.args /\ r.pos = delay.pos
    BY <2>1 DEF Accept
  <2>3. PICK x, e : /\ Field(From(a).pos, x, e) /\ Char(e) \in LineEnd
                    /\ State(delay, Append(From(a).args, x), e + 1)
    BY <1>1, <1>3, <1>4, <2>2, LastNumberWas, Zenon
  <2> QED
    BY <1>3, <2>2, <2>3, Zenon DEF State, ReadAsWait
<1>5. ASSUME spaced.ok
      PROVE  \E x, e : Field(a, x, e) /\ Char(e) = Space /\ State(spaced, Append(<< >>, x), e + 1)
  <2>1. EOF \notin {Space}
    BY NamedCharacters
  <2>2. PICK x, e : /\ Field(From(a).pos, x, e) /\ Char(e) \in {Space}
                    /\ State(spaced, Append(From(a).args, x), e + 1)
    BY <1>1, <1>3, <1>5, <2>1, NumberWas, Zenon
  <2> QED
    BY <1>3, <2>2, Zenon
<1>6. CASE ~delay.ok /\ part = 2 /\ spaced.ok
  <2>1. r = [Accept("WAIT", spaced) EXCEPT !.pos = Cleanup(@)]
    BY <1>2, <1>6, Zenon
  <2>2. r.cmd.op = "WAIT" /\ r.cmd.args = spaced.args /\ r.pos = Cleanup(spaced.pos)
    BY <2>1 DEF Accept
  <2>3. PICK x, e : Field(a, x, e) /\ Char(e) = Space /\ State(spaced, Append(<< >>, x), e + 1)
    BY <1>5, <1>6
  <2>4. r.cmd.args = Append(<< >>, x) /\ r.pos = Cleanup(e + 1)
    BY <2>2, <2>3, Zenon DEF State
  <2> QED
    BY <1>6, <2>2, <2>3, <2>4, Zenon DEF ReadAsWait
<1>7. CASE ~delay.ok /\ ~(part = 2 /\ spaced.ok)
  <2>1. r = Result("WAIT", Number(spaced, LineEnd))
    BY <1>2, <1>7, Zenon
  <2>2. /\ Number(spaced, LineEnd).ok /\ r.pos = Number(spaced, LineEnd).pos
        /\ r.cmd.op = "WAIT" /\ r.cmd.args = Number(spaced, LineEnd).args
    BY <2>1, ResultWas
  <2>3. PICK y, k : /\ spaced.ok /\ Field(spaced.pos, y, k) /\ Char(k) \in LineEnd
                    /\ State(Number(spaced, LineEnd), Append(spaced.args, y), k + 1)
    BY <1>3, <2>2, LastNumberWas, Zenon
  <2>4. PICK x, e : Field(a, x, e) /\ Char(e) = Space /\ State(spaced, Append(<< >>, x), e + 1)
    BY <1>5, <2>3
  <2>5. /\ Field(e + 1, y, k) /\ r.pos = k + 1
        /\ r.cmd.args = Append(Append(<< >>, x), y)
    BY <2>2, <2>3, <2>4, Zenon DEF State
  <2>6. part = 1
    BY <1>7, <2>3
  <2> QED
    BY <2>2, <2>3, <2>4, <2>5, <2>6, Zenon DEF ReadAsWait
<1> QED
  BY <1>4, <1>6, <1>7

\* WAIT is read from its line,
LEMMA WaitWas ==
  ASSUME file \in Files, part \in {1, 2}, NEW i \in Places, Here(WaitWord, i), NEW a \in Places,
         a = i + Len(WaitWord), ParseWait(a).cmd # Invalid, Sound(ParseWait(a).cmd)
  PROVE  Whole(ParseWait(a), i)
<1>1. PICK r : r = ParseWait(a)
  OBVIOUS
<1>2. PICK c : c = r.cmd
  OBVIOUS
<1>3. PICK x, e :
        /\ Field(a, x, e) /\ c.op = "WAIT"
        /\ \/ Char(e) \in LineEnd /\ c.args = Append(<< >>, x) /\ r.pos = e + 1
           \/ part = 2 /\ Char(e) = Space /\ c.args = Append(<< >>, x) /\ r.pos = Cleanup(e + 1)
           \/ /\ part = 1 /\ Char(e) = Space
              /\ \E y, k : /\ Field(e + 1, y, k) /\ Char(k) \in LineEnd /\ r.pos = k + 1
                           /\ c.args = Append(Append(<< >>, x), y)
  <2>1. ReadAsWait(a, r.cmd, r.pos)
    BY <1>1, WaitCases, Zenon
  <2> QED
    BY <1>2, <2>1, Zenon DEF ReadAsWait
<1>4. Decimal(a, DigitsEnd(a)) = x /\ DigitsEnd(a) = e /\ e \in 1 .. Size
  BY <1>3, Zenon DEF Field
<1>5. c.op # "RESERVE" /\ Keyword(c.op) = WaitWord /\ WaitWord \in Words
  BY <1>3 DEF Keyword, Words, CreateWord, ReserveWord, ShowWord, WaitWord
<1>6. \A k \in 1 .. Size : Past(k) = k + 1 /\ k \in Places /\ k + 1 \in Places
  BY FileFacts DEF Past, Places
<1>7. CASE Char(e) \in LineEnd /\ c.args = Append(<< >>, x) /\ r.pos = e + 1
  <2>1. Len(c.args) = 1 /\ c.args[1] = x
    BY <1>7, OneNumber
  <2>2. Keyed(c, WaitWord, i, a)
    BY <1>5, <2>1 DEF Keyed
  <2>3. ReadsAs(c, i, LineEnd) /\ EndOf(c, i) = e
    BY <1>4, <1>5, <1>7, <2>1, <2>2, ReadsAsOne
  <2>4. Char(e) \in EndsOf("WAIT")
    BY <1>7 DEF EndsOf
  <2>5. ReadsAs(c, i, EndsOf(c.op))
    BY <1>3, <1>4, <1>5, <2>1, <2>2, <2>4, ReadsAsOne
  <2>6. r.pos = Cleanup(i)
    BY <1>4, <1>6, <1>7, <2>2, <2>3, WholeLine, Zenon
  <2>7. Known(c)
    BY <1>3, <2>1 DEF Known, Counts, Ops
  <2> QED
    BY <1>1, <1>2, <2>5, <2>6, <2>7, Zenon DEF Whole
<1>8. CASE part = 2 /\ Char(e) = Space /\ c.args = Append(<< >>, x) /\ r.pos = Cleanup(e + 1)
  <2>1. Len(c.args) = 1 /\ c.args[1] = x /\ Len(c.args) \in Nat
    BY <1>8, OneNumber
  <2>2. Keyed(c, WaitWord, i, a)
    BY <1>5, <2>1 DEF Keyed
  <2>3. Char(e) \in EndsOf("WAIT")
    BY <1>8 DEF EndsOf
  <2>4. ReadsAs(c, i, EndsOf(c.op)) /\ EndOf(c, i) = e
    BY <1>3, <1>4, <1>5, <2>1, <2>2, <2>3, ReadsAsOne
  <2>5. Clean(i, e)
    BY <1>5, <2>1, <2>4, OneLine, Zenon DEF EndOf
  <2>6. Clean(e, e + 1)
    <3>1. \A j \in e .. (e + 1) - 1 : j = e
      BY <1>4
    <3>2. \A j \in e .. (e + 1) - 1 : Char(j) # "\n"
      BY <1>8, <3>1, NamedCharacters
    <3>3. e <= e + 1
      BY <1>4
    <3> QED
      BY <1>4, <1>6, <3>2, <3>3 DEF Clean
  <2>7. Cleanup(i) = Cleanup(e) /\ Cleanup(e) = Cleanup(e + 1)
    BY <1>4, <1>6, <2>5, <2>6, CleanupSkips, Zenon
  <2>8. Known(c)
    BY <1>3, <1>8, <2>1 DEF Known, Counts, Ops
  <2> QED
    BY <1>1, <1>2, <1>8, <2>4, <2>7, <2>8, Zenon DEF Whole
<1>9. CASE /\ part = 1 /\ Char(e) = Space
           /\ \E y, k : /\ Field(e + 1, y, k) /\ Char(k) \in LineEnd /\ r.pos = k + 1
                        /\ c.args = Append(Append(<< >>, x), y)
  <2>1. PICK y, k : /\ Field(e + 1, y, k) /\ Char(k) \in LineEnd /\ r.pos = k + 1
                    /\ c.args = Append(Append(<< >>, x), y)
    BY <1>9
  <2>2. Len(c.args) = 2 /\ c.args[1] = x /\ c.args[2] = y
    BY <2>1, TwoNumbers
  <2>3. Keyed(c, WaitWord, i, a)
    BY <1>5, <2>2 DEF Keyed
  <2>4. Decimal(e + 1, DigitsEnd(e + 1)) = y /\ DigitsEnd(e + 1) = k /\ k \in 1 .. Size
    BY <2>1, Zenon DEF Field
  <2>5. ReadsAs(c, i, LineEnd) /\ EndOf(c, i) = k
    <3>1. PICK b : b = e + 1 /\ b = DigitsEnd(a) + 1
      BY <1>4, Zenon
    <3>2. Decimal(b, DigitsEnd(b)) = y /\ DigitsEnd(b) = k
      BY <2>4, <3>1, Zenon
    <3>3. Char(k) \in LineEnd /\ Char(e) = Space
      BY <1>9, <2>1, Zenon
    <3> QED
      BY <1>4, <1>5, <2>2, <2>3, <3>1, <3>2, <3>3, ReadsAsTwo
  <2>6. r.pos = Cleanup(i)
    BY <1>6, <2>1, <2>3, <2>4, <2>5, WholeLine, Zenon
  <2>7. Known(c) /\ EndsOf(c.op) = LineEnd
    BY <1>3, <1>9, <2>2 DEF Known, Counts, Ops, EndsOf
  <2> QED
    BY <1>1, <1>2, <2>5, <2>6, <2>7, Zenon DEF Whole
<1> QED
  BY <1>3, <1>7, <1>8, <1>9

\* and its line is read as WAIT.
LEMMA WaitIs ==
  ASSUME file \in Files, part \in {1, 2},
         NEW c \in [op : Ops, args : Seq(0 .. UINT_MAX)], c.op = "WAIT",
         Known(c), NEW i, NEW a, Keyed(c, WaitWord, i, a), ReadsAs(c, i, {"\n"})
  PROVE  ParseWait(a).cmd = c
<1>1. Len(c.args) = 1 \/ (Len(c.args) = 2 /\ part = 1)
  BY DEF Known, Counts
<1>2. PICK e : e = DigitsEnd(a)
  OBVIOUS
<1>3. PICK delay, spaced :
        delay = Number(From(a), LineEnd) /\ spaced = Number(From(a), {Space})
  OBVIOUS
<1>4. ParseWait(a) =
        IF delay.ok THEN Accept("WAIT", delay)
        ELSE IF part = 2 /\ spaced.ok THEN [Accept("WAIT", spaced) EXCEPT !.pos = Cleanup(@)]
        ELSE Result("WAIT", Number(spaced, LineEnd))
  BY <1>3, Zenon DEF ParseWait, Space
<1>5. a \in Places /\ State(From(a), << >>, a)
  BY StartsKeyed, FromRead
<1>6. c.op # "RESERVE" /\ c \in [op : Ops, args : Seq(Int)] /\ c.args \in Seq(Int)
  BY MaxAssumption
<1>7. CASE Len(c.args) = 1
  <2>1. Decimal(a, e) = c.args[1] /\ Char(e) \in {"\n"}
    BY <1>2, <1>6, <1>7, ReadsAsOne
  <2>2. Char(e) # EOF /\ Char(e) \in LineEnd
    BY <2>1 DEF EOF, LineEnd
  <2>3. c.args[1] \in 0 .. UINT_MAX
    BY <1>7, MaxAssumption
  <2>4. Field(a, c.args[1], e)
    BY <1>2, <1>5, <2>1, <2>2, <2>3, FieldIs, Zenon
  <2>5. delay.ok /\ State(delay, Append(<< >>, c.args[1]), e + 1)
    BY <1>3, <1>5, <2>2, <2>4, FieldRead, Zenon
  <2>6. Append(<< >>, c.args[1]) = c.args
    BY <1>6, <1>7
  <2>7. ParseWait(a) = Accept("WAIT", delay)
    BY <1>4, <2>5, Zenon
  <2>8. Result("WAIT", delay) = Accept("WAIT", delay)
    BY <2>5, Zenon DEF Result
  <2>9. State(delay, c.args, e + 1)
    BY <2>5, <2>6, Zenon
  <2>10. Result(c.op, delay).cmd = c
    BY <1>6, <2>9, ResultIs, Zenon
  <2> QED
    BY <2>7, <2>8, <2>10, Zenon
<1>8. CASE Len(c.args) = 2 /\ part = 1
  <2>1. PICK b : b = e + 1
    OBVIOUS
  <2>2. PICK k : k = DigitsEnd(b)
    OBVIOUS
  <2>3. /\ Decimal(a, e) = c.args[1] /\ Char(e) = Space /\ Decimal(b, k) = c.args[2]
        /\ Char(k) \in {"\n"} /\ b \in Places
    BY <1>2, <1>6, <1>8, <2>1, <2>2, ReadsAsTwo
  <2>4. Char(e) # EOF /\ Char(k) # EOF /\ Char(k) \in LineEnd /\ Char(e) \notin LineEnd /\ Char(e) \in {Space}
    BY <2>3, NamedCharacters DEF EOF, LineEnd
  <2>5. c.args[1] \in 0 .. UINT_MAX /\ c.args[2] \in 0 .. UINT_MAX
    BY <1>8, MaxAssumption
  <2>6. Field(a, c.args[1], e) /\ Field(b, c.args[2], k)
    BY <1>2, <1>5, <2>2, <2>3, <2>4, <2>5, FieldIs, Zenon
  <2>7. ~delay.ok
    BY <1>3, <1>5, <2>4, <2>6, FieldRead, Zenon
  <2>8. State(spaced, Append(<< >>, c.args[1]), b)
    BY <1>3, <1>5, <2>1, <2>4, <2>6, FieldRead, Zenon
  <2>9. State(Number(spaced, LineEnd), Append(Append(<< >>, c.args[1]), c.args[2]), k + 1)
    BY <2>4, <2>6, <2>8, FieldRead, Zenon
  <2>10. Append(Append(<< >>, c.args[1]), c.args[2]) = c.args
    BY <1>6, <1>8
  <2>11. part # 2
    BY <1>8
  <2>12. ParseWait(a) = Result("WAIT", Number(spaced, LineEnd))
    BY <1>4, <2>7, <2>11, Zenon
  <2>13. State(Number(spaced, LineEnd), c.args, k + 1)
    BY <2>9, <2>10, Zenon
  <2>14. Result(c.op, Number(spaced, LineEnd)).cmd = c
    BY <1>6, <2>13, ResultIs, Zenon
  <2> QED
    BY <2>12, <2>14, Zenon
<1> QED
  BY <1>1, <1>7, <1>8

----------------------------------------------------------------------------
(* The list of seats.                                                      *)

\* The two characters between argument 2 * n + 1 of a RESERVE of m seats and the
\* place where the loop of parse_reserve turns.
First(n) == IF n = 0 THEN Space ELSE ")"
Second(n, m) == IF n = 0 THEN "[" ELSE IF n < m THEN Space ELSE "]"

\* c is a RESERVE of m seats, written from i on, with its numbers from a on.
List(c, i, a, m) ==
  /\ Keyed(c, ReserveWord, i, a) /\ c.op = "RESERVE"
  /\ m \in Nat \ {0} /\ Len(c.args) = 1 + 2 * m

\* What is written in the line of a list, after the number of the event or the
\* second of a seat, if another seat follows,
SeatFollowed(c, i, m, n) ==
  \A u, b : u = 2 * n + 1 /\ b = Starts(c, i)[u] /\ b \in Places =>
    /\ Argument(c, u, b) <=>
         (/\ Decimal(b, DigitsEnd(b)) = c.args[u] /\ Char(DigitsEnd(b)) = First(n)
          /\ Char(DigitsEnd(b) + 1) = Second(n, m) /\ Char(DigitsEnd(b) + 2) = "(")
    /\ Starts(c, i)[u + 1] = DigitsEnd(b) + 3

\* after the first number of a seat,
PairJoined(c, i, n) ==
  \A u, b : u = 2 * n + 2 /\ b = Starts(c, i)[u] /\ b \in Places =>
    /\ Argument(c, u, b) <=>
         (Decimal(b, DigitsEnd(b)) = c.args[u] /\ Char(DigitsEnd(b)) = Comma)
    /\ Starts(c, i)[u + 1] = DigitsEnd(b) + 1

\* and after the last seat.
ListClosed(c, i, m) ==
  \A u, b : u = 2 * m + 1 /\ b = Starts(c, i)[u] /\ b \in Places =>
    /\ Argument(c, u, b) <=>
         (/\ Decimal(b, DigitsEnd(b)) = c.args[u] /\ Char(DigitsEnd(b)) = First(m)
          /\ Char(DigitsEnd(b) + 1) = Second(m, m))
    /\ EndOf(c, i) = DigitsEnd(b) + 2

\* So it is after a seat that is followed by another,
LEMMA SeatFollows ==
  ASSUME file \in Files, NEW c, NEW i, NEW a, NEW m, List(c, i, a, m), NEW n \in 0 .. m - 1
  PROVE  SeatFollowed(c, i, m, n)
<1>0. Keyed(c, ReserveWord, i, a) /\ c.op = "RESERVE" /\ m \in Nat \ {0} /\ Len(c.args) = 1 + 2 * m
  BY DEF List
<1> SUFFICES ASSUME NEW u, u = 2 * n + 1, NEW b \in Places, b = Starts(c, i)[u]
             PROVE  /\ Argument(c, u, b) <=>
                         (/\ Decimal(b, DigitsEnd(b)) = c.args[u] /\ Char(DigitsEnd(b)) = First(n)
                          /\ Char(DigitsEnd(b) + 1) = Second(n, m) /\ Char(DigitsEnd(b) + 2) = "(")
                    /\ Starts(c, i)[u + 1] = DigitsEnd(b) + 3
  BY Zenon DEF SeatFollowed
<1>a. u \in 1 .. Len(c.args) /\ m \in Nat \ {0}
  BY <1>0
<1>1. PICK e \in Places : e = DigitsEnd(b)
  BY DigitsEndIs
<1>2. e \in Int
  BY FileFacts
<1>3. Starts(c, i)[u + 1] = e + Len(Separator(c, u))
  BY <1>0, <1>1, <1>a, StartsKeyed, Zenon
<1>4. Separator(c, u) = <<First(n), Second(n, m), "(">>
  <2>1. CASE n = 0
    <3>1. u = 1
      BY <2>1
    <3>2. Separator(c, 1) = <<Space, "[", "(">>
      BY <1>0, SeatSeparators
    <3> QED
      BY <2>1, <3>1, <3>2, Zenon DEF First, Second
  <2>2. CASE n # 0
    <3>1. n \in 1 .. m /\ n < m
      BY <1>0, <2>2
    <3>2. Separator(c, 2 * n + 1) = <<")", Space, "(">>
      BY <3>1, <1>0, SeatSeparators
    <3>3. First(n) = ")" /\ Second(n, m) = Space
      BY <2>2, <3>1 DEF First, Second
    <3> QED
      BY <3>2, <3>3
  <2> QED
    BY <2>1, <2>2
<1>5. /\ Len(<<First(n), Second(n, m), "(">>) = 3
      /\ Follows(<<First(n), Second(n, m), "(">>, e) <=>
           (Char(e) = First(n) /\ Char(e + 1) = Second(n, m) /\ Char(e + 2) = "(")
  BY <1>2, FollowsThree, Zenon
<1>6. Argument(c, u, b) <=>
        (/\ Decimal(b, e) = c.args[u] /\ Char(e) = First(n)
         /\ Char(e + 1) = Second(n, m) /\ Char(e + 2) = "(")
  BY <1>1, <1>4, <1>5, Zenon DEF Argument
<1>7. Starts(c, i)[u + 1] = e + 3
  BY <1>3, <1>4, <1>5, Zenon
<1> QED
  BY <1>1, <1>6, <1>7, Zenon

\* inside of a seat,
LEMMA PairJoins ==
  ASSUME file \in Files, NEW c, NEW i, NEW a, NEW m, List(c, i, a, m), NEW n \in 0 .. m - 1
  PROVE  PairJoined(c, i, n)
<1>0. Keyed(c, ReserveWord, i, a) /\ c.op = "RESERVE" /\ m \in Nat \ {0} /\ Len(c.args) = 1 + 2 * m
  BY DEF List
<1> SUFFICES ASSUME NEW u, u = 2 * n + 2, NEW b \in Places, b = Starts(c, i)[u]
             PROVE  /\ Argument(c, u, b) <=>
                         (Decimal(b, DigitsEnd(b)) = c.args[u] /\ Char(DigitsEnd(b)) = Comma)
                    /\ Starts(c, i)[u + 1] = DigitsEnd(b) + 1
  BY Zenon DEF PairJoined
<1>a. u \in 1 .. Len(c.args) /\ m \in Nat \ {0}
  BY <1>0
<1>1. PICK e \in Places : e = DigitsEnd(b)
  BY DigitsEndIs
<1>2. e \in Int
  BY FileFacts
<1>3. Starts(c, i)[u + 1] = e + Len(Separator(c, u))
  BY <1>0, <1>1, <1>a, StartsKeyed, Zenon
<1>4. Separator(c, u) = <<Comma>>
  <2>1. n + 1 \in 1 .. m /\ 2 * (n + 1) = u
    BY <1>0
  <2>2. Separator(c, 2 * (n + 1)) = <<Comma>>
    BY <2>1, <1>0, SeatSeparators
  <2> QED
    BY <2>1, <2>2
<1>5. Len(<<Comma>>) = 1 /\ (Follows(<<Comma>>, e) <=> Char(e) = Comma)
  BY <1>2, FollowsOne, Zenon
<1>6. Argument(c, u, b) <=> (Decimal(b, e) = c.args[u] /\ Char(e) = Comma)
  BY <1>1, <1>4, <1>5, Zenon DEF Argument
<1>7. Starts(c, i)[u + 1] = e + 1
  BY <1>3, <1>4, <1>5, Zenon
<1> QED
  BY <1>1, <1>6, <1>7, Zenon

\* and after the last one.
LEMMA ListCloses ==
  ASSUME file \in Files, NEW c, NEW i, NEW a, NEW m, List(c, i, a, m)
  PROVE  ListClosed(c, i, m)
<1>0. Keyed(c, ReserveWord, i, a) /\ c.op = "RESERVE" /\ m \in Nat \ {0} /\ Len(c.args) = 1 + 2 * m
  BY DEF List
<1> SUFFICES ASSUME NEW u, u = 2 * m + 1, NEW b \in Places, b = Starts(c, i)[u]
             PROVE  /\ Argument(c, u, b) <=>
                         (/\ Decimal(b, DigitsEnd(b)) = c.args[u] /\ Char(DigitsEnd(b)) = First(m)
                          /\ Char(DigitsEnd(b) + 1) = Second(m, m))
                    /\ EndOf(c, i) = DigitsEnd(b) + 2
  BY Zenon DEF ListClosed
<1>a. u \in 1 .. Len(c.args) /\ m \in Nat \ {0}
  BY <1>0
<1>1. PICK e \in Places : e = DigitsEnd(b)
  BY DigitsEndIs
<1>2. e \in Int
  BY FileFacts
<1>3. Starts(c, i)[u + 1] = e + Len(Separator(c, u))
  BY <1>0, <1>1, <1>a, StartsKeyed, Zenon
<1>4. Separator(c, u) = <<First(m), Second(m, m)>>
  <2>1. m \in 1 .. m /\ ~(m < m) /\ m # 0
    BY <1>0
  <2>2. Separator(c, 2 * m + 1) = <<")", "]">>
    BY <2>1, <1>0, SeatSeparators
  <2>3. First(m) = ")" /\ Second(m, m) = "]"
    BY <2>1 DEF First, Second
  <2> QED
    BY <2>2, <2>3
<1>5. /\ Len(<<First(m), Second(m, m)>>) = 2
      /\ Follows(<<First(m), Second(m, m)>>, e) <=> (Char(e) = First(m) /\ Char(e + 1) = Second(m, m))
  BY <1>2, FollowsTwo, Zenon
<1>6. Argument(c, u, b) <=>
        (Decimal(b, e) = c.args[u] /\ Char(e) = First(m) /\ Char(e + 1) = Second(m, m))
  BY <1>1, <1>4, <1>5, Zenon DEF Argument
<1>7. Starts(c, i)[u + 1] = e + 2
  BY <1>3, <1>4, <1>5, Zenon
<1>8. u = Len(c.args)
  BY <1>0
<1>9. EndOf(c, i) = e + 2
  BY <1>7, <1>8, Zenon DEF EndOf
<1> QED
  BY <1>1, <1>6, <1>9, Zenon

\* The event's number and the "[" are read if they are there,
LEMMA OpeningRead ==
  ASSUME file \in Files, NEW a \in Places, NEW x, NEW e, Field(a, x, e),
         Char(e) = Space, Char(e + 1) = "["
  PROVE  State(Opening(a), Append(<< >>, x), e + 2)
<1>1. State(From(a), << >>, a)
  BY FromRead
<1>2. Char(e) \in {Space} /\ Char(e + 1) \in {"["} /\ Char(e + 1) # EOF
  BY NamedCharacters DEF EOF
<1>3. State(Number(From(a), {Space}), Append(<< >>, x), e + 1)
  BY <1>1, <1>2, FieldRead, Zenon
<1>4. State(Opening(a), Append(<< >>, x), Past(e + 1))
  BY <1>2, <1>3, LiteralRead, Zenon DEF Opening
<1>5. Past(e + 1) = e + 2
  <2>1. e + 1 \in Places /\ e \in Nat
    BY FileFacts DEF Field, Places
  <2>2. Past(e + 1) = (e + 1) + 1
    BY <1>2, <2>1, CharInFile, Zenon
  <2> QED
    BY <2>1, <2>2
<1> QED
  BY <1>4, <1>5, Zenon

\* and they are there if they are read.
LEMMA OpeningWas ==
  ASSUME file \in Files, NEW a \in Places, Opening(a).ok
  PROVE  \E x, e : /\ Field(a, x, e) /\ Char(e) = Space /\ Char(e + 1) = "["
                   /\ State(Opening(a), Append(<< >>, x), e + 2)
<1>1. From(a) \in Parses /\ From(a).pos = a /\ From(a).args = << >>
  BY FromParses DEF From
<1>2. PICK p \in Parses : p = Number(From(a), {Space})
  BY <1>1, NumberParses
<1>3. p.ok /\ Char(p.pos) \in {"["}
  BY <1>2, LiteralWas, Zenon DEF Opening
<1>4. EOF \notin {Space}
  BY NamedCharacters DEF EOF
<1>5. PICK x, e : /\ Field(From(a).pos, x, e) /\ Char(e) \in {Space}
                  /\ State(p, Append(From(a).args, x), e + 1)
  BY <1>1, <1>2, <1>3, <1>4, NumberWas, Zenon
<1>6. Field(a, x, e) /\ Char(e) = Space /\ Char(e + 1) = "["
  BY <1>1, <1>3, <1>5 DEF State
<1> QED
  BY <1>6, OpeningRead

\* So are the characters and the numbers of a seat,
LEMMA CoordinateRead ==
  ASSUME file \in Files, NEW p, NEW s, NEW a, State(p, s, a), Char(a) = "(",
         NEW x, NEW e, Field(a + 1, x, e), Char(e) = Comma,
         NEW y, NEW k, Field(e + 1, y, k), Char(k) = ")", Char(k + 1) \in {Space, "]"}
  PROVE  State(Coordinate(p), Append(Append(s, x), y), k + 2)
<1>1. /\ Char(a) \in {"("} /\ Char(e) \in {Comma} /\ Char(k) \in {")"}
      /\ Char(a) # EOF /\ Char(k + 1) # EOF
  BY NamedCharacters DEF EOF
<1>2. a \in Places /\ k + 1 \in Places /\ k \in Nat
  <2>1. a \in Places
    BY DEF State, Parses
  <2>2. k \in 1 .. Size /\ Size \in Nat
    BY FileFacts DEF Field
  <2> QED
    BY <2>1, <2>2 DEF Places
<1>3. Past(a) = a + 1 /\ Past(k + 1) = (k + 1) + 1
  BY <1>1, <1>2, CharInFile, Zenon
<1>4. State(Literal(p, {"("}), s, a + 1)
  BY <1>1, <1>3, LiteralRead, Zenon
<1>5. State(Number(Literal(p, {"("}), {Comma}), Append(s, x), e + 1)
  BY <1>1, <1>4, FieldRead, Zenon
<1>6. State(Number(Number(Literal(p, {"("}), {Comma}), {")"}), Append(Append(s, x), y), k + 1)
  BY <1>1, <1>5, FieldRead, Zenon
<1>7. State(Coordinate(p), Append(Append(s, x), y), (k + 1) + 1)
  BY <1>3, <1>6, LiteralRead, Zenon DEF Coordinate, Space, Comma
<1>8. (k + 1) + 1 = k + 2
  BY <1>2
<1> QED
  BY <1>7, <1>8, Zenon

\* both ways.
LEMMA CoordinateWas ==
  ASSUME file \in Files, NEW p \in Parses, Coordinate(p).ok
  PROVE  /\ p.ok /\ Char(p.pos) = "("
         /\ \E x, e, y, k :
              /\ Field(p.pos + 1, x, e) /\ Char(e) = Comma /\ Field(e + 1, y, k)
              /\ Char(k) = ")" /\ Char(k + 1) \in {Space, "]"}
              /\ State(Coordinate(p), Append(Append(p.args, x), y), k + 2)
<1>1. PICK r \in Parses : r = Literal(p, {"("})
  BY LiteralParses
<1>2. PICK q \in Parses : q = Number(r, {Comma})
  BY NumberParses
<1>3. PICK t \in Parses : t = Number(q, {")"})
  BY NumberParses
<1>4. t.ok /\ Char(t.pos) \in {Space, "]"}
  BY <1>1, <1>2, <1>3, LiteralWas, Zenon DEF Coordinate, Space, Comma
<1>5. EOF \notin {Comma} /\ EOF \notin {")"}
  BY NamedCharacters DEF EOF
<1>6. PICK y, k : /\ q.ok /\ Field(q.pos, y, k) /\ Char(k) \in {")"}
                  /\ State(t, Append(q.args, y), k + 1)
  BY <1>3, <1>4, <1>5, NumberWas, Zenon
<1>7. PICK x, e : /\ r.ok /\ Field(r.pos, x, e) /\ Char(e) \in {Comma}
                  /\ State(q, Append(r.args, x), e + 1)
  BY <1>2, <1>5, <1>6, NumberWas, Zenon
<1>8. p.ok /\ Char(p.pos) \in {"("} /\ State(r, p.args, Past(p.pos))
  BY <1>1, <1>7, LiteralWas, Zenon
<1>9. Past(p.pos) = p.pos + 1
  <2>1. p.pos \in Places /\ Char(p.pos) # EOF
    BY <1>8, NamedCharacters DEF Parses, EOF
  <2> QED
    BY <2>1, CharInFile, Zenon
<1>10. /\ Field(p.pos + 1, x, e) /\ Char(e) = Comma /\ Field(e + 1, y, k)
       /\ Char(k) = ")" /\ Char(k + 1) \in {Space, "]"}
  BY <1>4, <1>6, <1>7, <1>8, <1>9 DEF State
<1>11. State(p, p.args, p.pos) /\ Char(p.pos) = "("
  BY <1>8 DEF State
<1>12. State(Coordinate(p), Append(Append(p.args, x), y), k + 2)
  BY <1>10, <1>11, CoordinateRead, Zenon
<1> QED
  BY <1>10, <1>11, <1>12, <1>8, Zenon

\* p has read the event of c and n of its m seats, up to the place where the
\* loop turns, and all was as c is written.
Reached(c, i, m, n, p) ==
  /\ p \in Parses /\ p.ok
  /\ Len(p.args) = 2 * n + 1 /\ \A j \in 1 .. 2 * n + 1 : p.args[j] = c.args[j]
  /\ \A j \in 1 .. 2 * n : Argument(c, j, Starts(c, i)[j])
  /\ \E e : /\ Field(Starts(c, i)[2 * n + 1], c.args[2 * n + 1], e) /\ p.pos = e + 2
            /\ Char(e) = First(n) /\ Char(e + 1) = Second(n, m)

\* One more seat, with what separates it, is read into two more arguments.
LEMMA OneMoreSeat ==
  ASSUME file \in Files, NEW c, NEW i, NEW a, NEW m, List(c, i, a, m), NEW n \in 0 .. m - 1,
         NEW p, Reached(c, i, m, n, p), Char(p.pos) = "(",
         NEW x, NEW e, Field(p.pos + 1, x, e), Char(e) = Comma, x = c.args[2 * n + 2],
         NEW y, NEW k, Field(e + 1, y, k), Char(k) = ")", y = c.args[2 * n + 3],
         Char(k + 1) = Second(n + 1, m),
         NEW q, State(q, Append(Append(p.args, x), y), k + 2)
  PROVE  Reached(c, i, m, n + 1, q)
<1>0. Keyed(c, ReserveWord, i, a) /\ c.op = "RESERVE" /\ m \in Nat \ {0} /\ Len(c.args) = 1 + 2 * m
  BY DEF List
<1>1. PICK u \in 1 .. Len(c.args) : u = 2 * n + 1
  BY <1>0
<1>2. PICK v \in 1 .. Len(c.args) : v = 2 * n + 2 /\ v = u + 1
  BY <1>0, <1>1
<1>3. PICK z \in 1 .. Len(c.args) : z = 2 * n + 3 /\ z = v + 1 /\ z = 2 * (n + 1) + 1
  BY <1>0, <1>2
<1>4. PICK b, d : /\ b = Starts(c, i)[u] /\ Field(b, c.args[u], d) /\ p.pos = d + 2
                  /\ Char(d) = First(n) /\ Char(d + 1) = Second(n, m)
  BY <1>1, Zenon DEF Reached
<1>5. b \in Places /\ Decimal(b, DigitsEnd(b)) = c.args[u] /\ DigitsEnd(b) = d /\ d \in Nat
  BY <1>4 DEF Field
<1>6. Argument(c, u, b) /\ Starts(c, i)[v] = d + 3
  <2>1. SeatFollowed(c, i, m, n)
    BY SeatFollows, Zenon
  <2> QED
    BY <1>1, <1>2, <1>4, <1>5, <2>1, Zenon DEF SeatFollowed
<1>7. p.pos + 1 = d + 3
  BY <1>4, <1>5
<1>8. PICK g \in Places : g = Starts(c, i)[v] /\ Field(g, x, e)
  BY <1>6, <1>7 DEF Field
<1>9. Decimal(g, DigitsEnd(g)) = c.args[v] /\ DigitsEnd(g) = e
  BY <1>2, <1>8, Zenon DEF Field
<1>10. Argument(c, v, g) /\ Starts(c, i)[z] = e + 1
  <2>1. PairJoined(c, i, n)
    BY PairJoins, Zenon
  <2> QED
    BY <1>2, <1>3, <1>8, <1>9, <2>1, Zenon DEF PairJoined
<1>11. Field(Starts(c, i)[z], c.args[z], k)
  BY <1>3, <1>10, Zenon
<1>12. First(n + 1) = ")"
  BY DEF First
<1>13. ASSUME NEW j \in 1 .. 2 * (n + 1) PROVE Argument(c, j, Starts(c, i)[j])
  <2>1. j \in 1 .. 2 * n \/ j = u \/ j = v
    BY <1>1, <1>2
  <2>2. \A l \in 1 .. 2 * n : Argument(c, l, Starts(c, i)[l])
    BY Zenon DEF Reached
  <2> QED
    BY <1>4, <1>6, <1>8, <1>10, <2>1, <2>2, Zenon
<1>14. p.args \in Seq(Int) /\ Len(p.args) = 2 * n + 1 /\ \A j \in 1 .. 2 * n + 1 : p.args[j] = c.args[j]
  BY DEF Reached, Parses
<1>15. q.args = Append(Append(p.args, x), y) /\ q.pos = k + 2 /\ q \in Parses /\ q.ok
  BY Zenon DEF State
<1>16. /\ Len(q.args) = 2 * (n + 1) + 1
       /\ \A j \in 1 .. 2 * (n + 1) + 1 : q.args[j] = c.args[j]
  <2>1. PICK s \in Seq(Int) : s = p.args /\ Len(s) = 2 * n + 1
    BY <1>14
  <2>2. PICK t : t = Append(Append(s, x), y)
    OBVIOUS
  <2>3. /\ Len(t) = 2 * n + 3 /\ t[2 * n + 2] = x /\ t[2 * n + 3] = y
        /\ \A j \in 1 .. 2 * n + 1 : t[j] = s[j]
    <3>1. n \in Nat
      BY DEF List
    <3>2. Longer(Append(Append(s, x), y), s, n, x, y)
      <4>1. Len(s) = 2 * n + 1
        BY <2>1, Zenon
      <4> QED
        BY <3>1, <4>1, TwoMore, Zenon
    <3> QED
      BY <2>2, <3>2, Zenon DEF Longer
  <2>4. q.args = t
    BY <1>15, <2>1, <2>2, Zenon
  <2>5. \A j \in 1 .. 2 * (n + 1) + 1 : j \in 1 .. 2 * n + 1 \/ j = 2 * n + 2 \/ j = 2 * n + 3
    OBVIOUS
  <2>6. \A j \in 1 .. 2 * (n + 1) + 1 : t[j] = c.args[j]
    BY <1>14, <2>1, <2>3, <2>5, Zenon
  <2>7. Len(t) = 2 * (n + 1) + 1
    BY <2>3
  <2> QED
    BY <2>4, <2>6, <2>7, Zenon
<1> QED
  BY <1>3, <1>11, <1>12, <1>13, <1>15, <1>16, Zenon DEF Reached

\* A seat that is written is read,
LEMMA SeatIs ==
  ASSUME file \in Files, NEW c, NEW i, NEW a, NEW m, List(c, i, a, m), NEW n \in 0 .. m - 1,
         c.args \in Seq(0 .. UINT_MAX),
         \A j \in 1 .. Len(c.args) : Argument(c, j, Starts(c, i)[j]),
         NEW p, Reached(c, i, m, n, p)
  PROVE  Reached(c, i, m, n + 1, Coordinate(p))
<1>0. Keyed(c, ReserveWord, i, a) /\ c.op = "RESERVE" /\ m \in Nat \ {0} /\ Len(c.args) = 1 + 2 * m
  BY DEF List
<1>1. PICK u \in 1 .. Len(c.args) : u = 2 * n + 1
  BY <1>0
<1>2. PICK v \in 1 .. Len(c.args) : v = 2 * n + 2 /\ v = u + 1
  BY <1>0, <1>1
<1>3. PICK z \in 1 .. Len(c.args) : z = 2 * n + 3 /\ z = v + 1 /\ z = 2 * (n + 1) + 1
  BY <1>0, <1>2
<1>4. PICK b, d : /\ b = Starts(c, i)[u] /\ Field(b, c.args[u], d) /\ p.pos = d + 2
                  /\ Char(d) = First(n) /\ Char(d + 1) = Second(n, m)
  BY <1>1, Zenon DEF Reached
<1>5. b \in Places /\ DigitsEnd(b) = d /\ d \in Nat
  BY <1>4 DEF Field
<1>6. Char(d + 2) = "(" /\ Starts(c, i)[v] = d + 3
  <2>1. SeatFollowed(c, i, m, n)
    BY SeatFollows, Zenon
  <2> QED
    BY <1>1, <1>2, <1>4, <1>5, <2>1, Zenon DEF SeatFollowed
<1>7. Char(p.pos) = "(" /\ p.pos + 1 = d + 3 /\ p.pos \in Places
  BY <1>4, <1>5, <1>6 DEF Reached, Parses
<1>8. PICK g \in Places : g = Starts(c, i)[v] /\ g = p.pos + 1
  <2>1. Char(p.pos) # EOF
    BY <1>7, NamedCharacters DEF EOF
  <2>2. p.pos + 1 \in Places
    BY <1>7, <2>1, CharInFile
  <2> QED
    BY <1>6, <1>7, <2>2
<1>9. PICK e \in Places : e = DigitsEnd(g)
  BY DigitsEndIs
<1>10. Decimal(g, e) = c.args[v] /\ Char(e) = Comma /\ Starts(c, i)[z] = e + 1
  <2>1. PairJoined(c, i, n)
    BY PairJoins, Zenon
  <2> QED
    BY <1>2, <1>3, <1>8, <1>9, <2>1, Zenon DEF PairJoined
<1>11. c.args[v] \in 0 .. UINT_MAX /\ c.args[z] \in 0 .. UINT_MAX
  BY ElementOfSeq
<1>12. Field(g, c.args[v], e) /\ e + 1 \in Places
  <2>1. Char(e) # EOF
    BY <1>10, NamedCharacters DEF EOF
  <2> QED
    BY <1>9, <1>10, <1>11, <2>1, FieldIs, Zenon
<1>13. PICK h \in Places : h = Starts(c, i)[z] /\ h = e + 1
  BY <1>10, <1>12
<1>14. PICK k : k = DigitsEnd(h)
  OBVIOUS
<1>15. Decimal(h, k) = c.args[z] /\ Char(k) = First(n + 1) /\ Char(k + 1) = Second(n + 1, m)
  <2>1. CASE n + 1 # m
    <3>1. n + 1 \in 0 .. m - 1
      BY <1>0, <2>1
    <3>2. SeatFollowed(c, i, m, n + 1)
      BY <3>1, SeatFollows, Zenon
    <3> QED
      BY <1>3, <1>13, <1>14, <3>2, Zenon DEF SeatFollowed
  <2>2. CASE n + 1 = m
    <3>1. z = 2 * m + 1
      BY <1>3, <2>2
    <3>2. ListClosed(c, i, m)
      BY ListCloses, Zenon
    <3> QED
      BY <1>13, <1>14, <2>2, <3>1, <3>2, Zenon DEF ListClosed
  <2> QED
    BY <2>1, <2>2
<1>16. Char(k) = ")" /\ Char(k) # EOF /\ Char(k + 1) \in {Space, "]"}
  <2>1. n + 1 # 0
    OBVIOUS
  <2> QED
    BY <1>15, <2>1, NamedCharacters DEF First, Second, EOF
<1>17. Field(h, c.args[z], k)
  BY <1>11, <1>14, <1>15, <1>16, FieldIs, Zenon
<1>18. State(p, p.args, p.pos)
  BY Zenon DEF State, Reached
<1>19. /\ Field(p.pos + 1, c.args[v], e) /\ Field(e + 1, c.args[z], k)
  BY <1>8, <1>12, <1>13, <1>17, Zenon
<1>20. State(Coordinate(p), Append(Append(p.args, c.args[v]), c.args[z]), k + 2)
  BY <1>7, <1>10, <1>16, <1>18, <1>19, CoordinateRead, Zenon
<1> QED
  BY <1>2, <1>3, <1>7, <1>10, <1>15, <1>16, <1>19, <1>20, OneMoreSeat, Zenon

\* and a seat that is read as c has it is written so.
LEMMA SeatWas ==
  ASSUME file \in Files, NEW c, NEW i, NEW a, NEW m, List(c, i, a, m), NEW n \in 0 .. m - 1,
         NEW p, Reached(c, i, m, n, p), NEW q, q = Coordinate(p), q.ok,
         \A j \in 1 .. 2 * (n + 1) + 1 : q.args[j] = c.args[j],
         Char(q.pos - 1) = "]" <=> n + 1 = m
  PROVE  Reached(c, i, m, n + 1, q)
<1>1. p \in Parses /\ p.ok /\ Len(p.args) = 2 * n + 1 /\ m \in Nat
  BY Zenon DEF Reached, List
<1>2. PICK x, e, y, k :
        /\ Char(p.pos) = "(" /\ Field(p.pos + 1, x, e) /\ Char(e) = Comma /\ Field(e + 1, y, k)
        /\ Char(k) = ")" /\ Char(k + 1) \in {Space, "]"}
        /\ State(q, Append(Append(p.args, x), y), k + 2)
  BY <1>1, CoordinateWas, Zenon
<1>3. q.args = Append(Append(p.args, x), y) /\ q.pos = k + 2 /\ k \in Nat
  BY <1>2 DEF State, Field
<1>4. x = c.args[2 * n + 2] /\ y = c.args[2 * n + 3]
  <2>1. PICK s \in Seq(Int) : s = p.args /\ Len(s) = 2 * n + 1
    BY <1>1 DEF Parses
  <2>2. PICK t : t = Append(Append(s, x), y)
    OBVIOUS
  <2>3. t[2 * n + 2] = x /\ t[2 * n + 3] = y
    <3>1. n \in Nat
      BY DEF List
    <3>2. Longer(Append(Append(s, x), y), s, n, x, y)
      <4>1. Len(s) = 2 * n + 1
        BY <2>1, Zenon
      <4> QED
        BY <3>1, <4>1, TwoMore, Zenon
    <3> QED
      BY <2>2, <3>2, Zenon DEF Longer
  <2>4. q.args = t
    BY <1>3, <2>1, <2>2, Zenon
  <2>5. 2 * n + 2 \in 1 .. 2 * (n + 1) + 1 /\ 2 * n + 3 \in 1 .. 2 * (n + 1) + 1
    OBVIOUS
  <2> QED
    BY <2>3, <2>4, <2>5, Zenon
<1>5. Char(k + 1) = Second(n + 1, m)
  <2>1. q.pos - 1 = k + 1
    BY <1>3
  <2>2. n + 1 # 0 /\ (n + 1 < m <=> n + 1 # m)
    BY <1>1
  <2>3. Char(k + 1) = "]" <=> n + 1 = m
    BY <2>1, Zenon
  <2> QED
    BY <1>2, <2>2, <2>3 DEF Second
<1> QED
  BY <1>2, <1>4, <1>5, OneMoreSeat, Zenon

\* The event comes first,
LEMMA FirstReached ==
  ASSUME file \in Files, NEW c, NEW i, NEW a, NEW m, List(c, i, a, m),
         NEW x, NEW e, Field(a, x, e), x = c.args[1], Char(e) = Space, Char(e + 1) = "[",
         NEW q, State(q, Append(<< >>, x), e + 2)
  PROVE  Reached(c, i, m, 0, q)
<1>0. Keyed(c, ReserveWord, i, a)
  BY DEF List
<1>1. Starts(c, i)[1] = a
  BY <1>0, StartsKeyed, Zenon
<1>2. 2 * 0 + 1 = 1 /\ (\A j \in 1 .. 2 * 0 : FALSE) /\ \A j \in 1 .. 1 : j = 1
  OBVIOUS
<1>3. First(0) = Space /\ Second(0, m) = "["
  BY DEF First, Second
<1>4. q \in Parses /\ q.ok /\ q.args = Append(<< >>, x) /\ q.pos = e + 2
  BY Zenon DEF State
<1>5. Len(q.args) = 1 /\ q.args[1] = x
  BY <1>4, OneNumber
<1>6. \A j \in 1 .. 1 : q.args[j] = c.args[j]
  BY <1>2, <1>5, Zenon
<1> QED
  BY <1>1, <1>2, <1>3, <1>4, <1>5, <1>6, Zenon DEF Reached

\* and when the last seat has been read, the line up to its end reads as c.
LEMMA ListRead ==
  ASSUME file \in Files, NEW c, NEW i, NEW a, NEW m, List(c, i, a, m),
         NEW p, Reached(c, i, m, m, p), NEW ends, Char(p.pos) \in ends
  PROVE  EndOf(c, i) = p.pos /\ ReadsAs(c, i, ends)
<1>0. Keyed(c, ReserveWord, i, a) /\ c.op = "RESERVE" /\ m \in Nat \ {0} /\ Len(c.args) = 1 + 2 * m
  BY DEF List
<1>1. PICK u \in 1 .. Len(c.args) : u = 2 * m + 1 /\ \A j \in 1 .. Len(c.args) : j \in 1 .. 2 * m \/ j = u
  <2>1. 2 * m + 1 \in 1 .. Len(c.args) /\ \A j \in 1 .. Len(c.args) : j \in 1 .. 2 * m \/ j = 2 * m + 1
    BY <1>0
  <2> QED
    BY <2>1
<1>2. PICK b, e : /\ b = Starts(c, i)[u] /\ Field(b, c.args[u], e) /\ p.pos = e + 2
                  /\ Char(e) = First(m) /\ Char(e + 1) = Second(m, m)
  BY <1>1, Zenon DEF Reached
<1>3. b \in Places /\ Decimal(b, DigitsEnd(b)) = c.args[u] /\ DigitsEnd(b) = e
  BY <1>2 DEF Field
<1>4. Argument(c, u, b) /\ EndOf(c, i) = e + 2
  <2>1. ListClosed(c, i, m)
    BY ListCloses, Zenon
  <2> QED
    BY <1>1, <1>2, <1>3, <2>1, Zenon DEF ListClosed
<1>5. \A j \in 1 .. Len(c.args) : Argument(c, j, Starts(c, i)[j])
  BY <1>1, <1>2, <1>4, Zenon DEF Reached
<1> QED
  BY <1>0, <1>2, <1>4, <1>5, ReadsAsBy, Zenon

\* The loop turns again unless the list is closed.
LEMMA ReachedOpen ==
  ASSUME NEW c, NEW i, NEW m \in Nat, NEW n \in 0 .. m, NEW p, Reached(c, i, m, n, p)
  PROVE  n < m => Turn(p) = Coordinate(p)
<1>1. PICK e : e \in Nat /\ p.pos = e + 2 /\ Char(e + 1) = Second(n, m) /\ p.ok
  BY DEF Reached, Field
<1>2. p.pos - 1 = e + 1
  BY <1>1
<1>3. n < m => Second(n, m) # "]"
  BY NamedCharacters DEF Second
<1> QED
  BY <1>1, <1>2, <1>3, Zenon DEF Turn

\* Once it is, the loop only runs out.
LEMMA ReachedClosed ==
  ASSUME NEW c, NEW i, NEW m \in Nat \ {0}, NEW p, Reached(c, i, m, m, p)
  PROVE  Turn(p) = p
<1>1. PICK e : e \in Nat /\ p.pos = e + 2 /\ Char(e + 1) = Second(m, m)
  BY DEF Reached, Field
<1>2. p.pos - 1 = e + 1
  BY <1>1
<1>3. Second(m, m) = "]"
  BY DEF Second
<1> QED
  BY <1>1, <1>2, <1>3, Zenon DEF Turn

\* The line of a RESERVE is read as that.
LEMMA ReserveIs ==
  ASSUME file \in Files, NEW c \in [op : Ops, args : Seq(0 .. UINT_MAX)], c.op = "RESERVE",
         Known(c), ~Full(c), NEW i, NEW a, Keyed(c, ReserveWord, i, a), ReadsAs(c, i, {"\n"})
  PROVE  ParseReserve(a).cmd = c
<1>1. PICK m \in 1 .. MaxSeats - 1 : Len(c.args) = 1 + 2 * m
  <2>1. PICK m \in 1 .. MaxSeats : Len(c.args) = 1 + 2 * m
    BY DEF Known, Counts
  <2>2. m # MaxSeats
    BY <2>1 DEF Full
  <2> QED
    BY <2>1, <2>2, MaxAssumption
<1>2. List(c, i, a, m) /\ m \in Nat /\ m < MaxSeats /\ MaxSeats \in Nat
  BY <1>1, MaxAssumption DEF List
<1>3. /\ \A j \in 1 .. Len(c.args) : Argument(c, j, Starts(c, i)[j])
      /\ Char(EndOf(c, i)) \in {"\n"}
  BY ReadsAsBy, Zenon
<1>4. PICK f : /\ Loops(f, a, MaxSeats)
               /\ ParseReserve(a) =
                     IF f[MaxSeats].ok /\ Len(f[MaxSeats].args) = 1 + 2 * MaxSeats
                     THEN Reject(f[MaxSeats].pos)
                     ELSE Result("RESERVE", Literal(f[MaxSeats], {"\n"}))
  BY ReserveLoop
<1>5. f[0] = Opening(a) /\ \A n \in Nat : n < MaxSeats => f[n + 1] = Turn(f[n])
  BY <1>2, <1>4, LoopTurns
<1>6. c.args \in Seq(0 .. UINT_MAX) /\ c.args \in Seq(Int)
  BY MaxAssumption
<1> DEFINE T == {n \in Nat : n <= m => Reached(c, i, m, n, f[n])}
           U == {n \in Nat : m + n <= MaxSeats => f[m + n] = f[m]}
<1>7. 0 \in T
  <2>1. PICK u \in 1 .. Len(c.args) : u = 1
    BY <1>1
  <2>2. PICK e : e = DigitsEnd(a)
    OBVIOUS
  <2>3. a \in Places /\ a = Starts(c, i)[u]
    BY <2>1, StartsKeyed, Zenon
  <2>4. 0 \in 0 .. m - 1 /\ u = 2 * 0 + 1
    BY <1>1, <2>1
  <2>5. Argument(c, u, a)
    BY <1>3, <2>3, Zenon
  <2>6. Decimal(a, e) = c.args[u] /\ Char(e) = First(0) /\ Char(e + 1) = Second(0, m)
    <3>1. SeatFollowed(c, i, m, 0)
      BY <1>2, <2>4, SeatFollows, Zenon
    <3> QED
      BY <2>2, <2>3, <2>4, <2>5, <3>1, Zenon DEF SeatFollowed
  <2>7. Char(e) = Space /\ Char(e + 1) = "[" /\ Char(e) # EOF
    BY <2>6, NamedCharacters DEF First, Second, EOF
  <2>8. c.args[u] \in 0 .. UINT_MAX
    BY <1>6, ElementOfSeq
  <2>9. Field(a, c.args[u], e)
    BY <2>2, <2>3, <2>6, <2>7, <2>8, FieldIs, Zenon
  <2>10. State(f[0], Append(<< >>, c.args[u]), e + 2)
    BY <1>5, <2>3, <2>7, <2>9, OpeningRead, Zenon
  <2>11. Reached(c, i, m, 0, f[0])
    BY <1>2, <2>1, <2>7, <2>9, <2>10, FirstReached, Zenon
  <2> QED
    BY <2>11
<1>8. ASSUME NEW n \in T PROVE n + 1 \in T
  <2>1. SUFFICES ASSUME n + 1 <= m PROVE Reached(c, i, m, n + 1, f[n + 1])
    OBVIOUS
  <2>2. n \in Nat /\ n \in 0 .. m - 1 /\ n \in 0 .. m /\ n < m /\ Reached(c, i, m, n, f[n])
    BY <1>2, <2>1
  <2>3. Reached(c, i, m, n + 1, Coordinate(f[n]))
    BY <1>2, <1>3, <1>6, <2>2, SeatIs, Zenon
  <2>4. Turn(f[n]) = Coordinate(f[n])
    BY <1>2, <2>2, ReachedOpen, Zenon
  <2>5. f[n + 1] = Turn(f[n])
    BY <1>2, <1>5, <2>2
  <2> QED
    BY <2>3, <2>4, <2>5, Zenon
<1> HIDE DEF T
<1>9. T = Nat
  <2>1. T \in SUBSET Nat
    BY DEF T
  <2> QED
    BY <1>7, <1>8, <2>1, Induction
<1>10. Reached(c, i, m, m, f[m])
  <2>1. m \in T /\ m <= m
    BY <1>2, <1>9
  <2> QED
    BY <2>1 DEF T
<1>11. Turn(f[m]) = f[m]
  BY <1>10, ReachedClosed, MaxAssumption
<1>12. 0 \in U
  <2>1. m + 0 = m
    BY <1>2
  <2> QED
    BY <2>1, Zenon DEF U
<1>13. ASSUME NEW n \in U PROVE n + 1 \in U
  <2>1. SUFFICES ASSUME m + (n + 1) <= MaxSeats PROVE f[m + (n + 1)] = f[m]
    OBVIOUS
  <2>2. m + n \in Nat /\ m + n < MaxSeats /\ m + (n + 1) = (m + n) + 1 /\ f[m + n] = f[m]
    BY <1>2, <2>1
  <2> HIDE DEF U
  <2>3. f[(m + n) + 1] = Turn(f[m + n])
    BY <1>5, <2>2
  <2> QED
    BY <1>11, <2>2, <2>3, Zenon
<1> HIDE DEF U
<1>14. f[MaxSeats] = f[m]
  <2>1. U = Nat
    <3>1. U \in SUBSET Nat
      BY DEF U
    <3> QED
      BY <1>12, <1>13, <3>1, Induction
  <2>2. MaxSeats - m \in U /\ m + (MaxSeats - m) = MaxSeats
    BY <1>2, <2>1
  <2>3. PICK k \in U : m + k = MaxSeats /\ m + k <= MaxSeats
    BY <1>2, <2>2
  <2>4. f[m + k] = f[m]
    BY <2>3 DEF U
  <2> QED
    BY <2>3, <2>4
<1>15. PICK p : p = f[m]
  OBVIOUS
<1>16. p \in Parses /\ p.ok /\ Len(p.args) = 2 * m + 1 /\ \A j \in 1 .. 2 * m + 1 : p.args[j] = c.args[j]
  BY <1>10, <1>15, Zenon DEF Reached
<1>17. p.args = c.args /\ Len(p.args) # 1 + 2 * MaxSeats
  <2>1. p.args \in Seq(Int)
    BY <1>16 DEF Parses
  <2>2. Len(p.args) = Len(c.args) /\ \A j \in 1 .. Len(c.args) : p.args[j] = c.args[j]
    BY <1>1, <1>16
  <2>3. p.args = c.args
    BY <1>6, <2>1, <2>2, SeqEqual
  <2>4. 1 + 2 * m # 1 + 2 * MaxSeats
    BY <1>2
  <2> QED
    BY <1>1, <2>3, <2>4
<1>18. EndOf(c, i) = p.pos
  <2>1. Char(p.pos) \in {Char(p.pos)}
    OBVIOUS
  <2> QED
    BY <1>2, <1>10, <1>15, <2>1, ListRead, Zenon
<1>19. State(p, c.args, p.pos)
  BY <1>16, <1>17, Zenon DEF State
<1>20. State(Literal(p, {"\n"}), c.args, Past(p.pos))
  BY <1>3, <1>18, <1>19, LiteralRead, Zenon
<1>21. ParseReserve(a) = Result("RESERVE", Literal(p, {"\n"}))
  BY <1>4, <1>14, <1>15, <1>17, Zenon
<1>22. c \in [op : Ops, args : Seq(Int)]
  BY <1>6
<1>23. Result(c.op, Literal(p, {"\n"})).cmd = c
  BY <1>20, <1>22, ResultIs, Zenon
<1> QED
  BY <1>21, <1>23, Zenon

\* Up to f[k] no list was closed, and every turn has read one more seat.
Ran(f, k) ==
  /\ f[k].ok /\ Len(f[k].args) = 2 * k + 1
  /\ \A n \in Nat : n < k => /\ f[n + 1] = Coordinate(f[n]) /\ f[n + 1].ok
                             /\ Char(f[n].pos - 1) # "]"
  /\ \A n \in Nat : n <= k => \A j \in 1 .. 2 * n + 1 : f[k].args[j] = f[n].args[j]

\* One turn more.
LEMMA RanOn ==
  ASSUME file \in Files, NEW f, NEW k \in Nat, Ran(f, k), f[k] \in Parses,
         Char(f[k].pos - 1) # "]", f[k + 1] = Coordinate(f[k]), f[k + 1].ok
  PROVE  Ran(f, k + 1)
<1>1. PICK x, y : f[k + 1].args = Append(Append(f[k].args, x), y)
  <2>1. Coordinate(f[k]).ok
    BY Zenon
  <2>2. \E x, y, e : State(Coordinate(f[k]), Append(Append(f[k].args, x), y), e)
    BY <2>1, CoordinateWas, Zenon
  <2> QED
    BY <2>2, Zenon DEF State
<1>2. PICK s \in Seq(Int) : s = f[k].args /\ Len(s) = 2 * k + 1
  BY DEF Ran, Parses
<1>3. PICK t : t = Append(Append(s, x), y)
  OBVIOUS
<1>4. Len(t) = 2 * k + 3 /\ \A j \in 1 .. 2 * k + 1 : t[j] = s[j]
  <2>1. Longer(Append(Append(s, x), y), s, k, x, y)
    <3>1. Len(s) = 2 * k + 1
      BY <1>2, Zenon
    <3> QED
      BY <3>1, TwoMore, Zenon
  <2> QED
    BY <1>3, <2>1, Zenon DEF Longer
<1>5. f[k + 1].args = t
  BY <1>1, <1>2, <1>3, Zenon
<1>6. Len(f[k + 1].args) = 2 * (k + 1) + 1
  <2>1. 2 * k + 3 = 2 * (k + 1) + 1
    OBVIOUS
  <2> QED
    BY <1>4, <1>5, <2>1, Zenon
<1>7. ASSUME NEW n \in Nat, n <= k + 1, NEW j \in 1 .. 2 * n + 1
      PROVE  f[k + 1].args[j] = f[n].args[j]
  <2>1. CASE n = k + 1
    BY <2>1, Zenon
  <2>2. CASE n # k + 1
    <3>1. n <= k /\ j \in 1 .. 2 * k + 1
      BY <1>7, <2>2
    <3>2. f[k].args[j] = f[n].args[j]
      BY <3>1, Zenon DEF Ran
    <3>3. t[j] = s[j]
      BY <1>4, <3>1
    <3> QED
      BY <1>2, <1>5, <3>2, <3>3, Zenon
  <2> QED
    BY <2>1, <2>2
<1>8. ASSUME NEW n \in Nat, n < k + 1
      PROVE  f[n + 1] = Coordinate(f[n]) /\ f[n + 1].ok /\ Char(f[n].pos - 1) # "]"
  <2>1. CASE n = k
    BY <2>1, Zenon
  <2>2. CASE n # k
    <3>1. n < k
      BY <1>8, <2>2
    <3> QED
      BY <3>1, Zenon DEF Ran
  <2> QED
    BY <2>1, <2>2
<1> QED
  BY <1>6, <1>7, <1>8, Zenon DEF Ran

\* Where the loop has got to after m turns that went well: the list was closed,
\* or no turn is left.
LoopEnds(f, m) ==
  \E k \in 0 .. m : Ran(f, k) /\ f[m] = f[k] /\ (k < m => Char(f[k].pos - 1) = "]")

\* It gets there.
LEMMA LoopRuns ==
  ASSUME file \in Files, NEW a \in Places, NEW m \in Nat, NEW f, Loops(f, a, m), f[m].ok
  PROVE  LoopEnds(f, m)
<1> DEFINE T == {n \in Nat : n <= m =>
             /\ f[n] \in Parses
             /\ f[n].ok => \E k \in 0 .. n :
                             /\ Ran(f, k) /\ f[n] = f[k]
                             /\ k < n => Char(f[k].pos - 1) = "]"}
<1>1. f[0] = Opening(a) /\ \A n \in Nat : n < m => f[n + 1] = Turn(f[n])
  BY LoopTurns
<1>2. 0 \in T
  <2>1. f[0] \in Parses
    BY <1>1, FromParses, NumberParses, LiteralParses DEF Opening
  <2>2. ASSUME f[0].ok PROVE Ran(f, 0)
    <3>1. PICK x : f[0].args = Append(<< >>, x)
      BY <1>1, <2>2, OpeningWas DEF State
    <3>2. Len(f[0].args) = 2 * 0 + 1
      <4>1. Len(f[0].args) = 1 /\ 2 * 0 + 1 = 1
        BY <3>1, OneNumber
      <4> QED
        BY <4>1, Zenon
    <3>3. \A n \in Nat : ~(n < 0) /\ (n <= 0 => n = 0)
      OBVIOUS
    <3> QED
      BY <2>2, <3>2, <3>3, Zenon DEF Ran
  <2>3. 0 \in 0 .. 0 /\ ~(0 < 0)
    OBVIOUS
  <2> QED
    BY <2>1, <2>2, <2>3
<1>3. ASSUME NEW n \in T PROVE n + 1 \in T
  <2>1. SUFFICES ASSUME n + 1 <= m
        PROVE  /\ f[n + 1] \in Parses
               /\ f[n + 1].ok => \E k \in 0 .. n + 1 :
                                   /\ Ran(f, k) /\ f[n + 1] = f[k]
                                   /\ k < n + 1 => Char(f[k].pos - 1) = "]"
    OBVIOUS
  <2>2. n \in Nat /\ f[n] \in Parses /\ f[n + 1] = Turn(f[n])
    BY <1>1, <2>1
  <2>3. f[n].ok => \E k \in 0 .. n : Ran(f, k) /\ f[n] = f[k] /\ (k < n => Char(f[k].pos - 1) = "]")
    BY <2>1, <2>2
  <2> HIDE DEF T
  <2>4. CASE ~f[n].ok
    BY <2>2, <2>4 DEF Turn
  <2>5. CASE f[n].ok /\ Char(f[n].pos - 1) = "]"
    <3>1. f[n + 1] = f[n]
      BY <2>2, <2>5 DEF Turn
    <3>2. PICK k \in 0 .. n : Ran(f, k) /\ f[n] = f[k]
      BY <2>3, <2>5
    <3>3. k \in 0 .. n + 1
      BY <2>2
    <3>4. Char(f[k].pos - 1) = "]" /\ f[n + 1] = f[k]
      BY <2>5, <3>1, <3>2, Zenon
    <3> QED
      BY <2>2, <3>1, <3>2, <3>3, <3>4, Zenon
  <2>6. CASE f[n].ok /\ Char(f[n].pos - 1) # "]"
    <3>1. f[n + 1] = Coordinate(f[n])
      BY <2>2, <2>6 DEF Turn
    <3>2. PICK k \in 0 .. n : Ran(f, k) /\ f[n] = f[k] /\ (k < n => Char(f[k].pos - 1) = "]")
      BY <2>3, <2>6
    <3>3. ~(k < n)
      BY <2>6, <3>2, Zenon
    <3>4. k = n
      BY <2>2, <3>3
    <3>5. f[n + 1] \in Parses
      BY <2>2, <3>1, CoordinateParses
    <3>6. f[n + 1].ok => Ran(f, n + 1)
      BY <2>2, <2>6, <3>1, <3>2, <3>4, RanOn, Zenon
    <3>7. n + 1 \in 0 .. n + 1 /\ ~(n + 1 < n + 1)
      BY <2>2
    <3> QED
      BY <3>5, <3>6, <3>7, Zenon
  <2> QED
    BY <2>4, <2>5, <2>6
<1> HIDE DEF T
<1>4. T = Nat
  <2>1. T \in SUBSET Nat
    BY DEF T
  <2> QED
    BY <1>2, <1>3, <2>1, Induction
<1>5. m \in T /\ m <= m
  BY <1>4
<1> QED
  BY <1>5, Zenon DEF T, LoopEnds

\* RESERVE is read from its line.
LEMMA ReserveWas ==
  ASSUME file \in Files, NEW i \in Places, Here(ReserveWord, i), NEW a \in Places,
         a = i + Len(ReserveWord), ParseReserve(a).cmd # Invalid
  PROVE  Whole(ParseReserve(a), i)
<1>1. PICK f : /\ Loops(f, a, MaxSeats)
               /\ ParseReserve(a) =
                     IF f[MaxSeats].ok /\ Len(f[MaxSeats].args) = 1 + 2 * MaxSeats
                     THEN Reject(f[MaxSeats].pos)
                     ELSE Result("RESERVE", Literal(f[MaxSeats], {"\n"}))
  BY ReserveLoop
<1>2. MaxSeats \in Nat
  BY MaxAssumption
<1>3. f[0] = Opening(a) /\ \A n \in Nat : n < MaxSeats => f[n + 1] = Turn(f[n])
  BY <1>1, <1>2, LoopTurns
<1>4. PICK list \in Parses : list = f[MaxSeats]
  BY <1>1, <1>2, LoopSeats
<1>5. PICK r : r = ParseReserve(a)
  OBVIOUS
<1>6. \A n : Reject(n).cmd = Invalid
  BY DEF Reject
<1>7. /\ ~(list.ok /\ Len(list.args) = 1 + 2 * MaxSeats)
      /\ r = Result("RESERVE", Literal(list, {"\n"})) /\ r.cmd # Invalid
  BY <1>1, <1>4, <1>5, <1>6, Zenon
<1>8. PICK c : c = r.cmd
  OBVIOUS
<1>9. /\ Literal(list, {"\n"}).ok /\ r.pos = Literal(list, {"\n"}).pos
      /\ c.op = "RESERVE" /\ c.args = Literal(list, {"\n"}).args
  BY <1>7, <1>8, ResultWas
<1>10. list.ok /\ Char(list.pos) \in {"\n"} /\ State(Literal(list, {"\n"}), list.args, Past(list.pos))
  BY <1>9, LiteralWas, Zenon
<1>11. c.args = list.args /\ r.pos = Past(list.pos)
  BY <1>9, <1>10, Zenon DEF State
<1>12. PICK m \in 0 .. MaxSeats :
         Ran(f, m) /\ list = f[m] /\ (m < MaxSeats => Char(f[m].pos - 1) = "]")
  <2>1. f[MaxSeats].ok
    BY <1>4, <1>10, Zenon
  <2>2. LoopEnds(f, MaxSeats)
    BY <1>1, <1>2, <2>1, LoopRuns, Zenon
  <2> QED
    BY <1>4, <2>2, Zenon DEF LoopEnds
<1>13. Len(c.args) = 2 * m + 1 /\ m \in Nat
  <2>1. Len(f[m].args) = 2 * m + 1
    BY <1>12, Zenon DEF Ran
  <2>2. m \in Nat
    BY <1>2
  <2> QED
    BY <1>11, <1>12, <2>1, <2>2, Zenon
<1>14. m < MaxSeats
  <2>1. SUFFICES ASSUME m = MaxSeats PROVE FALSE
    BY <1>2
  <2>2. Len(c.args) # 1 + 2 * MaxSeats
    BY <1>7, <1>10, <1>11, Zenon
  <2> QED
    BY <1>13, <2>1, <2>2
<1>15. Char(f[m].pos - 1) = "]"
  BY <1>12, <1>14
<1>16. m # 0
  <2>1. SUFFICES ASSUME m = 0 PROVE FALSE
    OBVIOUS
  <2>2. Opening(a).ok
    BY <1>3, <1>4, <1>10, <1>12, <2>1, Zenon
  <2>3. PICK e : e \in Nat /\ Char(e + 1) = "[" /\ Opening(a).pos = e + 2
    BY <2>2, OpeningWas DEF Field, State
  <2>4. Opening(a).pos - 1 = e + 1
    BY <2>3
  <2>5. Char(Opening(a).pos - 1) = "]"
    BY <1>3, <1>15, <2>1, Zenon
  <2> QED
    BY <2>3, <2>4, <2>5
<1>17. Keyed(c, ReserveWord, i, a)
  <2>1. Len(c.args) \in Nat
    BY <1>13
  <2> QED
    BY <1>9, <2>1 DEF Keyed, Keyword, Words, CreateWord, ReserveWord, ShowWord, WaitWord
<1>18. List(c, i, a, m)
  <2>1. Len(c.args) = 1 + 2 * m
    BY <1>13
  <2> QED
    BY <1>9, <1>13, <1>16, <1>17, <2>1 DEF List
<1>19. \A n \in Nat : n <= m => \A j \in 1 .. 2 * n + 1 : f[n].args[j] = c.args[j]
  BY <1>11, <1>12, Zenon DEF Ran
<1> DEFINE T == {n \in Nat : n <= m => Reached(c, i, m, n, f[n])}
<1>20. 0 \in T
  <2>1. f[1] = Coordinate(f[0]) /\ f[1].ok
    <3>1. 0 \in Nat /\ 0 < m /\ 0 + 1 = 1
      BY <1>13, <1>16
    <3> QED
      BY <1>12, <3>1, Zenon DEF Ran
  <2>2. Opening(a) \in Parses
    BY FromParses, NumberParses, LiteralParses DEF Opening
  <2>3. Opening(a).ok
    BY <1>3, <2>1, <2>2, CoordinateWas, Zenon
  <2>4. PICK x, e : /\ Field(a, x, e) /\ Char(e) = Space /\ Char(e + 1) = "["
                    /\ State(Opening(a), Append(<< >>, x), e + 2)
    BY <2>3, OpeningWas
  <2>5. x = c.args[1]
    <3>1. Opening(a).args = Append(<< >>, x)
      BY <2>4, Zenon DEF State
    <3>2. f[0].args[1] = x
      BY <1>3, <3>1, OneNumber
    <3>3. 0 \in Nat /\ 0 <= m /\ 1 \in 1 .. 2 * 0 + 1
      BY <1>13
    <3>4. f[0].args[1] = c.args[1]
      BY <1>19, <3>3, Zenon
    <3> QED
      BY <3>2, <3>4, Zenon
  <2>6. Reached(c, i, m, 0, f[0])
    BY <1>3, <1>18, <2>4, <2>5, FirstReached, Zenon
  <2> QED
    BY <2>6
<1>21. ASSUME NEW n \in T PROVE n + 1 \in T
  <2>1. SUFFICES ASSUME n + 1 <= m PROVE Reached(c, i, m, n + 1, f[n + 1])
    OBVIOUS
  <2>2. n \in Nat /\ n \in 0 .. m - 1 /\ n < m /\ Reached(c, i, m, n, f[n])
    BY <1>13, <2>1
  <2> HIDE DEF T
  <2>3. f[n + 1] = Coordinate(f[n]) /\ f[n + 1].ok
    BY <1>12, <2>2, Zenon DEF Ran
  <2>4. \A j \in 1 .. 2 * (n + 1) + 1 : f[n + 1].args[j] = c.args[j]
    BY <1>19, <2>1, <2>2
  <2>5. Char(f[n + 1].pos - 1) = "]" <=> n + 1 = m
    <3>1. CASE n + 1 = m
      BY <1>15, <3>1, Zenon
    <3>2. CASE n + 1 # m
      <4>1. n + 1 \in Nat /\ n + 1 < m
        BY <1>13, <2>1, <2>2, <3>2
      <4>2. Char(f[n + 1].pos - 1) # "]"
        BY <1>12, <4>1, Zenon DEF Ran
      <4> QED
        BY <3>2, <4>2
    <3> QED
      BY <3>1, <3>2
  <2> QED
    BY <1>18, <2>2, <2>3, <2>4, <2>5, SeatWas, Zenon
<1> HIDE DEF T
<1>22. T = Nat
  <2>1. T \in SUBSET Nat
    BY DEF T
  <2> QED
    BY <1>20, <1>21, <2>1, Induction
<1>23. Reached(c, i, m, m, list)
  <2>1. m \in T /\ m <= m
    BY <1>13, <1>22
  <2> QED
    BY <1>12, <2>1 DEF T
<1>24. Char(list.pos) \in LineEnd
  BY <1>10 DEF LineEnd
<1>25. EndOf(c, i) = list.pos /\ ReadsAs(c, i, LineEnd)
  BY <1>18, <1>23, <1>24, ListRead, Zenon
<1>26. r.pos = Cleanup(i)
  BY <1>11, <1>17, <1>25, WholeLine, Zenon
<1>27. Known(c) /\ EndsOf(c.op) = LineEnd
  <2>1. Len(c.args) = 1 + 2 * m /\ m \in 1 .. MaxSeats - 1
    BY <1>2, <1>13, <1>14, <1>16
  <2> QED
    BY <1>9, <2>1 DEF Known, Counts, Ops, EndsOf
<1> QED
  BY <1>5, <1>8, <1>25, <1>26, <1>27, Zenon DEF Whole

----------------------------------------------------------------------------
(* The reader and the lines.                                               *)

\* Nothing that is said of a line changes with what is read.
LEMMA LinesStay ==
  ASSUME file' = file, part' = part
  PROVE  /\ \A i : Cleanup(i)' = Cleanup(i)
         /\ \A c : (Known(c)' <=> Known(c)) /\ (Full(c)' <=> Full(c))
         /\ \A c, i, ends : /\ ReadsAs(c, i, ends)' <=> ReadsAs(c, i, ends)
                            /\ Spells(c, i, ends)' <=> Spells(c, i, ends)
<1>1. ASSUME NEW i PROVE Cleanup(i)' = Cleanup(i)
  BY DEF Cleanup, Size, Char
<1>2. ASSUME NEW c PROVE (Known(c)' <=> Known(c)) /\ (Full(c)' <=> Full(c))
  BY DEF Known, Counts, Full
<1>3. ASSUME NEW c, NEW i, NEW ends
      PROVE  /\ ReadsAs(c, i, ends)' <=> ReadsAs(c, i, ends)
             /\ Spells(c, i, ends)' <=> Spells(c, i, ends)
  <2>1. ReadsAs(c, i, ends)' <=> ReadsAs(c, i, ends)
    BY DEF ReadsAs, Starts, Size, Char, DigitsEnd, Decimal
  <2>2. HasDigits(c, i)' <=> HasDigits(c, i)
    BY DEF HasDigits, Starts, Size, Char, DigitsEnd
  <2> QED
    BY <2>1, <2>2 DEF Spells
<1> QED
  BY <1>1, <1>2, <1>3

\* A command that get_next reads is on the line, and it takes the line whole.
LEMMA NextWhole ==
  ASSUME file \in Files, part \in {1, 2}, NEW i \in Places, i <= Size,
         GetNext(i).cmd \notin {Invalid, Empty}, Sound(GetNext(i).cmd)
  PROVE  Whole(GetNext(i), i)
<1>1. PICK w \in PartWords : Here(w, i) /\ GetNext(i) = Arguments(w, i + Len(w))
  BY NextWas
<1>2. PICK a : a = i + Len(w)
  OBVIOUS
<1>3. PICK r : r = GetNext(i)
  OBVIOUS
<1>4. r = Arguments(w, a) /\ r.cmd # Invalid /\ Sound(r.cmd)
  BY <1>1, <1>2, <1>3, Zenon
<1>5. w \in Words /\ a \in Places
  <2>1. w \in Words
    BY DEF PartWords
  <2> QED
    BY <1>1, <1>2, <2>1, KeywordText DEF Clean
<1>6. CASE w = CreateWord
  <2>1. Arguments(w, a) = ParseCreate(a)
    BY <1>6 DEF Arguments, CreateWord, ReserveWord, ShowWord, WaitWord
  <2> QED
    BY <1>1, <1>2, <1>3, <1>4, <1>5, <1>6, <2>1, CreateWas, Zenon
<1>7. CASE w = ReserveWord
  <2>1. Arguments(w, a) = ParseReserve(a)
    BY <1>7 DEF Arguments, CreateWord, ReserveWord, ShowWord, WaitWord
  <2> QED
    BY <1>1, <1>2, <1>3, <1>4, <1>5, <1>7, <2>1, ReserveWas, Zenon
<1>8. CASE w = ShowWord
  <2>1. Arguments(w, a) = ParseShow(a)
    BY <1>8 DEF Arguments, CreateWord, ReserveWord, ShowWord, WaitWord
  <2> QED
    BY <1>1, <1>2, <1>3, <1>4, <1>5, <1>8, <2>1, ShowWas, Zenon
<1>9. CASE w = WaitWord
  <2>1. Arguments(w, a) = ParseWait(a)
    BY <1>9 DEF Arguments, CreateWord, ReserveWord, ShowWord, WaitWord
  <2> QED
    BY <1>1, <1>2, <1>3, <1>4, <1>5, <1>9, <2>1, WaitWas, Zenon
<1>10. CASE w \in {"LIST", "HELP", "BARRIER"}
  <2>1. Arguments(w, a) = Result(w, Literal(From(a), LineEnd))
    BY <1>10 DEF Arguments, CreateWord, ReserveWord, ShowWord, WaitWord
  <2> QED
    BY <1>1, <1>2, <1>3, <1>4, <1>5, <1>10, <2>1, WordWas, Zenon
<1> QED
  BY <1>5, <1>6, <1>7, <1>8, <1>9, <1>10 DEF Words, CreateWord, ReserveWord, ShowWord, WaitWord

\* And the command that a line reads as is the one that get_next reads, unless
\* its list of seats is full.
LEMMA NextRuns ==
  ASSUME file \in Files, part \in {1, 2}, NEW i \in Places,
         NEW c \in [op : Ops, args : Seq(0 .. UINT_MAX)], Known(c), ~Full(c),
         ReadsAs(c, i, SureEnds(c))
  PROVE  GetNext(i).cmd = c
<1>1. /\ c.op \in {"CREATE", "RESERVE", "SHOW", "LIST", "WAIT", "HELP", "BARRIER"}
      /\ part = 2 => c.op # "BARRIER"
  BY DEF Known, Ops
<1>2. PICK w \in PartWords : w = Keyword(c.op)
  BY <1>1 DEF Keyword, PartWords, Words, CreateWord, ReserveWord, ShowWord, WaitWord
<1>3. w \in Words /\ Len(c.args) \in Nat
  BY DEF PartWords
<1>4. PICK k \in Nat : k = Len(w)
  BY <1>3, StringsAssumption
<1>5. Here(w, i)
  <2>1. Starts(c, i)[1] = i + k
    BY <1>2, <1>3, <1>4, StartsAre
  <2>2. Starts(c, i)[1] <= Size + 1 /\ SubSeq(file, i, Starts(c, i)[1] - 1) = w
    BY <1>2, Zenon DEF ReadsAs
  <2>3. PICK b : b = Starts(c, i)[1]
    OBVIOUS
  <2>4. i \in Nat
    BY FileFacts
  <2>5. b = i + k /\ b <= Size + 1
    BY <2>1, <2>2, <2>3, Zenon
  <2>6. b - 1 = i + k - 1
    BY <2>4, <2>5
  <2>7. SubSeq(file, i, i + k - 1) = w
    BY <2>2, <2>3, <2>6, Zenon
  <2> QED
    BY <1>4, <2>5, <2>7, Zenon DEF Here
<1>6. PICK a : a = i + Len(w)
  OBVIOUS
<1>7. Keyed(c, w, i, a)
  BY <1>2, <1>3, <1>5, <1>6, Zenon DEF Keyed
<1>8. GetNext(i) = Arguments(w, a)
  BY <1>5, <1>6, NextIs, Zenon
<1>9. ASSUME c.op \in {"CREATE", "RESERVE", "SHOW", "WAIT"} PROVE ReadsAs(c, i, {"\n"})
  <2>1. Len(c.args) # 0
    <3>1. Len(c.args) \in Counts(c.op)
      BY DEF Known
    <3>2. CASE c.op = "RESERVE"
      <4>1. Counts(c.op) = {1 + 2 * n : n \in 1 .. MaxSeats}
        BY <3>2 DEF Counts
      <4>2. \A n \in 1 .. MaxSeats : 1 + 2 * n # 0
        BY MaxAssumption
      <4> QED
        BY <3>1, <4>1, <4>2
    <3>3. CASE c.op # "RESERVE"
      <4>1. Counts(c.op) \subseteq 1 .. 3
        BY <1>9, <3>3 DEF Counts
      <4>2. 0 \notin 1 .. 3
        OBVIOUS
      <4> QED
        BY <3>1, <4>1, <4>2, Zenon
    <3> QED
      BY <3>2, <3>3
  <2>2. c.args # << >>
    BY <2>1
  <2>3. SureEnds(c) = {"\n"}
    BY <2>2, Zenon DEF SureEnds
  <2> QED
    BY <2>3, Zenon
<1>10. CASE c.op = "CREATE"
  <2>1. w = CreateWord /\ Arguments(CreateWord, a) = ParseCreate(a)
    BY <1>2, <1>10 DEF Keyword, Arguments, CreateWord, ReserveWord, ShowWord, WaitWord
  <2> QED
    BY <1>7, <1>8, <1>10, <1>9, <2>1, CreateIs, Zenon
<1>11. CASE c.op = "RESERVE"
  <2>1. w = ReserveWord /\ Arguments(ReserveWord, a) = ParseReserve(a)
    BY <1>2, <1>11 DEF Keyword, Arguments, CreateWord, ReserveWord, ShowWord, WaitWord
  <2> QED
    BY <1>7, <1>8, <1>11, <1>9, <2>1, ReserveIs, Zenon
<1>12. CASE c.op = "SHOW"
  <2>1. w = ShowWord /\ Arguments(ShowWord, a) = ParseShow(a)
    BY <1>2, <1>12 DEF Keyword, Arguments, CreateWord, ReserveWord, ShowWord, WaitWord
  <2> QED
    BY <1>7, <1>8, <1>12, <1>9, <2>1, ShowIs, Zenon
<1>13. CASE c.op = "WAIT"
  <2>1. w = WaitWord /\ Arguments(WaitWord, a) = ParseWait(a)
    BY <1>2, <1>13 DEF Keyword, Arguments, CreateWord, ReserveWord, ShowWord, WaitWord
  <2> QED
    BY <1>7, <1>8, <1>13, <1>9, <2>1, WaitIs, Zenon
<1>14. CASE c.op \in {"LIST", "HELP", "BARRIER"}
  <2>1. w = c.op
    BY <1>2, <1>14 DEF Keyword, CreateWord, ReserveWord, ShowWord, WaitWord
  <2>2. Arguments(w, a) = Result(c.op, Literal(From(a), LineEnd))
    BY <1>14, <2>1 DEF Arguments, CreateWord, ReserveWord, ShowWord, WaitWord
  <2>3. c.args = << >>
    <3>1. Len(c.args) = 0
      BY <1>14 DEF Known, Counts
    <3> QED
      BY <3>1
  <2>4. ReadsAs(c, i, LineEnd)
    BY <2>3, Zenon DEF SureEnds
  <2> QED
    BY <1>7, <1>8, <1>14, <2>1, <2>2, <2>4, WordIs, Zenon
<1> QED
  BY <1>1, <1>10, <1>11, <1>12, <1>13, <1>14

----------------------------------------------------------------------------
(* The invariant.                                                          *)

\* The inductive invariant.
ReadInv ==
  /\ part \in {1, 2} /\ file \in Files /\ pos \in Places /\ AtLine(pos)
  /\ ran \in Seq([from : Nat, to : Nat, cmd : Commands])

\* It holds at the start,
LEMMA ReadInit == Init => ReadInv
<1> SUFFICES ASSUME Init PROVE ReadInv
  OBVIOUS
<1>1. file \in Files /\ part \in {1, 2} /\ pos = 1 /\ ran = << >>
  BY DEF Init
<1>2. Size \in Nat
  BY <1>1, FileFacts
<1>3. 1 \in Places
  BY <1>2 DEF Places
<1> QED
  BY <1>1, <1>3 DEF ReadInv, AtLine

\* and every command keeps it.
LEMMA ReadStep == ReadInv /\ [Next]_vars => ReadInv'
<1> SUFFICES ASSUME ReadInv, [Next]_vars PROVE ReadInv'
  OBVIOUS
<1>0. /\ part \in {1, 2} /\ file \in Files /\ pos \in Places /\ AtLine(pos)
      /\ ran \in Seq([from : Nat, to : Nat, cmd : Commands])
  BY DEF ReadInv
<1>1. CASE UNCHANGED vars
  <2>1. part' = part /\ file' = file /\ pos' = pos /\ ran' = ran
    BY <1>1 DEF vars
  <2> QED
    BY <1>0, <2>1 DEF ReadInv, Places, AtLine, Size, Char
<1>2. CASE Command
  <2>1. PICK cmd \in Outcomes(GetNext(pos).cmd) :
          /\ pos <= Size /\ pos' = GetNext(pos).pos /\ part' = part /\ file' = file
          /\ ran' = Append(ran, [from |-> pos, to |-> GetNext(pos).pos, cmd |-> cmd])
    BY <1>2 DEF Command
  <2>2. Read(GetNext(pos))
    BY <1>0, <2>1, NextReads
  <2>3. pos' \in Places /\ AtLine(pos') /\ GetNext(pos).pos \in Nat /\ pos \in Nat
    BY <1>0, <2>1, <2>2, FileFacts DEF Read
  <2>4. pos' \in Places' /\ AtLine(pos)'
    BY <2>1, <2>3, Zenon DEF Places, AtLine, Size, Char
  <2>5. cmd \in Commands
    BY <2>2, NoArguments DEF Outcomes, Read
  <2>6. [from |-> pos, to |-> GetNext(pos).pos, cmd |-> cmd] \in [from : Nat, to : Nat, cmd : Commands]
    BY <2>3, <2>5
  <2>7. ran' \in Seq([from : Nat, to : Nat, cmd : Commands])
    BY <1>0, <2>1, <2>6, AppendProperties
  <2>8. Commands' = Commands
    BY DEF Commands
  <2> QED
    BY <1>0, <2>1, <2>4, <2>7, <2>8 DEF ReadInv
<1> QED
  BY <1>1, <1>2 DEF Next

\* Every reachable state satisfies it.
THEOREM ReadInvariant == Spec => []ReadInv
BY ReadInit, ReadStep, PTL DEF Spec

\* The reader stays in the file, and no command has arguments that its
\* operation does not expect: a RESERVE never has more seats than xs and ys have
\* room for (parse_reserve).
THEOREM TypeCorrect == Spec => []TypeOK
<1>1. ReadInv => TypeOK
  <2> SUFFICES ASSUME ReadInv PROVE TypeOK
    OBVIOUS
  <2>1. part \in {1, 2} /\ pos \in 1 .. Size + 1
    BY DEF ReadInv, Places
  <2>2. ASSUME NEW j \in 1 .. Len(ran)
        PROVE  /\ ran[j].cmd.op \in Ops
               /\ \A n \in DOMAIN ran[j].cmd.args : ran[j].cmd.args[n] \in Undefined .. UINT_MAX
               /\ ran[j].cmd.op = "RESERVE" =>
                    Len(ran[j].cmd.args) \in {1 + 2 * n : n \in 1 .. MaxSeats}
    <3>1. ran[j] \in [from : Nat, to : Nat, cmd : Commands]
      <4>1. ran \in Seq([from : Nat, to : Nat, cmd : Commands])
        BY DEF ReadInv
      <4> QED
        BY <4>1, ElementOfSeq
    <3>2. PICK c \in Commands : c = ran[j].cmd
      BY <3>1
    <3>3. c.op \in Ops /\ c.args \in Seq(Numbers) /\ (c.op = "RESERVE" => Len(c.args) \in SeatCounts)
      BY DEF Commands
    <3>4. \A n \in DOMAIN c.args : c.args[n] \in Numbers
      BY <3>3
    <3> QED
      BY <3>2, <3>3, <3>4 DEF Numbers, SeatCounts
  <2> QED
    BY <2>1, <2>2 DEF TypeOK
<1> QED
  BY <1>1, ReadInvariant, PTL

\* Whatever get_next has read, right or wrong, the next command is read from the
\* start of a line (cleanup).
THEOREM LinesAreKept == Spec => []LineStart
<1>1. ReadInv => LineStart
  BY DEF ReadInv, AtLine, LineStart
<1> QED
  BY <1>1, ReadInvariant, PTL

\* What RunFromOneLine and CorrectLinesRun say of one entry of ran.
RowFromOneLine(row) ==
  row.cmd \notin {Invalid, Empty} /\ Sound(row.cmd) =>
    /\ row.to = Cleanup(row.from)
    /\ Known(row.cmd) /\ ReadsAs(row.cmd, row.from, EndsOf(row.cmd.op))
RowRuns(row) ==
  \A c \in Cmds : Known(c) /\ ~Full(c) /\ Spells(c, row.from, SureEnds(c)) => row.cmd = c

\* The properties say that of each entry.
LEMMA RowsAre ==
  /\ RunFromOneLine <=> \A j \in 1 .. Len(ran) : RowFromOneLine(ran[j])
  /\ CorrectLinesRun <=> \A j \in 1 .. Len(ran) : RowRuns(ran[j])
BY Zenon DEF RunFromOneLine, CorrectLinesRun, RowFromOneLine, RowRuns, Sound, EndsOf, Space

\* What is said of an entry stays true of it,
LEMMA RowsStay ==
  ASSUME file' = file, part' = part, NEW row
  PROVE  (RowFromOneLine(row)' <=> RowFromOneLine(row)) /\ (RowRuns(row)' <=> RowRuns(row))
<1>1. /\ \A i : Cleanup(i)' = Cleanup(i)
      /\ \A c : (Known(c)' <=> Known(c)) /\ (Full(c)' <=> Full(c))
      /\ \A c, i, ends : /\ ReadsAs(c, i, ends)' <=> ReadsAs(c, i, ends)
                         /\ Spells(c, i, ends)' <=> Spells(c, i, ends)
  BY LinesStay
<1>2. \A op : EndsOf(op)' = EndsOf(op)
  BY DEF EndsOf
<1>3. RowFromOneLine(row)' <=> RowFromOneLine(row)
  BY <1>1, <1>2 DEF RowFromOneLine
<1>4. RowRuns(row)' <=> RowRuns(row)
  BY <1>1 DEF RowRuns
<1> QED
  BY <1>3, <1>4

\* and is true of the entry of a command when it is read.
LEMMA NewRow ==
  ASSUME file \in Files, part \in {1, 2}, pos \in Places, pos <= Size,
         NEW cmd \in Outcomes(GetNext(pos).cmd), NEW row,
         row = [from |-> pos, to |-> GetNext(pos).pos, cmd |-> cmd]
  PROVE  RowFromOneLine(row) /\ RowRuns(row)
<1>1. row.from = pos /\ row.to = GetNext(pos).pos /\ row.cmd = cmd
  OBVIOUS
<1>2. RowFromOneLine(row)
  <2>1. SUFFICES ASSUME cmd \notin {Invalid, Empty}, Sound(cmd)
                 PROVE  /\ GetNext(pos).pos = Cleanup(pos)
                        /\ Known(cmd) /\ ReadsAs(cmd, pos, EndsOf(cmd.op))
    BY <1>1, Zenon DEF RowFromOneLine
  <2>2. cmd = GetNext(pos).cmd
    BY <2>1 DEF Outcomes
  <2>3. Whole(GetNext(pos), pos)
    BY <2>1, <2>2, NextWhole, Zenon
  <2> QED
    BY <2>2, <2>3, Zenon DEF Whole
<1>3. ASSUME NEW c \in Cmds, Known(c), ~Full(c), Spells(c, pos, SureEnds(c)) PROVE cmd = c
  <2>1. c \in [op : Ops, args : Seq(0 .. UINT_MAX)]
    BY CmdsAssumption
  <2>2. GetNext(pos).cmd = c
    <3>1. ReadsAs(c, pos, SureEnds(c))
      BY <1>3 DEF Spells
    <3> QED
      BY <1>3, <2>1, <3>1, NextRuns, Zenon
  <2>3. \A n \in DOMAIN c.args : c.args[n] # Undefined
    <3>1. c.args \in Seq(0 .. UINT_MAX)
      BY <2>1
    <3>2. \A n \in DOMAIN c.args : c.args[n] \in 0 .. UINT_MAX
      <4>1. PICK s \in Seq(0 .. UINT_MAX) : s = c.args
        BY <3>1
      <4>2. \A n \in DOMAIN s : s[n] \in 0 .. UINT_MAX
        BY LenProperties, ElementOfSeq, Zenon
      <4> QED
        BY <4>1, <4>2, Zenon
    <3>3. Undefined \notin 0 .. UINT_MAX
      BY DEF Undefined
    <3> QED
      BY <3>2, <3>3, Zenon
  <2> QED
    BY <2>2, <2>3 DEF Outcomes
<1>4. RowRuns(row)
  BY <1>1, <1>3, Zenon DEF RowRuns
<1> QED
  BY <1>2, <1>4

\* Every entry of ran is one the reader has made.
RowsInv == \A j \in 1 .. Len(ran) : RowFromOneLine(ran[j]) /\ RowRuns(ran[j])

\* No step makes one it is not true of.
LEMMA RowsStep == ReadInv /\ RowsInv /\ [Next]_vars => RowsInv'
<1> SUFFICES ASSUME ReadInv, RowsInv, [Next]_vars PROVE RowsInv'
  OBVIOUS
<1>0. /\ part \in {1, 2} /\ file \in Files /\ pos \in Places
      /\ ran \in Seq([from : Nat, to : Nat, cmd : Commands])
  BY DEF ReadInv
<1>1. file' = file /\ part' = part
  BY DEF vars, Next, Command
<1>2. \A row : (RowFromOneLine(row)' <=> RowFromOneLine(row)) /\ (RowRuns(row)' <=> RowRuns(row))
  BY <1>1, RowsStay
<1>3. CASE UNCHANGED vars
  <2>1. ran' = ran
    BY <1>3 DEF vars
  <2>2. \A j \in 1 .. Len(ran) : RowFromOneLine(ran[j])' /\ RowRuns(ran[j])'
    BY <1>2, <2>1, Zenon DEF RowsInv
  <2> QED
    BY <2>1, <2>2, Zenon DEF RowsInv
<1>4. CASE Command
  <2>1. PICK cmd \in Outcomes(GetNext(pos).cmd) :
          /\ pos <= Size
          /\ ran' = Append(ran, [from |-> pos, to |-> GetNext(pos).pos, cmd |-> cmd])
    BY <1>4 DEF Command
  <2>2. PICK row : row = [from |-> pos, to |-> GetNext(pos).pos, cmd |-> cmd]
    OBVIOUS
  <2>3. RowFromOneLine(row) /\ RowRuns(row)
    BY <1>0, <2>1, <2>2, NewRow, Zenon
  <2>4. PICK new : new = ran'
    OBVIOUS
  <2>5. ASSUME NEW j \in 1 .. Len(new)
        PROVE  RowFromOneLine(new[j]) /\ RowRuns(new[j])
    <3>1. new = Append(ran, row)
      BY <2>1, <2>2, <2>4, Zenon
    <3>2. (j \in 1 .. Len(ran) /\ new[j] = ran[j]) \/ new[j] = row
      BY <1>0, <3>1
    <3> QED
      BY <2>3, <3>2, Zenon DEF RowsInv
  <2>6. \A j \in 1 .. Len(new) : RowFromOneLine(new[j])' /\ RowRuns(new[j])'
    BY <1>2, <2>5, Zenon
  <2> QED
    BY <2>4, <2>6 DEF RowsInv
<1> QED
  BY <1>3, <1>4 DEF Next

\* So it is true of all that are ever made.
LEMMA RowsInvariant == Spec => []RowsInv
<1>1. Init => RowsInv
  <2> SUFFICES ASSUME Init PROVE RowsInv
    OBVIOUS
  <2>1. ran = << >>
    BY DEF Init
  <2>2. \A j \in 1 .. Len(ran) : FALSE
    BY <2>1
  <2> QED
    BY <2>2, Zenon DEF RowsInv
<1> QED
  BY <1>1, ReadInvariant, RowsStep, PTL DEF Spec

\* No command is put together from two lines or from a part of one: what is run
\* is written, keyword, numbers and separators, on the line the reader stood at,
\* and that line is what it took (get_next and the parse_* functions).
THEOREM CommandsRunFromOneLine == Spec => []RunFromOneLine
<1>1. RowsInv => RunFromOneLine
  BY RowsAre DEF RowsInv
<1> QED
  BY <1>1, RowsInvariant, PTL

\* Whatever was in the lines before it, a correct line that the reader comes to
\* is read as the command it writes (get_next and the parse_* functions).
THEOREM CorrectLinesAreRun == Spec => []CorrectLinesRun
<1>1. RowsInv => CorrectLinesRun
  BY RowsAre DEF RowsInv
<1> QED
  BY <1>1, RowsInvariant, PTL

=============================================================================
