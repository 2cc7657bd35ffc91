------------------------------- MODULE Stream -------------------------------
(***************************************************************************)
(* SdFat's file streams: numbers, words and lines are written to a file    *)
(* through ostream and taken from it through istream, in text mode, in     *)
(* which a newline is CR LF on the card, or binary. The card may get full  *)
(* while something is written, and a block may be unreadable.              *)
(*                                                                         *)
(* Characters are strings of length 1; the case of letters is left out.    *)
(***************************************************************************)
EXTENDS Integers, Sequences
LOCAL INSTANCE SequencesExt
LOCAL INSTANCE FiniteSetsExt

CONSTANTS Texts,         \* what a file may hold that somebody else wrote
          Delims,        \* delimiters of a line
          Sizes,         \* sizes of a line's buffer
          Numbers,       \* what is written
          Word,          \* 2^32
          PosMax,        \* the greatest number of a signed type
          Widths, Fills, \* the field of a number
          MaxTaken       \* bounds how often the stream is read in the model

ASSUME StreamAssumption ==
    /\ {Word, PosMax} \subseteq Nat \ {0} /\ 2 * (PosMax + 1) <= Word
    /\ Sizes \cup Widths \subseteq Nat /\ MaxTaken \in Nat
    /\ Numbers \subseteq -(PosMax + 1) .. PosMax

CR == "\r"
LF == "\n"
EOF == "EOF"
Spaces == {" ", CR, LF}

VARIABLES file, readable,    \* the bytes of the file, and how many can be read
          binary,            \* mode
          iostate,           \* "eof", "fail", "bad"
          pos, gcount,
          put,               \* what was written last: a value and its format
          got,               \* what the last call has taken
          taken              \* counts them

streamVars == <<file, readable, binary, iostate, pos, gcount, put, got, taken>>

\* showpos is for decimal numbers, showbase for the others.
Formats == {f \in [base : {8, 10, 16}, showbase : BOOLEAN, showpos : BOOLEAN,
                   adjust : {"left", "right", "internal"}, width : Widths, fill : Fills] :
              IF f.base = 10 THEN ~f.showbase ELSE ~f.showpos}
NoPut == [kind |-> "none"]
NoGot == [op |-> "none"]

-----------------------------------------------------------------------------
\* ostream

Digits == <<"0", "1", "2", "3", "4", "5", "6", "7", "8", "9", "a", "b", "c", "d", "e", "f">>

RECURSIVE FmtNum(_, _)
FmtNum(n, base) ==
    (IF n < base THEN <<>> ELSE FmtNum(n \div base, base)) \o <<Digits[(n % base) + 1]>>

Padding(f, len) == [i \in 1 .. (IF f.width > len THEN f.width - len ELSE 0) |-> f.fill]

\* putNum: sign or base, then the digits. Only decimal numbers are negative.
Sign(n, f) ==
    IF f.base = 10 THEN IF n < 0 THEN <<"-">> ELSE IF f.showpos THEN <<"+">> ELSE <<>>
    ELSE IF f.showbase THEN IF f.base = 16 THEN <<"0", "x">> ELSE <<"0">> ELSE <<>>
FaultyPutNum(n, f) ==        \* pads before the sign also when it should be inside
    LET digits == FmtNum(IF f.base = 10 /\ n < 0 THEN -n ELSE n % Word, f.base)
        sign   == Sign(n, f)
        pad    == Padding(f, Len(sign) + Len(digits))
    IN  IF f.adjust = "left" THEN sign \o digits \o pad ELSE pad \o sign \o digits
PutNum(n, f) ==
    LET digits == FmtNum(IF f.base = 10 /\ n < 0 THEN -n ELSE n % Word, f.base)
        sign   == Sign(n, f)
        pad    == Padding(f, Len(sign) + Len(digits))
    IN  CASE f.adjust = "internal" -> sign \o pad \o digits
          [] f.adjust = "right"    -> pad \o sign \o digits
          [] f.adjust = "left"     -> sign \o digits \o pad

Words == [t |-> <<"t", "r", "u", "e">>, f |-> <<"f", "a", "l", "s", "e">>]
PutBool(b) == IF b THEN Words.t ELSE Words.f

\* putch and putstr of SdStreamBase
AsBytes(chars) ==
    FlattenSeq([i \in 1 .. Len(chars) |-> IF chars[i] = LF /\ ~binary THEN <<CR, LF>> ELSE <<chars[i]>>])

\* The card may be full before the last byte.
Out(chars, what) ==
    /\ got = NoGot
    /\ \/ file' = file \o AsBytes(chars) /\ put' = what /\ UNCHANGED iostate
       \/ \E k \in 0 .. Len(AsBytes(chars)) - 1 :
            /\ file' = file \o SubSeq(AsBytes(chars), 1, k)
            /\ put' = [what EXCEPT !.whole = FALSE] /\ iostate' = iostate \cup {"bad"}
    /\ readable' = Len(file')
    /\ UNCHANGED <<binary, pos, gcount, got>>

Begin(kind, chars, value, f) ==
    /\ put = NoPut /\ file = <<>> /\ taken < MaxTaken /\ taken' = taken + 1
    /\ Out(chars, [kind |-> kind, value |-> value, format |-> f, whole |-> TRUE, ended |-> FALSE])

WriteNumber(n, f) == Begin("number", PutNum(n, f), n, f)
WriteBool(b) == Begin("bool", PutBool(b), b, 0)
WriteText(chars) == Begin("text", chars, chars, 0)

\* Something follows what was written.
WriteEnd(c) ==
    /\ put # NoPut /\ put.whole /\ ~put.ended /\ put.kind # "text"
    /\ Out(<<c>>, [put EXCEPT !.ended = TRUE])
    /\ UNCHANGED taken

-----------------------------------------------------------------------------
\* istream. A call works on the stream's state and what it collects.

Start == [pos |-> pos, iostate |-> iostate, c |-> EOF, at |-> pos,
          str |-> <<>>, n |-> 0, val |-> 0, any |-> 0]

Failed(m) == [m EXCEPT !.iostate = @ \cup {"fail"}]

\* SdStreamBase::getch: the end of the file, or a block that cannot be read.
Getch(m) ==
    IF m.pos >= readable
      THEN [m EXCEPT !.c = EOF, !.iostate = @ \cup {IF m.pos >= Len(file) THEN "eof" ELSE "bad"}]
    ELSE IF file[m.pos + 1] = CR /\ ~binary /\ m.pos + 1 < readable /\ file[m.pos + 2] = LF
      THEN [m EXCEPT !.c = LF, !.pos = @ + 2]
    ELSE [m EXCEPT !.c = file[m.pos + 1], !.pos = @ + 1]

\* getch(&pos) remembers the place, setpos goes back to it.
GetchAt(m) == Getch([m EXCEPT !.at = m.pos])
Setpos(m) == [m EXCEPT !.pos = m.at]

RECURSIVE ReadSkip(_, _), SkipWhiteLoop(_)
ReadSkip(m, skipws) ==
    LET next == Getch(m)
    IN  IF skipws /\ next.c \in Spaces THEN ReadSkip(next, skipws) ELSE next
SkipWhiteLoop(m) ==
    LET next == GetchAt(m) IN IF next.c \in Spaces THEN SkipWhiteLoop(next) ELSE Setpos(next)

\* The value of a digit; letters beyond f are no digits of any base.
DigitOf(c) ==
    IF \E i \in 1 .. 16 : Digits[i] = c THEN (CHOOSE i \in 1 .. 16 : Digits[i] = c) - 1 ELSE 99

\* getNumber: val grows digit by digit as long as it stays within its limit.
RECURSIVE NumberLoop(_, _, _)
NumberLoop(m, base, limit) ==
    LET d      == DigitOf(m.c)
        cutoff == limit \div base
    IN  IF d >= base THEN m
        ELSE IF m.val > cutoff \/ (m.val = cutoff /\ d > limit % base) THEN [m EXCEPT !.any = -1]
        ELSE NumberLoop(GetchAt([m EXCEPT !.val = (@ * base + d) % Word, !.any = 1]), base, limit)

GetNumber(base, signed, skipws) ==
    LET first  == ReadSkip(Start, skipws)
        neg    == first.c = "-"
        next   == IF first.c \in {"-", "+"} THEN Getch(first) ELSE first
        zero   == IF base = 16 /\ next.c = "0" THEN GetchAt(next) ELSE next
        hex    == base = 16 /\ next.c = "0" /\ zero.c = "x"
        begun  == IF hex THEN Getch(zero)
                  ELSE IF base = 16 /\ next.c = "0" THEN [zero EXCEPT !.any = 1] ELSE next
        limit  == IF signed THEN IF neg THEN PosMax + 1 ELSE PosMax ELSE Word - 1
        m      == Setpos(NumberLoop(begun, base, limit))
        value  == (IF neg THEN -m.val ELSE m.val) % Word
    IN  IF m.any > 0 \/ (hex /\ m.any >= 0)
          THEN [m EXCEPT !.val = IF signed /\ value > PosMax THEN value - Word ELSE value, !.any = 1]
        ELSE [Failed(m) EXCEPT !.any = 0]

\* getBool with boolalpha: a letter that fits neither word ends it, taken.
RECURSIVE BoolLoop(_, _)
BoolLoop(m, i) ==
    LET fits(w) == m.str = SubSeq(Words[w], 1, i) /\ i < Len(Words[w]) /\ m.c = Words[w][i + 1]
        word    == {w \in DOMAIN Words : fits(w)}
        next    == [m EXCEPT !.str = Append(@, m.c)]
    IN  IF word = {} THEN Failed(m)
        ELSE IF \E w \in word : next.str = Words[w]
          THEN [next EXCEPT !.any = 1, !.val = IF "t" \in word THEN 1 ELSE 0]
        ELSE BoolLoop(Getch(next), i + 1)

\* get(str, n, delim), which leaves the delimiter.
RECURSIVE GetLoop(_, _, _), GetlineLoop(_, _, _), IgnoreLoop(_, _, _), StrLoop(_, _)
GetLoop(m, n, delim) ==
    IF m.n + 1 >= n THEN m
    ELSE LET next == GetchAt(m) IN
         IF next.c = EOF THEN next
         ELSE IF next.c = delim THEN Setpos(next)
         ELSE GetLoop([next EXCEPT !.str = Append(@, next.c), !.n = @ + 1], n, delim)
Get(n, delim) == LET m == GetLoop(Start, n, delim) IN IF m.n = 0 THEN Failed(m) ELSE m

\* getline, which takes it.
GetlineLoop(m, n, delim) ==
    LET next == GetchAt(m) IN
    IF next.c = EOF THEN next
    ELSE IF next.c = delim THEN [next EXCEPT !.n = @ + 1]
    ELSE IF m.n + 1 >= n THEN Failed(Setpos(next))
    ELSE GetlineLoop([next EXCEPT !.str = Append(@, next.c), !.n = @ + 1], n, delim)
Getline(n, delim) == LET m == GetlineLoop(Start, n, delim) IN IF m.n = 0 THEN Failed(m) ELSE m

IgnoreLoop(m, n, delim) ==
    IF m.n >= n THEN m
    ELSE LET next == Getch(m) IN
         IF next.c = EOF THEN next
         ELSE LET one == [next EXCEPT !.str = Append(@, next.c), !.n = @ + 1]
              IN  IF next.c = delim THEN one ELSE IgnoreLoop(one, n, delim)

\* getStr: a word, which white space ends.
StrLoop(m, most) ==
    IF Len(m.str) >= most \/ m.c = EOF THEN m
    ELSE IF m.c \in Spaces THEN Setpos(m)
    ELSE StrLoop(GetchAt([m EXCEPT !.str = Append(@, m.c)]), most)
GetStr(width, skipws) ==
    LET most == IF width = 0 THEN Word ELSE width - 1
        m    == IF most = 0 THEN Start ELSE StrLoop(ReadSkip(Start, skipws), most)
    IN  IF m.str = <<>> THEN Failed(m) ELSE m

-----------------------------------------------------------------------------
StreamInit ==
    /\ file \in Texts \cup {<<>>}
    /\ readable \in {Len(file)} \cup (IF Len(file) = 0 THEN {} ELSE {Len(file) - 1})
    /\ binary \in BOOLEAN
    /\ iostate = {} /\ pos = 0 /\ gcount = 0 /\ put = NoPut /\ got = NoGot /\ taken = 0

\* A call ends; what it was asked for and has given is kept in got.
Took(op, m, ask, count) ==
    /\ taken < MaxTaken /\ taken' = taken + 1
    /\ pos' = m.pos /\ iostate' = m.iostate
    /\ gcount' = IF count THEN m.n ELSE gcount
    /\ got' = [op |-> op, from |-> pos, ask |-> ask, str |-> m.str, n |-> m.n, val |-> m.val,
               failed |-> "fail" \in m.iostate \ iostate]
    /\ UNCHANGED <<file, readable, binary, put>>

TakeNumber == \E base \in {8, 10, 16}, signed, skipws \in BOOLEAN :
    Took("number", GetNumber(base, signed, skipws), [base |-> base, signed |-> signed, skipws |-> skipws], FALSE)
TakeBool == \E skipws \in BOOLEAN : Took("bool", BoolLoop(ReadSkip(Start, skipws), 0), [skipws |-> skipws], FALSE)
TakeString == \E width \in Sizes, skipws \in BOOLEAN : Took("word", GetStr(width, skipws), [n |-> width, skipws |-> skipws], FALSE)
TakeSome == \E n \in Sizes, delim \in Delims : Took("get", Get(n, delim), [n |-> n, delim |-> delim], TRUE)
TakeLine == \E n \in Sizes, delim \in Delims : Took("getline", Getline(n, delim), [n |-> n, delim |-> delim], TRUE)
Ignore == \E n \in Sizes, delim \in Delims : Took("ignore", IgnoreLoop(Start, n, delim), [n |-> n, delim |-> delim], TRUE)
SkipWhite == Took("ws", SkipWhiteLoop(Start), NoGot, FALSE)

\* get() and >> of a character
TakeChar ==
    \E plain, skipws \in BOOLEAN :
      LET m    == IF plain THEN Getch(Start) ELSE ReadSkip(Start, skipws)
          some == m.c # EOF
      IN  Took("char", [(IF some THEN m ELSE Failed(m)) EXCEPT !.str = IF some THEN <<m.c>> ELSE <<>>,
                                                               !.n = IF some THEN 1 ELSE 0],
               [skipws |-> skipws /\ ~plain], plain)

PeekChar ==
    LET m == GetchAt(Start)
        n == IF m.c # EOF THEN Setpos(m)
             ELSE IF "bad" \in m.iostate THEN m ELSE [m EXCEPT !.iostate = @ \cup {"eof"}]
    IN  Took("peek", [n EXCEPT !.str = IF m.c = EOF THEN <<>> ELSE <<m.c>>], NoGot, TRUE)

\* seekg can always be called, so no behaviour ends at the bound.
Seek(to) ==
    /\ taken' = (IF taken < MaxTaken THEN taken + 1 ELSE taken)
    /\ IF to <= Len(file) THEN pos' = to /\ UNCHANGED iostate
       ELSE iostate' = iostate \cup {"fail"} /\ UNCHANGED pos
    /\ got' = [NoGot EXCEPT !.op = "seek"]
    /\ UNCHANGED <<file, readable, binary, gcount, put>>

ClearState == iostate # {} /\ got # NoGot /\ iostate' = {} /\ got' = [NoGot EXCEPT !.op = "clear"]
         /\ UNCHANGED <<file, readable, binary, pos, gcount, put, taken>>

StreamNext ==
    \/ \E n \in Numbers, f \in Formats : WriteNumber(n, f)
    \/ \E b \in BOOLEAN : WriteBool(b)
    \/ \E c \in Spaces : WriteEnd(c)
    \/ \E chars \in Texts : WriteText(chars)
    \/ TakeNumber \/ TakeBool \/ TakeString \/ TakeSome \/ TakeLine \/ Ignore \/ SkipWhite
    \/ TakeChar \/ PeekChar \/ \E to \in {0, 1, Len(file) + 1} : Seek(to)
    \/ ClearState

-----------------------------------------------------------------------------
\* What the bytes between two places say: of CR LF only LF.
Said(from, to) ==
    LET said == SelectSeq([k \in 1 .. to - from |-> from + k],
                          LAMBDA i : binary \/ file[i] # CR \/ i >= readable \/ file[i + 1] # LF)
    IN  [k \in 1 .. Len(said) |-> file[said[k]]]
TakenAway == Said(got.from, pos)

\* A number that was written whole, with any base, sign, width and fill, is
\* read back as it was, unless its field is filled with what splits or
\* changes it; only decimal numbers keep a minus. A bool likewise.
Splits(n, f) ==
    LET sign == Sign(n, f)
    IN  /\ f.width > Len(sign) + Len(FmtNum(IF n < 0 THEN -n ELSE n, f.base))
        /\ \/ f.fill = " " /\ f.adjust = "internal" /\ sign # <<>>
           \/ f.fill = "0" /\ f.adjust = "left"
           \/ f.fill = "0" /\ f.adjust = "right" /\ sign \notin {<<>>, <<"0">>}
Asked == [base |-> put.format.base, signed |-> TRUE, skipws |-> TRUE]
ReadsBack ==
    put # NoPut /\ put.whole /\ got # NoGot /\ taken = 2 =>
      /\ (/\ put.kind = "number" /\ got.op = "number" /\ got.ask = Asked
          /\ put.value >= 0 \/ put.format.base = 10
          /\ ~Splits(put.value, put.format)) => ~got.failed /\ got.val = put.value
      /\ put.kind = "bool" /\ got.op = "bool" => ~got.failed /\ got.val = (IF put.value THEN 1 ELSE 0)

\* What a call gives is what is gone from the stream, in text mode too; delimiters stay or
\* go as they should. One character more is gone, and lost, when >> of a word has filled
\* its width (istream.cpp:321-345): getStr takes the character behind the last one that
\* fits and does not set the place back. A line that just fills its buffer is taken with
\* its delimiter, without failbit; FullLineFails is about that.
Rest == Said(pos, readable)
NoMore == Rest = <<>>
GivenIsGone ==
    LET given == got.str
        delim == got.ask.delim
        n     == got.ask.n
    IN  CASE got.op = "get" ->
               /\ given = TakenAway /\ got.n = Len(given) /\ (got.failed => given = <<>>)
               /\ ~Contains(given, delim) /\ Len(given) < (IF n = 0 THEN 1 ELSE n)
               /\ Len(given) + 1 < n => NoMore \/ Head(Rest) = delim
          [] got.op = "getline" ->
               /\ TakenAway \in {given, Append(given, delim)} /\ got.n = Len(TakenAway)
               /\ ~Contains(given, delim) /\ Len(given) < (IF n = 0 THEN 1 ELSE n)
               /\ (TakenAway = given /\ given # <<>>) => NoMore \/ got.failed \/ "fail" \in iostate
          [] got.op = "ignore" ->
               /\ given = TakenAway /\ got.n = Len(TakenAway) /\ Len(TakenAway) <= n
               /\ Contains(TakenAway, delim) => TakenAway[Len(TakenAway)] = delim
               /\ Len(TakenAway) < n /\ ~Contains(TakenAway, delim) => NoMore
          [] got.op = "peek" -> TakenAway = <<>> /\ (given # <<>> => given = <<Head(Rest)>>)
          [] got.op = "ws" -> ToSet(TakenAway) \subseteq Spaces /\ (NoMore \/ Head(Rest) \notin Spaces)
          [] got.op \in {"word", "char"} ->
               LET lost == IF got.op = "word" /\ n > 1 /\ Len(given) = n - 1 THEN 1 ELSE 0
                   told == SubSeq(TakenAway, 1, Len(TakenAway) - lost)
               IN  \E all \in {told, TakenAway} :
                     /\ IsSuffix(given, all) /\ (given = <<>> => "fail" \in iostate)
                     /\ given # <<>> => ~got.failed
                     /\ ToSet(SubSeq(all, 1, Len(all) - Len(given))) \subseteq (IF got.ask.skipws THEN Spaces ELSE {})
          [] OTHER -> TRUE


\* A number is the longest run of digits behind white space, sign and 0x; if
\* it does not fit its type, nothing is given and the stream stands at the
\* digit that was too much.
NumberRight ==
    got.op = "number" =>
      LET text     == Said(got.from, readable)
          at(i)    == IF i <= Len(text) THEN text[i] ELSE EOF
          run(k, S) == CHOOSE j \in 0 .. Len(text) - k :
                         (\A i \in 1 .. j : text[k + i] \in S) /\ at(k + j + 1) \notin S
          base     == got.ask.base
          sign     == IF got.ask.skipws THEN run(0, Spaces) ELSE 0
          first    == sign + (IF at(sign + 1) \in {"-", "+"} THEN 1 ELSE 0)
          neg      == at(sign + 1) = "-"
          hex      == base = 16 /\ at(first + 1) = "0" /\ at(first + 2) = "x"
          skipped  == first + (IF hex THEN 2 ELSE 0)
          digits   == run(skipped, {Digits[i] : i \in 1 .. base})
          value[k \in 0 .. digits] == IF k = 0 THEN 0 ELSE value[k - 1] * base + DigitOf(text[skipped + k])
          limit    == IF ~got.ask.signed THEN Word - 1 ELSE IF neg THEN PosMax + 1 ELSE PosMax
          fitting  == Max({k \in 0 .. digits : value[k] <= limit})
          number   == IF neg THEN -value[digits] ELSE value[digits]
      IN  IF fitting < digits THEN "fail" \in iostate /\ Len(TakenAway) = skipped + fitting
          ELSE IF digits > 0 \/ hex
            THEN /\ ~got.failed /\ got.val = (IF got.ask.signed THEN number ELSE number % Word)
                 /\ Len(TakenAway) = (IF digits > 0 THEN skipped + digits ELSE first + 1)
          ELSE "fail" \in iostate /\ TakenAway = <<>>

\* What was written in text mode is on the card so that it reads the same.
TextKept ==
    /\ iostate \subseteq {"eof", "fail", "bad"} /\ readable \in 0 .. Len(file) /\ pos \in 0 .. Len(file)
    /\ put # NoPut /\ put.kind = "text" /\ put.whole => Said(0, Len(file)) = put.value

\* What the streams promise: a number, a bool or a text that was written whole
\* is read as it was; every call gives what it takes from the stream, but for the
\* character behind a word that fills its width, and leaves the rest, in text mode too;
\* and a number is taken to its last digit or refused, whatever its width. The steps between the two calls, the card
\* that gets full and the block that cannot be read are what makes it hard.
StreamKept == ReadsBack /\ GivenIsGone /\ NumberRight /\ TextKept

=============================================================================
