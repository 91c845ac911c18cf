-------------------------------- MODULE LuaLexer -------------------------------
(***************************************************************************)
(* The Lua lexer (piccolo/src/compiler/lexer.rs): it reads one token per   *)
(* call of read_token, and counts the lines that it reads past.            *)
(*                                                                         *)
(* A text is a sequence of bytes.  A cursor is what the lexer keeps: what  *)
(* is left of the text (the source and peek_buffer together), the line     *)
(* number, string_buffer, and the error that ended the reading.            *)
(***************************************************************************)
EXTENDS Integers, Sequences, SequencesExt

CONSTANTS
  Texts,            \* the texts that are read
  MaxInt,           \* i64::MAX
  MaxSignificant,   \* MAX_SIGNIFICANT_DIGITS
  CodeWidth,        \* 2^32: how many values the u32 of a \u escape has
  Scalars           \* the codes that char::from_u32 takes

ASSUME WidthAssumption == MaxInt \in Nat /\ MaxSignificant \in Nat /\ CodeWidth \in Nat \ {0}

VARIABLES
  text,     \* the whole text
  at,       \* the cursor
  tokens,   \* the tokens so far, each with the part of the text that it is
  result    \* what the last call returned: "token", "end" or "error"

vars == <<text, at, tokens, result>>

-----------------------------------------------------------------------------
(* Bytes.                                                                  *)

Printable ==
  " !\"#$%&'()*+,-./0123456789:;<=>?@ABCDEFGHIJKLMNOPQRSTUVWXYZ[?]^_?abcdefghijklmnopqrstuvwxyz{|}~"
Chr(i) == SubSeq(Printable, i, i)
Byte == [c \in {Chr(i) : i \in 1..Len(Printable)} |->
           31 + CHOOSE i \in 1..Len(Printable) : Chr(i) = c /\ \A j \in 1..(i - 1) : Chr(j) # c]
Bytes(s) == [i \in 1..Len(s) |-> Byte[SubSeq(s, i, i)]]
Backslash == 92                               \* here and for the backquote Printable has a question mark

LF == 10
CR == 13
Newlines == {LF, CR}                          \* is_newline
Blanks == {32, 9, 11, 12}                     \* space, tab, VERTICAL_TAB, FORM_FEED
Digits == 48..57                              \* is_digit
HexDigits == Digits \cup (65..70) \cup (97..102)
Letters == (65..90) \cup (97..122) \cup {95}  \* is_alpha

\* from_digit, from_hex_digit.
DigitOf(c) == IF c \in Digits THEN c - 48 ELSE IF c \in 97..102 THEN c - 87 ELSE c - 55

-----------------------------------------------------------------------------
(* The cursor.                                                             *)

None == -1
At(s) == [rest |-> s, line |-> 0, buffer |-> <<>>, err |-> ""]

Peek(c, n) == IF n < Len(c.rest) THEN c.rest[n + 1] ELSE None
Advance(c, n) == [c EXCEPT !.rest = SubSeq(@, n + 1, Len(@))]
Clear(c) == [c EXCEPT !.buffer = <<>>]
Push(c, bytes) == [c EXCEPT !.buffer = @ \o bytes]
Fail(c, kind) == [c EXCEPT !.err = kind]
Reset(c) == [c EXCEPT !.rest = <<>>, !.buffer = <<>>]

\* The bytes in front that are all of a kind, and the cursor behind them.
Span(c, kind) == CHOOSE n \in 0..Len(c.rest) :
  /\ \A i \in 1..n : c.rest[i] \in kind
  /\ n < Len(c.rest) => c.rest[n + 1] \notin kind
Ahead(c, n) == SubSeq(c.rest, 1, n)
PushSpan(c, kind) == Advance(Push(c, Ahead(c, Span(c, kind))), Span(c, kind))

PushIf(keep, c, bytes) == IF keep THEN Push(c, bytes) ELSE c

\* Mutant of ReadLineEnd: every newline byte ends a line of its own.
ReadLineEndAlone(c, keep) ==
  [Advance(PushIf(keep, c, Ahead(c, 1)), 1) EXCEPT !.line = @ + 1]

ReadLineEnd(c, keep) ==
  LET n == IF Peek(c, 1) \in Newlines \ {Peek(c, 0)} THEN 2 ELSE 1
  IN [Advance(PushIf(keep, c, Ahead(c, n)), n) EXCEPT !.line = @ + 1]

-----------------------------------------------------------------------------
(* Long strings and blank text.                                            *)

RECURSIVE ReadLongBody(_, _, _)
ReadLongBody(c, level, keep) ==
  LET p == Peek(c, 0)
      equals == Span(Advance(c, 1), {Byte["="]})
      closing == Advance(c, 1 + equals)
  IN CASE p = None -> Fail(c, "UnfinishedLongString")
       [] p \in Newlines -> ReadLongBody(ReadLineEnd(c, keep), level, keep)
       [] p = Byte["]"] ->
            IF equals = level /\ Peek(closing, 0) = Byte["]"]
            THEN Advance(closing, 1)
            ELSE ReadLongBody(PushIf(keep, closing, Ahead(c, 1 + equals)), level, keep)
       [] OTHER -> ReadLongBody(Advance(PushIf(keep, c, <<p>>), 1), level, keep)

ReadLongString(c, keep) ==
  LET level == Span(Advance(c, 1), {Byte["="]})
      open == Advance(IF keep THEN Clear(c) ELSE c, 1 + level)
  IN IF Peek(open, 0) = Byte["["]
     THEN ReadLongBody(Advance(open, 1), level, keep)
     ELSE Fail(open, "InvalidLongStringDelimiter")

OpensLong(c) == Peek(c, 0) = Byte["["] /\ Peek(c, 1) \in {Byte["="], Byte["["]}

SkipComment(c) ==
  IF OpensLong(c) THEN ReadLongString(c, FALSE)
  ELSE Advance(c, Span(c, (0..255) \ Newlines))

RECURSIVE SkipWhitespace(_)
SkipWhitespace(c) ==
  CASE c.err # "" -> c
    [] Peek(c, 0) \in Blanks -> SkipWhitespace(Advance(c, 1))
    [] Peek(c, 0) \in Newlines -> SkipWhitespace(ReadLineEnd(c, FALSE))
    [] Peek(c, 0) = Byte["-"] /\ Peek(c, 1) = Byte["-"] ->
         SkipWhitespace(SkipComment(Advance(c, 2)))
    [] OTHER -> c

-----------------------------------------------------------------------------
(* Short strings.                                                          *)

EscapedChars == [c \in {Byte[s] : s \in {"a", "b", "f", "n", "r", "t", "v", "'", "\""}} \cup {Backslash} |->
  CASE c = Byte["a"] -> 7  [] c = Byte["b"] -> 8  [] c = Byte["f"] -> 12
    [] c = Byte["n"] -> 10 [] c = Byte["r"] -> 13 [] c = Byte["t"] -> 9
    [] c = Byte["v"] -> 11 [] OTHER -> c]

\* char::encode_utf8.
Utf8(u) ==
  CASE u < 128 -> <<u>>
    [] u \in 128..2047 -> <<192 + (u \div 64), 128 + (u % 64)>>
    [] u \in 2048..65535 -> <<224 + (u \div 4096), 128 + ((u \div 64) % 64), 128 + (u % 64)>>
    [] OTHER -> <<240 + (u \div 262144), 128 + ((u \div 4096) % 64), 128 + ((u \div 64) % 64), 128 + (u % 64)>>

\* The number that these digits are, to a base.
NumberOf(digits, base) == FoldLeft(LAMBDA n, d : n * base + DigitOf(d), 0, digits)

ReadHexEscape(c) ==
  IF Peek(c, 0) \in HexDigits /\ Peek(c, 1) \in HexDigits
  THEN Advance(Push(c, <<NumberOf(Ahead(c, 2), 16)>>), 2)
  ELSE Fail(c, "HexDigitExpected")

\* c is behind the brace.
ReadUnicodeEscape(c) ==
  LET n == Span(c, HexDigits)
      u == NumberOf(Ahead(c, n), 16) % CodeWidth
  IN CASE Peek(c, n) # Byte["}"] -> Fail(c, "EscapeUnicodeEnd")
       [] u \notin Scalars -> Fail(c, "EscapeUnicodeInvalid")
       [] OTHER -> Advance(Push(c, Utf8(u)), n + 1)

ReadDecimalEscape(c) ==
  LET n == IF Span(c, Digits) > 3 THEN 3 ELSE Span(c, Digits)
      u == NumberOf(Ahead(c, n), 10)
  IN IF u > 255 THEN Fail(c, "EscapeDecimalTooLarge") ELSE Advance(Push(c, <<u>>), n)

RECURSIVE SkipSpaces(_)
SkipSpaces(c) ==
  CASE Peek(c, 0) \in Newlines -> SkipSpaces(ReadLineEnd(c, FALSE))
    [] Peek(c, 0) \in Blanks -> SkipSpaces(Advance(c, 1))
    [] OTHER -> c

\* c is behind the backslash.
ReadEscape(c) ==
  LET p == Peek(c, 0) IN
  CASE p = None -> Fail(c, "UnfinishedShortString")
    [] p \in DOMAIN EscapedChars -> Advance(Push(c, <<EscapedChars[p]>>), 1)
    [] p \in Newlines -> ReadLineEnd(c, TRUE)
    [] p = Byte["x"] -> ReadHexEscape(Advance(c, 1))
    [] p = Byte["u"] -> IF Peek(c, 1) = Byte["{"] THEN ReadUnicodeEscape(Advance(c, 2))
                        ELSE Fail(c, "EscapeUnicodeStart")
    [] p = Byte["z"] -> SkipSpaces(Advance(c, 1))
    [] p \in Digits -> ReadDecimalEscape(c)
    [] OTHER -> Fail(c, "InvalidEscape")

RECURSIVE ReadShortBody(_, _)
ReadShortBody(c, quote) ==
  LET p == Peek(c, 0) IN
  CASE c.err # "" -> c
    [] p \in {None} \cup Newlines -> Fail(c, "UnfinishedShortString")
    [] p = Backslash -> ReadShortBody(ReadEscape(Advance(c, 1)), quote)
    [] p = quote -> Advance(c, 1)
    [] OTHER -> ReadShortBody(Advance(Push(c, <<p>>), 1), quote)

ReadShortString(c) == ReadShortBody(Advance(Clear(c), 1), Peek(c, 0))

-----------------------------------------------------------------------------
(* Numerals.  A float is kept as a mantissa and the exponent of its base:  *)
(* <<base, mantissa, exponent>>.                                           *)

NoFloat == <<>>
Point == Byte["."]
HexMarks == {Byte["x"], Byte["X"]}
IsHex(s) == Len(s) >= 2 /\ s[1] = Byte["0"] /\ s[2] \in HexMarks
ExponentMarks(hex) == IF hex THEN {Byte["p"], Byte["P"]} ELSE {Byte["e"], Byte["E"]}
DigitsOf(hex) == IF hex THEN HexDigits ELSE Digits

\* The digits, with at most one point among them.
ReadMantissa(c, hex) ==
  LET whole == PushSpan(c, DigitsOf(hex)) IN
  IF Peek(whole, 0) = Point
  THEN PushSpan(Advance(Push(whole, <<Point>>), 1), DigitsOf(hex))
  ELSE whole

ReadExponent(c) ==
  LET marked == Advance(Push(c, Ahead(c, 1)), 1)
      signed == IF Peek(marked, 0) \in {Byte["+"], Byte["-"]}
                THEN Advance(Push(marked, Ahead(marked, 1)), 1) ELSE marked
  IN PushSpan(signed, Digits)

\* read_dec_integer, read_hex_integer: None when it does not fit.
IntegerOf(s) ==
  LET n == IF IsHex(s) THEN NumberOf(SubSeq(s, 3, Len(s)), 16) ELSE NumberOf(s, 10)
  IN IF n <= MaxInt THEN n ELSE None

\* The sign and the digits behind the exponent's mark.
ExponentOf(s) ==
  IF s # <<>> /\ s[1] \in {Byte["+"], Byte["-"]}
  THEN (IF s[1] = Byte["-"] THEN -1 ELSE 1) * NumberOf(Tail(s), 10)
  ELSE NumberOf(s, 10)

\* read_hex_float's loop over the digits and the point of s.
AddHexDigit(f, d) ==
  LET zero == f.significant = 0 /\ DigitOf(d) = 0
      kept == ~zero /\ f.significant < MaxSignificant
  IN IF d = Point THEN [f EXCEPT !.dot = TRUE]
     ELSE [f EXCEPT !.digits = @ + 1,
                    !.significant = IF kept THEN @ + 1 ELSE @,
                    !.base = IF kept THEN 16 * @ + DigitOf(d) ELSE @,
                    !.exp = @ + (IF zero \/ kept THEN 0 ELSE 4) - (IF f.dot THEN 4 ELSE 0)]
HexMantissa(s) == FoldLeft(AddHexDigit,
  [digits |-> 0, significant |-> 0, base |-> 0, exp |-> 0, dot |-> FALSE], s)

MarkIn(s, hex) == {i \in 1..Len(s) : s[i] \in ExponentMarks(hex)}

\* read_hex_float, of a string that read_numeral collected.
HexFloatOf(s) ==
  LET marks == MarkIn(s, TRUE)
      end == IF marks = {} THEN Len(s) ELSE (CHOOSE i \in marks : TRUE) - 1
      f == HexMantissa(SubSeq(s, 3, end))
  IN CASE f.digits = 0 -> NoFloat
       [] marks = {} -> <<2, f.base, f.exp>>
       [] end + 1 = Len(s) -> NoFloat
       [] OTHER -> <<2, f.base, f.exp + ExponentOf(SubSeq(s, end + 2, Len(s)))>>

\* str::parse, of a string that read_numeral collected.
DecFloatOf(s) ==
  LET marks == MarkIn(s, FALSE)
      end == IF marks = {} THEN Len(s) ELSE (CHOOSE i \in marks : TRUE) - 1
      digits == SelectSeq(SubSeq(s, 1, end), LAMBDA d : d # Point)
      behind == {i \in 1..end : s[i] = Point}
      exponent == SubSeq(s, end + 2, Len(s))
  IN IF digits = <<>> \/ (marks # {} /\ ~\E i \in 1..Len(exponent) : exponent[i] \in Digits)
     THEN NoFloat
     ELSE <<10, NumberOf(digits, 10),
            ExponentOf(exponent) - (IF behind = {} THEN 0 ELSE end - CHOOSE i \in behind : TRUE)>>

Token(kind, value) == [kind |-> kind, value |-> value]
Lexed(c, token) == [c |-> c, token |-> token]

ReadNumeral(c) ==
  LET hex == IsHex(Ahead(c, IF Len(c.rest) < 2 THEN Len(c.rest) ELSE 2))
      begun == IF hex THEN Advance(Push(Clear(c), Ahead(c, 2)), 2) ELSE Clear(c)
      mantissa == ReadMantissa(begun, hex)
      exponent == Peek(mantissa, 0) \in ExponentMarks(hex)
      d == IF exponent THEN ReadExponent(mantissa) ELSE mantissa
      s == d.buffer
      whole == ~exponent /\ ~Contains(s, Point) /\ IntegerOf(s) # None
      float == IF hex THEN HexFloatOf(s) ELSE DecFloatOf(s)
  IN CASE whole -> Lexed(d, Token("Integer", IntegerOf(s)))
       [] ~whole /\ float # NoFloat -> Lexed(d, Token("Float", float))
       [] OTHER -> Lexed(Fail(d, "BadNumber"), Token("Float", NoFloat))

-----------------------------------------------------------------------------
(* Tokens.                                                                 *)

Reserved == {Bytes(w) : w \in
  {"break", "do", "else", "elseif", "end", "function", "goto", "if", "in", "local", "nil",
   "for", "while", "repeat", "until", "return", "then", "true", "false", "not", "and", "or"}}

\* get_char_token, and the tokens that read_token makes of one, two or three bytes.
Single == {Bytes(s) : s \in {"-", "+", "*", "^", "%", "&", "|", ",", ";", "#", "(", ")", "]", "{", "}"}}
Doubling == [c \in {Byte[s] : s \in {"=", "<", ">", "/", "~", ":"}} |->
  CASE c = Byte["="] -> {Byte["="]} [] c = Byte["<"] -> {Byte["="], Byte["<"]}
    [] c = Byte[">"] -> {Byte["="], Byte[">"]} [] c = Byte["/"] -> {Byte["/"]}
    [] c = Byte["~"] -> {Byte["="]} [] c = Byte[":"] -> {Byte[":"]}]

ReadSymbol(c, n) == Lexed(Advance(c, n), Token("Symbol", Ahead(c, n)))
ReadString(c) == Lexed(Clear(c), Token("String", c.buffer))   \* take_string

ReadWord(c) ==
  LET d == PushSpan(Clear(c), Letters \cup Digits)
  IN IF d.buffer \in Reserved THEN Lexed(d, Token("Symbol", d.buffer))
     ELSE Lexed(Clear(d), Token("Name", d.buffer))

\* read_token, of a cursor at the first byte of a token.
ReadPart(c) ==
  LET p == Peek(c, 0) q == Peek(c, 1) IN
  CASE OpensLong(c) -> ReadString(ReadLongString(c, TRUE))
    [] p = Byte["["] /\ ~OpensLong(c) -> ReadSymbol(c, 1)
    [] p \in DOMAIN Doubling -> ReadSymbol(c, IF q \in Doubling[p] THEN 2 ELSE 1)
    [] p \in {Byte["\""], Byte["'"]} -> ReadString(ReadShortString(c))
    [] p = Point /\ q \notin Digits ->
         ReadSymbol(c, IF q # Point THEN 1 ELSE IF Peek(c, 2) = Point THEN 3 ELSE 2)
    [] p \in Digits \/ (p = Point /\ q \in Digits) -> ReadNumeral(c)
    [] <<p>> \in Single -> ReadSymbol(c, 1)
    [] p \in Letters -> ReadWord(c)
    [] OTHER -> Lexed(Fail(c, "UnexpectedCharacter"), Token("None", None))

-----------------------------------------------------------------------------
(* The calls of read_token.  Where the part of the text that is a token    *)
(* begins and ends is a history of the model.                              *)

Where(c) == Len(text) - Len(c.rest)

ReadToken ==
  LET start == SkipWhitespace(at)
      read == ReadPart(start)
  IN
  \/ /\ start.err # ""
     /\ at' = Reset(start) /\ result' = "error"
     /\ UNCHANGED <<text, tokens>>
  \/ /\ start.err = "" /\ start.rest = <<>>
     /\ at' = Reset(start) /\ result' = "end"
     /\ UNCHANGED <<text, tokens>>
  \/ /\ start.err = "" /\ start.rest # <<>> /\ read.c.err # ""
     /\ at' = Reset(read.c) /\ result' = "error"
     /\ UNCHANGED <<text, tokens>>
  \/ /\ start.err = "" /\ start.rest # <<>> /\ read.c.err = ""
     /\ at' = read.c /\ result' = "token"
     /\ tokens' = Append(tokens, [token |-> read.token, line |-> start.line,
                                  first |-> Where(start) + 1, last |-> Where(read.c)])
     /\ UNCHANGED text

\* Lexer::new.
Init == text \in Texts /\ at = At(text) /\ tokens = <<>> /\ result = "token"
Next == result # "error" /\ ReadToken
Spec == Init /\ [][Next]_vars

================================================================================
