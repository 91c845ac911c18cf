------------------------------- MODULE LuaLexicon ------------------------------
(***************************************************************************)
(* What the tokens of a Lua text are, said of the text and not of a reader *)
(* of it: the lexical grammar as predicates on parts of the text.  Where   *)
(* the lexer of piccolo differs from the Lua manual the grammar is the     *)
(* lexer's: a long string keeps a newline in its front, --[= begins a long *)
(* comment or an error, 0x is 0 and a hex exponent may be a sign alone.    *)
(***************************************************************************)
EXTENDS LuaLexer

UpTo(s, n) == SubSeq(s, 1, n)
Behind(s, n) == SubSeq(s, n + 1, Len(s))
Parts(s) == {<<UpTo(s, n), Behind(s, n)>> : n \in 0..Len(s)}

\* The lines that end in a text: \n\r and \r\n are one end.
RECURSIVE LineEnds(_)
LineEnds(s) ==
  CASE s = <<>> -> 0
    [] s # <<>> /\ s[1] \notin Newlines -> LineEnds(Tail(s))
    [] OTHER -> 1 + LineEnds(Behind(s, IF Len(s) > 1 /\ {s[1], s[2]} = Newlines THEN 2 ELSE 1))

-----------------------------------------------------------------------------
(* Long brackets and blank text.                                           *)

Bracket(b, level) == <<b>> \o [i \in 1..level |-> Byte["="]] \o <<b>>

\* s is a long bracket around this body: it ends where its bracket first closes.
IsLong(s, body) == \E level \in 0..Len(s) :
  LET close == Bracket(Byte["]"], level)
  IN /\ s = Bracket(Byte["["], level) \o body \o close
     /\ \A n \in 0..(Len(body) + level + 1) : ~IsSuffix(close, UpTo(body \o close, n))

LongInside(s) == {body \in {SubSeq(s, i, j) : i \in 3..Len(s), j \in 2..Len(s)} : IsLong(s, body)}

BeginsLong(s) == Len(s) >= 2 /\ s[1] = Byte["["] /\ s[2] \in {Byte["["], Byte["="]}
BeginsComment(s) == Len(s) >= 2 /\ s[1] = Byte["-"] /\ s[2] = Byte["-"]

\* A comment, and what is behind it: a short one ends at a newline or with the text.
IsComment(s, behind) ==
  /\ BeginsComment(s)
  /\ \/ LongInside(Behind(s, 2)) # {}
     \/ /\ ~BeginsLong(Behind(s, 2))
        /\ \A i \in 1..Len(s) : s[i] \notin Newlines
        /\ behind = <<>> \/ behind[1] \in Newlines

\* s is blank, where this is behind it.
RECURSIVE IsBlank(_, _)
IsBlank(s, behind) ==
  \/ s = <<>>
  \/ s # <<>> /\ s[1] \in Blanks \cup Newlines /\ IsBlank(Tail(s), behind)
  \/ \E p \in Parts(s) : IsComment(p[1], p[2] \o behind) /\ IsBlank(p[2], behind)

-----------------------------------------------------------------------------
(* Short strings.                                                          *)

AllIn(s, kind) == \A i \in 1..Len(s) : s[i] \in kind

\* The value of digits: the sum of what each is worth at its place.
RECURSIVE Worth(_, _)
Worth(s, base) ==
  IF s = <<>> THEN 0 ELSE DigitOf(s[1]) * base^(Len(s) - 1) + Worth(Tail(s), base)

\* What an escape without its backslash denotes, where this is behind it.
Escapes(e, behind) ==
  LET stops(kind) == behind = <<>> \/ behind[1] \notin kind
      inner == SubSeq(e, 3, Len(e) - 1)
      code == Worth(inner, 16) % CodeWidth
  IN CASE e = <<>> -> {}
       [] Len(e) = 1 /\ e[1] \in DOMAIN EscapedChars -> {<<EscapedChars[e[1]]>>}
       [] AllIn(e, Newlines) /\ LineEnds(e) = 1 /\ (Len(e) = 2 \/ stops(Newlines \ {e[1]})) -> {e}
       [] e[1] = Byte["x"] /\ Len(e) = 3 /\ AllIn(Tail(e), HexDigits) -> {<<Worth(Tail(e), 16)>>}
       [] /\ e[1] = Byte["u"] /\ Len(e) >= 3 /\ e[2] = Byte["{"] /\ e[Len(e)] = Byte["}"]
          /\ AllIn(inner, HexDigits) /\ code \in Scalars -> {Utf8(code)}
       [] e[1] = Byte["z"] /\ AllIn(Tail(e), Blanks \cup Newlines) /\ stops(Blanks \cup Newlines) ->
            {<<>>}
       [] AllIn(e, Digits) /\ Worth(e, 10) < 256 /\ (Len(e) = 3 \/ (Len(e) < 3 /\ stops(Digits))) ->
            {<<Worth(e, 10)>>}
       [] OTHER -> {}

\* The strings that this inside of a short string denotes: one or none.
RECURSIVE ShortInside(_, _, _)
ShortInside(s, quote, behind) ==
  CASE s = <<>> -> {<<>>}
    [] s # <<>> /\ s[1] = Backslash ->
         UNION {{v \o w : v \in Escapes(p[1], p[2] \o behind), w \in ShortInside(p[2], quote, behind)} :
                p \in Parts(Tail(s))}
    [] s # <<>> /\ s[1] \in Newlines \cup {quote} -> {}
    [] OTHER -> {<<s[1]>> \o v : v \in ShortInside(Tail(s), quote, behind)}

Quotes == {Byte["\""], Byte["'"]}
ShortStrings(s) ==
  IF Len(s) >= 2 /\ s[1] \in Quotes /\ s[Len(s)] = s[1]
  THEN ShortInside(SubSeq(s, 2, Len(s) - 1), s[1], <<s[1]>>) ELSE {}

-----------------------------------------------------------------------------
(* Numerals: digits with at most one point, then perhaps an exponent.      *)

Points(s) == {i \in 1..Len(s) : s[i] = Point}
WithoutPoint(s) == SelectSeq(s, LAMBDA c : c # Point)
Places(s) == IF Points(s) = {} THEN 0 ELSE Len(s) - CHOOSE i \in Points(s) : TRUE

\* The exponent behind its mark: a sign, or none, and digits.
IsExponent(e) == AllIn(e, Digits) \/ (e[1] \in {Byte["+"], Byte["-"]} /\ AllIn(Tail(e), Digits))

\* s is a numeral with these parts, well formed or not.
Numeral(hex, m, marked, e) == [hex |-> hex, mantissa |-> m, marked |-> marked, exponent |-> e]
NumeralsOf(s, hex) ==
  {Numeral(hex, p[1], p[2] # <<>>, IF p[2] = <<>> THEN <<>> ELSE Tail(p[2])) :
     p \in {q \in Parts(s) :
              /\ AllIn(q[1], DigitsOf(hex) \cup {Point}) /\ Cardinality(Points(q[1])) <= 1
              /\ hex \/ (Len(q[1]) >= 1 /\ q[1][1] \in Digits)
                     \/ (Len(q[1]) >= 2 /\ q[1][2] \in Digits)
              /\ q[2] # <<>> => q[2][1] \in ExponentMarks(hex) /\ IsExponent(Tail(q[2]))}}
Numerals(s) == IF IsHex(s) THEN NumeralsOf(Behind(s, 2), TRUE) ELSE NumeralsOf(s, FALSE)

WellFormed(n) ==
  /\ WithoutPoint(n.mantissa) # <<>> \/ (n.hex /\ n.mantissa = <<>> /\ ~n.marked)
  /\ n.marked => IF n.hex THEN n.exponent # <<>> ELSE \E i \in 1..Len(n.exponent) : n.exponent[i] \in Digits

Base(n) == IF n.hex THEN 16 ELSE 10
Whole(n) == Worth(WithoutPoint(n.mantissa), Base(n))
IsWhole(n) == ~n.marked /\ Points(n.mantissa) = {} /\ Whole(n) <= MaxInt
Exponent(n) ==
  LET digits == SelectSeq(n.exponent, LAMBDA c : c \in Digits)
  IN (IF Byte["-"] \in {n.exponent[i] : i \in 1..Len(n.exponent)} THEN -1 ELSE 1) * Worth(digits, 10)

\* f is the float that n denotes.  Of a hex mantissa the leading digits that fit are kept.
Significant(n) == {k \in 0..Len(n.mantissa) : 16^k > Whole(n) /\ (k = 0 \/ 16^(k - 1) <= Whole(n))}
IsFloatOf(n, f) ==
  LET lost == CHOOSE d \in 0..Len(n.mantissa) : \E k \in Significant(n) :
                d = IF k > MaxSignificant THEN k - MaxSignificant ELSE 0
  IN IF n.hex
     THEN f = <<2, Whole(n) \div 16^lost, Exponent(n) + 4 * (lost - Places(n.mantissa))>>
     ELSE f = <<10, Whole(n), Exponent(n) - Places(n.mantissa)>>

-----------------------------------------------------------------------------
(* Tokens.                                                                 *)

Symbols == {Bytes(w) : w \in
  {"-", "+", "*", "/", "//", "^", "%", "&", "~", "|", ",", ";", ":", "::", ".", "..", "...", "#",
   "=", "==", "~=", "<", "<=", "<<", ">", ">=", ">>", "(", ")", "[", "]", "{", "}"}}
IsWord(s) == s # <<>> /\ s[1] \in Letters /\ AllIn(s, Letters \cup Digits)

\* s is the spelling of some token, or of a numeral that is none.
IsLexeme(s) ==
  \/ s \in Symbols \/ IsWord(s)
  \/ LongInside(s) # {} \/ ShortStrings(s) # {} \/ Numerals(s) # {}

Denotes(s, t) ==
  CASE t.kind = "Symbol" -> s = t.value /\ s \in Symbols \cup Reserved
    [] t.kind = "Name" -> s = t.value /\ IsWord(s) /\ s \notin Reserved
    [] t.kind = "String" -> t.value \in LongInside(s) \cup ShortStrings(s)
    [] t.kind = "Integer" -> \E n \in Numerals(s) : IsWhole(n) /\ t.value = Whole(n)
    [] t.kind = "Float" -> \E n \in Numerals(s) : WellFormed(n) /\ ~IsWhole(n) /\ IsFloatOf(n, t.value)

\* s is the first lexeme of s \o behind: no longer front of it is one.
IsFirst(s, behind) ==
  /\ IsLexeme(s) /\ ~BeginsComment(s \o behind)
  /\ \A p \in Parts(behind) : p[1] # <<>> => ~IsLexeme(s \o p[1])
  /\ s = <<Byte["["]>> => ~BeginsLong(s \o behind)

\* No token can be read from the front of s.
IsUnreadable(s) == \A p \in Parts(s) :
  IsFirst(p[1], p[2]) => \E n \in Numerals(p[1]) : ~WellFormed(n)

-----------------------------------------------------------------------------

ReadEnd == IF tokens = <<>> THEN 0 ELSE tokens[Len(tokens)].last
ReadEndBefore == IF Len(tokens) < 2 THEN 0 ELSE tokens[Len(tokens) - 1].last

LastToken ==
  LET t == tokens[Len(tokens)]
      behind == Behind(text, t.last)
  IN /\ IsBlank(SubSeq(text, ReadEndBefore + 1, t.first - 1), Behind(text, t.first - 1))
     /\ IsFirst(SubSeq(text, t.first, t.last), behind)
     /\ Denotes(SubSeq(text, t.first, t.last), t.token)
     /\ t.line = LineEnds(UpTo(text, t.first - 1))
     /\ at.rest = behind /\ at.line = LineEnds(UpTo(text, t.last))

(* The lexer reads the text and nothing else: between two tokens only      *)
(* blank text is passed over, a token is the longest lexeme that the text  *)
(* has there and denotes what the lexeme says, its line is the number of   *)
(* lines that end in front of it, the end is reported when the rest is     *)
(* blank, and an error only where no token can be read.                    *)
ReadsItsText ==
  /\ result = "token" /\ tokens # <<>> => LastToken
  /\ result = "end" => IsBlank(Behind(text, ReadEnd), <<>>) /\ at.line = LineEnds(text)
  /\ result = "error" =>
       /\ ~IsBlank(Behind(text, ReadEnd), <<>>)
       /\ \A p \in Parts(Behind(text, ReadEnd)) : IsBlank(p[1], p[2]) => IsUnreadable(p[2])

================================================================================
