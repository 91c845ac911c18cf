------------------------------- MODULE MCLuaLexer ------------------------------
(* All short texts over alphabets that are made for one part of the lexer  *)
(* each: brackets and comments, line ends, numerals, escapes, symbols.     *)
EXTENDS LuaLexicon, TLC

CONSTANT Longest

Words(alphabet, n) == UNION {[1..k -> alphabet] : k \in 0..n}
Over(letters) == {Byte[c] : c \in letters}
After(front, words) == {front \o w : w \in words}

MCTexts ==
  Words(Over({"[", "]", "=", "-"}) \cup {LF}, Longest)
    \cup Words(Over({"[", "]", "="}), Longest + 2)
    \cup After(Bytes("--"), Words(Over({"[", "]", "="}) \cup {LF}, Longest))
    \cup Words(Over({"-", "d", "o", " "}) \cup {LF, CR}, Longest)
    \cup Words(Over({"0", "7", "e", "x", ".", "-"}), Longest)
    \cup After(Bytes("0x"), Words(Over({"0", "A", "7", ".", "p", "-"}), Longest))
    \cup After(<<Byte["\""], Backslash>>, Words(Over({"2", "7", "x", "z", "n", "\""}) \cup {LF, Backslash}, Longest))
    \cup After(<<Byte["'"], Backslash>> \o Bytes("u"), Words(Over({"{", "}", "2", "F", "'"}), Longest))
    \cup Words(Over({"<", "=", ">", "~", ".", ":", "/", "?"}), Longest - 1)

MCScalars == (0..700) \ (512..575)
================================================================================
