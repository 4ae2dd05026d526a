---------------------------- MODULE NaxsiDecode -----------------------------
(***************************************************************************)
(* The conversions a text goes through before the rules see it: null bytes *)
(* (naxsi_escape_nullbytes), percent escapes (naxsi_unescape) and the      *)
(* check of its UTF-8 (ngx_utf8_check).  A text is a sequence of bytes.    *)
(***************************************************************************)
EXTENDS Integers, Sequences, FiniteSets

Byte == 0 .. 255
Zero == 48          \* '0', which replaces null bytes
Percent == 37

\* '0'..'9', 'A'..'F' and 'a'..'f' (the code sets bit 5 of a letter).
HexDigit == (48 .. 57) \cup (65 .. 70) \cup (97 .. 102)
HexValue(ch) ==
  IF ch <= 57 THEN ch - 48 ELSE IF ch <= 70 THEN ch - 55 ELSE ch - 87

Nulls(text) == {i \in DOMAIN text : text[i] = 0}

\* naxsi_escape_nullbytes, and the end of naxsi_unescape.
escape_nullbytes(text) ==
  [i \in DOMAIN text |-> IF text[i] = 0 THEN Zero ELSE text[i]]
-----------------------------------------------------------------------------
(***************************************************************************)
(* naxsi_unescape_uri, byte by byte.                                       *)
(***************************************************************************)
Emit(st, bytes, bad) ==
  [st EXCEPT !.state = "usual", !.out = @ \o bytes, !.bad = @ + bad]

\* Mutant of quoted_second: the bad escape is not counted.
quoted_second_quiet(st, ch) ==
  IF ch \in HexDigit
  THEN Emit(st, <<16 * HexValue(st.first) + HexValue(ch)>>, 0)
  ELSE Emit(st, <<Percent, st.first, ch>>, 0)

\* The second digit, or a bad escape, which is kept as it is.
quoted_second(st, ch) ==
  IF ch \in HexDigit
  THEN Emit(st, <<16 * HexValue(st.first) + HexValue(ch)>>, 0)
  ELSE Emit(st, <<Percent, st.first, ch>>, 1)

unescape_byte(st, ch) ==
  CASE st.state = "usual" ->
         IF ch = Percent THEN [st EXCEPT !.state = "quoted"]
         ELSE Emit(st, <<ch>>, 0)
    [] st.state = "quoted" ->
         IF ch \in HexDigit
         THEN [st EXCEPT !.state = "quoted_second", !.first = ch]
         ELSE Emit(st, <<Percent, ch>>, 1)
    [] st.state = "quoted_second" -> quoted_second(st, ch)

\* naxsi_unescape: the text the rules see, and the number of null bytes and
\* bad escapes.  An escape that the end of the text cuts is not kept.
naxsi_unescape(text) ==
  LET after[n \in 0 .. Len(text)] ==  \* the state after n bytes
        IF n = 0
        THEN [state |-> "usual", first |-> 0, out |-> << >>, bad |-> 0]
        ELSE unescape_byte(after[n - 1], text[n])
      st == after[Len(text)]
  IN [text  |-> escape_nullbytes(st.out),
      count |-> st.bad + Cardinality(Nulls(st.out))]
-----------------------------------------------------------------------------
(***************************************************************************)
(* ngx_utf8_check: is there no bad byte before the first null byte?        *)
(***************************************************************************)
Cont(b) == b \in 128 .. 191

\* The length of the character that byte b begins; 0 if none does.
Length(b) ==
  CASE b < 128           -> 1
    [] b \in 192 .. 223  -> 2
    [] b \in 224 .. 239  -> 3
    [] b \in 240 .. 247  -> 4
    [] OTHER             -> 0

\* The refusals of each branch, of a character that is all there.
BadCharacter(c) ==
  \/ \E k \in 2 .. Len(c) : ~Cont(c[k])
  \/ Len(c) = 2 /\ c[1] \in {192, 193}
  \/ /\ Len(c) = 3
     /\ \/ c[1] = 224 /\ c[2] \in 128 .. 159
        \/ c[1] = 237 /\ c[2] \in 160 .. 191
        \/ c[1] = 239 /\ c[2] = 191 /\ c[3] \in {190, 191}
  \/ /\ Len(c) = 4
     /\ \/ c[1] = 240 /\ c[2] \in 128 .. 143
        \/ c[1] = 244 /\ c[2] > 143
        \/ c[1] > 244

\* "not enough bytes", if not.
Complete(text, i) == i + Length(text[i]) - 1 <= Len(text)

utf8_check(text) ==
  LET ok[i \in 1 .. Len(text) + 4] ==
        IF i > Len(text) \/ text[i] = 0 THEN TRUE
        ELSE LET n == Length(text[i])
             IN /\ n # 0 /\ Complete(text, i)
                /\ ~BadCharacter(SubSeq(text, i, i + n - 1))
                /\ ok[i + n]
  IN ok[1]
-----------------------------------------------------------------------------
(***************************************************************************)
(* The references.                                                         *)
(***************************************************************************)

\* The pieces of a text, from its byte i on: an escape, a bad escape, what
\* the end cuts, or a byte.  Each has its length and the bytes it stands for.
Piece(text, i) ==
  LET hex(k) == k <= Len(text) /\ text[k] \in HexDigit IN
  CASE text[i] # Percent -> [len |-> 1, out |-> <<text[i]>>, bad |-> FALSE]
    [] text[i] = Percent /\ hex(i + 1) /\ hex(i + 2) ->
         [len |-> 3, bad |-> FALSE,
          out |-> <<16 * HexValue(text[i + 1]) + HexValue(text[i + 2])>>]
    [] text[i] = Percent /\ i + 1 <= Len(text) /\ ~hex(i + 1) ->
         [len |-> 2, out |-> SubSeq(text, i, i + 1), bad |-> TRUE]
    [] text[i] = Percent /\ hex(i + 1) /\ i + 2 <= Len(text) /\ ~hex(i + 2) ->
         [len |-> 3, out |-> SubSeq(text, i, i + 2), bad |-> TRUE]
    [] OTHER -> [len |-> 2, out |-> << >>, bad |-> FALSE]

Decoded(text) ==
  LET D[i \in 1 .. Len(text) + 2] ==
        IF i > Len(text) THEN << >>
        ELSE Piece(text, i).out \o D[i + Piece(text, i).len]
  IN escape_nullbytes(D[1])

\* Does the text hold a bad escape, or a null byte, escaped or not?
Uncommon(text) ==
  LET U[i \in 1 .. Len(text) + 2] ==
        i <= Len(text) /\ \/ Piece(text, i).bad
                          \/ 0 \in {Piece(text, i).out[k] :
                                      k \in DOMAIN Piece(text, i).out}
                          \/ U[i + Piece(text, i).len]
  IN U[1]

\* The bits of byte b below the bit n.
Bits(b, n) == b % n

\* What a character of UTF-8 encodes: the scalar values except U+FFFE and
\* U+FFFF, each by its shortest encoding.
CodePoint(c) ==
  LET then(p, k) == p * 64 + Bits(c[k], 64) IN
  CASE Len(c) = 1 -> c[1]
    [] Len(c) = 2 -> then(Bits(c[1], 32), 2)
    [] Len(c) = 3 -> then(then(Bits(c[1], 16), 2), 3)
    [] Len(c) = 4 -> then(then(then(Bits(c[1], 8), 2), 3), 4)

Shortest(p) ==
  IF p < 128 THEN 1 ELSE IF p < 2048 THEN 2 ELSE IF p < 65536 THEN 3 ELSE 4

IsCharacter(c) ==
  /\ Length(c[1]) = Len(c) /\ \A k \in 2 .. Len(c) : Cont(c[k])
  /\ Shortest(CodePoint(c)) = Len(c)
  /\ CodePoint(c) \notin 55296 .. 57343 \cup {65534, 65535}
  /\ CodePoint(c) <= 1114111

\* The text up to its first null byte is a sequence of such characters.
IsUtf8(text) ==
  LET U[i \in 1 .. Len(text) + 1] ==
        \/ i = Len(text) + 1
        \/ text[i] = 0
        \/ \E n \in 1 .. 4 : /\ i + n - 1 <= Len(text)
                             /\ IsCharacter(SubSeq(text, i, i + n - 1))
                             /\ U[i + n]
  IN U[1]
=============================================================================
