--------------------------- MODULE NaxsiLogProofs ---------------------------
(***************************************************************************)
(* Proofs about NaxsiLog, for any reports and any sizes of the buffer, of  *)
(* the request id and of a field's name.                                   *)
(***************************************************************************)
EXTENDS NaxsiLog, FiniteSetTheorems, SequenceTheorems, TLAPS

-----------------------------------------------------------------------------
(***************************************************************************)
(* Numbers                                                                 *)
(***************************************************************************)

\* A set of numbers that is bounded has a largest.
LEMMA Largest ==
  ASSUME NEW n \in Nat, NEW T, T \subseteq 0 .. n, T # {}
  PROVE  \E m \in T : \A k \in T : k <= m
  <1> DEFINE F == {k .. n : k \in T}
  <1>1. \A k \in T : k \in Nat /\ k <= n
    OBVIOUS
  <1>2. \A k \in T : k .. n \in SUBSET (0 .. n)
    <2>1. SUFFICES ASSUME NEW k \in T PROVE k .. n \subseteq 0 .. n
      OBVIOUS
    <2>2. QED
      BY <1>1, <2>1, SMT
  <1>3. F \subseteq SUBSET (0 .. n) /\ F # {}
    BY <1>2, Zenon
  <1>4. IsFiniteSet(0 .. n)
    BY FS_Interval
  <1>5. F \subseteq FiniteSubsetsOf(0 .. n)
    BY <1>3, <1>4, FS_Subset DEF FiniteSubsetsOf
  <1>6. \E x \in F : \A y \in F : ~ (<<y, x>> \in StrictSubsetOrdering(0 .. n))
    BY <1>3, <1>5, FS_StrictSubsetOrderingWellFounded, WFMin
  <1>7. PICK m \in T :
          \A k \in T : ~ (<<k .. n, m .. n>> \in StrictSubsetOrdering(0 .. n))
    BY <1>6, Zenon
  <1>8. ASSUME NEW k \in T
        PROVE  k <= m
    <2>1. SUFFICES ASSUME m < k PROVE FALSE
      BY <1>1
    <2>2. k .. n \subseteq m .. n
      BY <2>1, <1>1
    <2>3. m \in m .. n /\ m \notin k .. n
      BY <2>1, <1>1
    <2>4. <<k .. n, m .. n>> \in StrictSubsetOrdering(0 .. n)
      <3>1. (k .. n) # (m .. n)
        BY <2>3
      <3>2. k .. n \in SUBSET (0 .. n) /\ m .. n \in SUBSET (0 .. n)
        BY <1>2
      <3>3. QED
        BY <3>1, <3>2, <2>2, Zenon DEF StrictSubsetOrdering
    <2>5. QED
      BY <2>4, <1>7
  <1>9. QED
    BY <1>8

LEMMA HalvesBelow ==
  ASSUME NEW k \in Nat
  PROVE  Halves(k) \subseteq 0 .. k /\ k \in Halves(k) /\ 0 \in Halves(k)
  <1>1. \A d \in Powers : d \in Nat /\ d >= 1
    BY LogAssumption DEF Powers
  <1>2. \A d \in Powers : k \div d \in Nat /\ k \div d <= k
    BY <1>1
  <1>3. QED
    BY <1>2 DEF Halves

\* Halving ends, with the number itself if it was right to begin with.
LEMMA Halved ==
  ASSUME NEW k \in Nat, NEW S, 0 \in S
  PROVE  /\ Halve(k, S) \in Nat /\ Halve(k, S) <= k /\ Halve(k, S) \in S
         /\ k \in S => Halve(k, S) = k
  <1> DEFINE T == Halves(k) \cap S
  <1>1. T \subseteq 0 .. k /\ T # {}
    BY HalvesBelow
  <1>2. \E m \in T : \A n \in T : n <= m
    <2> HIDE DEF T
    <2>1. QED
      BY <1>1, Largest
  <1>3. \E n \in Halves(k) : n \in S /\ \A m \in Halves(k) : m \in S => m <= n
    BY <1>2
  <1>4. /\ Halve(k, S) \in Halves(k) /\ Halve(k, S) \in S
        /\ \A m \in Halves(k) : m \in S => m <= Halve(k, S)
    BY <1>3 DEF Halve
  <1>5. Halve(k, S) \in 0 .. k
    BY <1>4, HalvesBelow
  <1>6. k \in S => k <= Halve(k, S)
    BY <1>4, HalvesBelow
  <1>7. QED
    BY <1>4, <1>5, <1>6

\* The constants, as numbers.
LEMMA Sizes ==
  /\ NAXSI_LOG_MAX \in Nat /\ NGX_MAX_ERROR_STR \in Nat /\ SizeT \in Nat
  /\ Rid \in Nat /\ Key \in Nat /\ Key >= 1
  /\ NAXSI_LOG_MAX \div 2 \in Nat /\ NAXSI_LOG_MAX \div 2 >= 1
  /\ NAXSI_LOG_MAX \div 2 <= NAXSI_LOG_MAX
  /\ Rid + Key + 15 + NAXSI_LOG_MAX \div 2 < NAXSI_LOG_MAX
  /\ NAXSI_LOG_MAX + 2 <= NGX_MAX_ERROR_STR
  /\ NAXSI_LOG_MAX < SizeT
  BY LogAssumption

LEMMA Modulo ==
  /\ \A x \in Int : x % SizeT \in Nat
  /\ \A x \in Nat : x < SizeT => x % SizeT = x
  BY Sizes

LEMMA ValueKnown ==
  ASSUME NEW v \in Values
  PROVE  /\ v.escaped \in Nat /\ v.plain \in Nat /\ v.esc \in {2, 6}
         /\ Chars(v) \in Nat
  BY DEF Values, Chars

LEMMA TextWidthKnown ==
  ASSUME NEW v \in Values, NEW k \in Nat
  PROVE  TextWidth(v, k) \in Nat /\ k <= TextWidth(v, k) /\ TextWidth(v, k) <= 3 * k
  BY ValueKnown DEF TextWidth

LEMMA JsonWidthKnown ==
  ASSUME NEW v \in Values, NEW k \in Nat
  PROVE  /\ JsonWidth(v, k) \in Nat
         /\ v.escaped = 0 => JsonWidth(v, k) = k
  <1>1. CASE v.esc = 2
    BY <1>1, ValueKnown DEF JsonWidth
  <1>2. CASE v.esc = 6
    BY <1>2, ValueKnown DEF JsonWidth
  <1>3. QED
    BY <1>1, <1>2, ValueKnown

LEMMA HalfLineKnown ==
  /\ 0 \in HalfLine
  /\ \A n \in HalfLine : n \in Nat /\ n + Rid + Key + 15 < NAXSI_LOG_MAX
                         /\ n < NAXSI_LOG_MAX
  BY Sizes DEF HalfLine
-----------------------------------------------------------------------------
(***************************************************************************)
(* What a field does to the buffer                                         *)
(***************************************************************************)
Logs == [length : Nat, line : Seq(Entries), lines : Seq(Seq(Entries)),
         written : Nat]

CallsTyped == calls \in Seq(Call)

RidEntries == {e \in Entries : e.f = 0}

\* The line is continued, or logged and begun anew.
Continued(log, base) == base.line = log.line /\ base.lines = log.lines
Renewed(log, base, text) ==
  /\ \E rid \in RidEntries : rid.style = Style(text) /\ base.line = <<rid>>
  /\ base.lines = Logged(log).lines

\* A field is too wide and left out, or it is put behind what there is.
Outcome(log, f, new) ==
  /\ new.length \in Nat /\ new.written \in Nat
  /\ new.written < NGX_MAX_ERROR_STR
  /\ \/ /\ TooWide(f)
        /\ Continued(log, new) /\ new.length = log.length
     \/ /\ ~TooWide(f) /\ new.length >= 1
        /\ \E kept \in Nat :
             /\ kept < Chars(calls[f].val) => MayBeCut(f, kept)
             /\ \/ /\ new.line = Append(log.line, Entry(f, kept))
                   /\ new.lines = log.lines
                \/ /\ \E rid \in RidEntries :
                        /\ rid.style = BegunAs(f)
                        /\ new.line = Append(<<rid>>, Entry(f, kept))
                   /\ new.lines = Logged(log).lines

LEMMA RidKnown ==
  ASSUME CallsTyped, NEW text
  PROVE  RidEntry(text) \in RidEntries /\ RidEntry(text).style = Style(text)
  <1>1. 0 \in 0 .. Len(calls) /\ Rid \in Nat
    <2> HIDE DEF Call
    <2>1. QED
      BY Sizes DEF CallsTyped
  <1>2. QED
    BY <1>1 DEF RidEntry, RidEntries, Entries, Style

\* There is room in the line, or the line is new.
LEMMA RoomKnown ==
  ASSUME CallsTyped, NEW log, log \in Logs, NEW n \in Nat, NEW text
  PROVE  LET room == Roomy(log, n, text) IN
         /\ room \in Logs /\ room.written = log.written
         /\ \/ /\ Continued(log, room) /\ room.length = log.length
               /\ log.length + n < NAXSI_LOG_MAX
            \/ /\ Renewed(log, room, text) /\ log.length + n >= NAXSI_LOG_MAX
               /\ room.length = IF text THEN Rid + 4 ELSE Rid + 8
  <1> DEFINE room == Roomy(log, n, text)
             size == IF text THEN Rid + 4 ELSE Rid + 8
  <1>1. /\ log.length \in Nat /\ log.line \in Seq(Entries)
        /\ log.lines \in Seq(Seq(Entries)) /\ log.written \in Nat
    BY DEF Logs
  <1>2. CASE log.length + n >= NAXSI_LOG_MAX
    <2> DEFINE logged == Logged(log)
    <2>1. logged \in Logs /\ logged.written = log.written
      <3>1. CASE log.length > 0
        <4>1. Append(log.lines, log.line) \in Seq(Seq(Entries))
          BY <1>1
        <4>2. logged = [log EXCEPT !.lines = Append(log.lines, log.line)]
          BY <3>1 DEF Logged
        <4>3. QED
          BY <1>1, <4>1, <4>2 DEF Logs
      <3>2. CASE ~(log.length > 0)
        BY <3>2 DEF Logged
      <3>3. QED
        BY <3>1, <3>2
    <2>2. room = Begun(logged, text)
      BY <1>2 DEF Roomy, flush
    <2> HIDE DEF logged, room
    <2>3. size \in Nat
      BY Sizes
    <2> DEFINE rid == RidEntry(text)
    <2>4. /\ rid \in RidEntries /\ <<rid>> \in Seq(Entries)
          /\ rid.style = Style(text)
      BY RidKnown DEF RidEntries
    <2>5. room = [logged EXCEPT !.line = <<rid>>, !.length = size]
      BY <2>2, Zenon DEF Begun
    <2> HIDE DEF size, rid
    <2>6. /\ room \in Logs /\ room.written = logged.written
          /\ room.line = <<rid>> /\ room.length = size
          /\ room.lines = logged.lines
      BY <2>1, <2>3, <2>4, <2>5 DEF Logs
    <2>7. Renewed(log, room, text)
      BY <2>4, <2>6 DEF Renewed, logged
    <2>8. QED
      BY <1>2, <2>1, <2>6, <2>7 DEF room, size
  <1>3. CASE ~(log.length + n >= NAXSI_LOG_MAX)
    <2>1. room = log
      BY <1>3 DEF Roomy
    <2>2. QED
      BY <1>1, <1>3, <2>1, Sizes DEF Continued
  <1>4. QED
    BY <1>2, <1>3

LEMMA RestKnown ==
  ASSUME NEW log, log.length \in Nat, log.length < NAXSI_LOG_MAX
  PROVE  Rest(log) = NAXSI_LOG_MAX - log.length
  BY Sizes, Modulo DEF Rest

\* What is printed stays in the line, as there is room for a byte.
LEMMA PrintedKnown ==
  ASSUME NEW log, log \in Logs, log.length < NAXSI_LOG_MAX, NEW n \in Nat
  PROVE  LET new == Printed(log, n) IN
         /\ new \in Logs /\ new.length = log.length + n
         /\ new.line = log.line /\ new.lines = log.lines
         /\ new.written < NAXSI_LOG_MAX
  <1> DEFINE rest == NAXSI_LOG_MAX - log.length
             w == log.length + (IF n < rest THEN n ELSE rest - 1)
             l == log.length + n
  <1>1. /\ log.length \in Nat /\ log.line \in Seq(Entries)
        /\ log.lines \in Seq(Seq(Entries)) /\ log.written \in Nat
    BY DEF Logs
  <1>2. Rest(log) = rest
    BY <1>1, RestKnown
  <1>3. w \in Nat /\ w < NAXSI_LOG_MAX /\ l \in Nat
    BY <1>1, Sizes
  <1>4. Printed(log, n) = [log EXCEPT !.length = l, !.written = w]
    BY <1>2 DEF Printed
  <1> HIDE DEF w, l
  <1>5. /\ [log EXCEPT !.length = l, !.written = w] \in Logs
        /\ [log EXCEPT !.length = l, !.written = w].length = l
        /\ [log EXCEPT !.length = l, !.written = w].written = w
        /\ [log EXCEPT !.length = l, !.written = w].line = log.line
        /\ [log EXCEPT !.length = l, !.written = w].lines = log.lines
    BY <1>1, <1>3 DEF Logs
  <1>6. QED
    BY <1>3, <1>4, <1>5 DEF l

LEMMA PutKnown ==
  ASSUME NEW log, log \in Logs, NEW e
  PROVE  LET new == Put(log, e) IN
         /\ new.length = log.length /\ new.written = log.written
         /\ new.line = Append(log.line, e) /\ new.lines = log.lines
  BY DEF Put, Logs

\* A field is put where there is room for it.
LEMMA Placed ==
  ASSUME NEW log, NEW room, NEW new, NEW f, NEW kept \in Nat, NEW text,
         Style(text) = BegunAs(f),
         Continued(log, room) \/ Renewed(log, room, text),
         new.line = Append(room.line, Entry(f, kept)), new.lines = room.lines,
         new.length \in Nat, new.length >= 1,
         new.written \in Nat, new.written < NGX_MAX_ERROR_STR,
         ~TooWide(f),
         kept < Chars(calls[f].val) => MayBeCut(f, kept)
  PROVE  Outcome(log, f, new)
  <1>1. CASE Continued(log, room)
    BY <1>1 DEF Outcome, Continued
  <1>2. CASE Renewed(log, room, text)
    BY <1>2 DEF Outcome, Renewed
  <1>3. QED
    BY <1>1, <1>2

\* A value that is not a string: asked bytes of room, n printed.
LEMMA PrintOutcome ==
  ASSUME CallsTyped, NEW log, log \in Logs,
         NEW f, NEW v \in Values, v = calls[f].val,
         NEW asked \in Nat, NEW n \in Nat, n >= 1, NEW text,
         Style(text) = BegunAs(f),
         \/ asked = n /\ calls[f].fn \in {"cstring", "number"}
         \/ asked + 1 = n /\ as_json /\ calls[f].fn = "number",
         IF text THEN Rid + 4 + n >= NAXSI_LOG_MAX
                        => \/ Rid + Key + Chars(v) + 6 >= NAXSI_LOG_MAX
                              /\ ~as_json
                           \/ Rid + Key + Chars(v) + 8 >= NAXSI_LOG_MAX
                              /\ as_json /\ calls[f].fn = "number"
         ELSE Rid + 8 + n >= NAXSI_LOG_MAX
                => Rid + Key + Chars(v) + 14 >= NAXSI_LOG_MAX
                   /\ as_json /\ calls[f].fn = "cstring"
  PROVE  Outcome(log, f, print(log, f, v, asked, n, text))
  <1> DEFINE room == Roomy(log, asked, text)
             lost == Cut(room, n)
             kept == IF lost < Chars(v) THEN Chars(v) - lost ELSE 0
             printed == Printed(room, n)
             new == Put(printed, Entry(f, kept))
  <1>1. /\ room \in Logs
        /\ \/ /\ Continued(log, room) /\ room.length = log.length
              /\ log.length + asked < NAXSI_LOG_MAX
           \/ /\ Renewed(log, room, text)
              /\ room.length = IF text THEN Rid + 4 ELSE Rid + 8
    BY RoomKnown
  <1> HIDE DEF room
  <1>2. room.length \in Nat /\ log.length \in Nat /\ Chars(v) \in Nat
    BY <1>1, ValueKnown DEF Logs
  <1>3. room.length < NAXSI_LOG_MAX
    BY <1>1, <1>2, Sizes
  <1>4. /\ printed \in Logs /\ printed.length = room.length + n
        /\ printed.line = room.line /\ printed.lines = room.lines
        /\ printed.written < NAXSI_LOG_MAX
    BY <1>1, <1>3, PrintedKnown
  <1> HIDE DEF printed
  <1>5. /\ lost \in Nat
        /\ \/ lost = 0
           \/ /\ room.length + n >= NAXSI_LOG_MAX
              /\ lost = room.length + n - (NAXSI_LOG_MAX - 1)
    BY <1>2, Sizes DEF Cut
  <1> HIDE DEF lost
  <1>6. /\ kept \in Nat /\ (kept < Chars(v) => lost # 0)
        /\ lost = 1 /\ kept < Chars(v) => kept = Chars(v) - 1
    BY <1>2, <1>5
  <1> HIDE DEF kept
  <1>7. ASSUME kept < Chars(v)
        PROVE  MayBeCut(f, kept)
    <2>1. /\ room.length + n >= NAXSI_LOG_MAX
          /\ lost = room.length + n - (NAXSI_LOG_MAX - 1)
      BY <1>5, <1>6, <1>7
    <2>2. CASE /\ Continued(log, room) /\ room.length = log.length
               /\ log.length + asked < NAXSI_LOG_MAX
      <3>1. asked + 1 = n /\ as_json /\ calls[f].fn = "number"
        BY <1>2, <2>1, <2>2, Sizes
      <3>2. lost = 1
        BY <1>2, <2>1, <2>2, <3>1, Sizes
      <3>3. kept = Chars(v) - 1
        BY <1>6, <1>7, <3>2
      <3>4. QED
        BY <3>1, <3>3 DEF MayBeCut
    <2>3. CASE room.length = IF text THEN Rid + 4 ELSE Rid + 8
      <3>1. CASE text
        <4>1. \/ Rid + Key + Chars(v) + 6 >= NAXSI_LOG_MAX /\ ~as_json
              \/ Rid + Key + Chars(v) + 8 >= NAXSI_LOG_MAX
                 /\ as_json /\ calls[f].fn = "number"
          BY <2>1, <2>3, <3>1
        <4>2. calls[f].fn \in {"cstring", "number"}
          OBVIOUS
        <4>3. QED
          BY <4>1, <4>2 DEF MayBeCut
      <3>2. CASE ~text
        <4>1. Rid + Key + Chars(v) + 14 >= NAXSI_LOG_MAX
              /\ as_json /\ calls[f].fn = "cstring"
          BY <2>1, <2>3, <3>2
        <4>2. QED
          BY <4>1 DEF MayBeCut
      <3>3. QED
        BY <3>1, <3>2
    <2>4. QED
      BY <1>1, <2>2, <2>3
  <1>8. /\ new.length = printed.length /\ new.written = printed.written
        /\ new.line = Append(printed.line, Entry(f, kept))
        /\ new.lines = printed.lines
    BY <1>4, PutKnown
  <1>9. print(log, f, v, asked, n, text) = new
    BY DEF print, room, lost, kept, printed
  <1> HIDE DEF new
  <1>10. ~TooWide(f)
    BY DEF TooWide
  <1>11. /\ new.length \in Nat /\ new.length >= 1
         /\ new.written \in Nat /\ new.written < NGX_MAX_ERROR_STR
    <2>1. printed.written \in Nat
      BY <1>4 DEF Logs
    <2>2. QED
      BY <1>2, <1>4, <1>8, <2>1, Sizes, SMTT(30)
  <1>12. QED
    BY <1>1, <1>4, <1>6, <1>7, <1>8, <1>9, <1>10, <1>11, Placed

\* A string in a text line.
LEMMA TextOutcome ==
  ASSUME CallsTyped, NEW log, log \in Logs,
         log.written < NGX_MAX_ERROR_STR,
         NEW f, NEW v \in Values, v = calls[f].val,
         calls[f].fn = "string", ~as_json
  PROVE  Outcome(log, f, text_string(log, f, v))
  <1> DEFINE k == Halve(Chars(v), HalfLine)
             wide(n) == TextWidth(v, n) + Key + 2
             room == Roomy(log, wide(k), TRUE)
             fit == {n \in Nat : n <= 1 \/ room.length + wide(n) < NAXSI_LOG_MAX}
             kept == Halve(k, fit)
             full == room.length + wide(kept) - (IF room.length < 1 THEN 1 ELSE 0)
             plain == [room EXCEPT !.length = full, !.written = full]
             dots == Printed(plain, 3)
             new == text_string(log, f, v)
  <1>1. /\ k \in Nat /\ k \in HalfLine /\ Chars(v) \in Nat
        /\ Chars(v) \in HalfLine => k = Chars(v)
    BY ValueKnown, HalfLineKnown, Halved
  <1>2. new = IF TextWidth(v, k) >= NAXSI_LOG_MAX THEN log
              ELSE IF room.length + wide(kept) >= NAXSI_LOG_MAX THEN room
              ELSE IF kept < Chars(v) THEN Put(dots, Entry(f, kept))
              ELSE Put(plain, Entry(f, kept))
    BY DEF text_string
  <1>3. TooWide(f) <=> TextWidth(v, k) >= NAXSI_LOG_MAX
    BY DEF TooWide
  <1> HIDE DEF k, new
  <1>4. CASE TextWidth(v, k) >= NAXSI_LOG_MAX
    <2>1. new = log /\ TooWide(f)
      BY <1>2, <1>3, <1>4
    <2>2. QED
      BY <2>1 DEF Outcome, Continued, Logs, new
  <1>5. CASE ~(TextWidth(v, k) >= NAXSI_LOG_MAX)
    <2>1. TextWidth(v, k) \in Nat /\ wide(k) \in Nat
      BY <1>1, TextWidthKnown, Sizes
    <2> DEFINE renewed == Renewed(log, room, TRUE)
    <2>2. /\ room \in Logs
          /\ \/ /\ Continued(log, room)
                /\ room.length + wide(k) < NAXSI_LOG_MAX
             \/ renewed /\ room.length = Rid + 4
      BY <2>1, RoomKnown
    <2> HIDE DEF room, renewed
    <2>3. room.length \in Nat
      BY <2>2 DEF Logs
    <2>4. /\ kept \in Nat /\ kept <= k /\ kept \in fit
          /\ k \in fit => kept = k
      BY <1>1, Halved
    <2> HIDE DEF kept
    <2>5. TextWidth(v, kept) \in Nat /\ TextWidth(v, kept) <= 3 * kept
      BY <2>4, TextWidthKnown
    <2>6. room.length + wide(kept) < NAXSI_LOG_MAX
      <3>1. CASE kept > 1
        BY <2>4, <3>1
      <3>2. CASE kept <= 1 /\ room.length = Rid + 4
        BY <2>3, <2>4, <2>5, <3>2, Sizes
      <3>3. CASE room.length + wide(k) < NAXSI_LOG_MAX
        <4>1. k \in fit
          BY <1>1, <3>3
        <4>2. QED
          BY <2>4, <3>3, <4>1
      <3>4. QED
        BY <2>2, <2>4, <3>1, <3>2, <3>3
    <2>7. full \in Nat /\ full >= 1 /\ full < NAXSI_LOG_MAX
      BY <2>3, <2>5, <2>6, Sizes
    <2>8. ASSUME kept < Chars(v)
          PROVE  MayBeCut(f, kept)
      <3>1. SUFFICES ASSUME Chars(v) \in HalfLine
                     PROVE  Rid + Key + TextWidth(v, Chars(v)) + 6 >= NAXSI_LOG_MAX
        BY DEF MayBeCut
      <3>2. k = Chars(v) /\ k \notin fit
        BY <1>1, <2>4, <2>8, <3>1
      <3>3. ~(room.length + wide(k) < NAXSI_LOG_MAX)
        BY <1>1, <3>2
      <3>4. QED
        BY <1>1, <2>1, <2>2, <2>3, <3>2, <3>3, Sizes
    <2> HIDE DEF full
    <2>9. /\ plain \in Logs /\ plain.length = full /\ plain.written = full
          /\ plain.line = room.line /\ plain.lines = room.lines
      BY <2>2, <2>7 DEF Logs
    <2> HIDE DEF plain
    <2>10. /\ dots \in Logs /\ dots.length = full + 3
           /\ dots.line = room.line /\ dots.lines = room.lines
           /\ dots.written < NAXSI_LOG_MAX
      BY <2>7, <2>9, PrintedKnown
    <2> HIDE DEF dots
    <2>11. dots.written \in Nat
      BY <2>10 DEF Logs
    <2>12. \/ /\ new.length = full + 3 /\ new.written = dots.written
              /\ new.line = Append(room.line, Entry(f, kept))
              /\ new.lines = room.lines
           \/ /\ new.length = full /\ new.written = full
              /\ new.line = Append(room.line, Entry(f, kept))
              /\ new.lines = room.lines
      <3>1. new = Put(dots, Entry(f, kept)) \/ new = Put(plain, Entry(f, kept))
        BY <1>2, <1>5, <2>3, <2>5, <2>6, Sizes
      <3>2. CASE new = Put(dots, Entry(f, kept))
        BY <2>10, <3>2, PutKnown
      <3>3. CASE new = Put(plain, Entry(f, kept))
        BY <2>9, <3>3, PutKnown
      <3>4. QED
        BY <3>1, <3>2, <3>3
    <2>13. /\ new.length \in Nat /\ new.length >= 1
           /\ new.written \in Nat /\ new.written < NGX_MAX_ERROR_STR
           /\ new.line = Append(room.line, Entry(f, kept))
           /\ new.lines = room.lines
      BY <2>7, <2>10, <2>11, <2>12, Sizes
    <2>14. ~TooWide(f)
      BY <1>3, <1>5
    <2>15. Style(TRUE) = BegunAs(f)
      BY DEF BegunAs, Style
    <2>16. Outcome(log, f, new)
      BY <2>2, <2>4, <2>8, <2>13, <2>14, <2>15, Placed DEF renewed
    <2>17. QED
      BY <2>16 DEF new
  <1>6. QED
    BY <1>4, <1>5

\* The escaped bytes of a string in a JSON line: all of them, or as many as fit,
\* so that one more would fill the line.
LEMMA EscapedKnown ==
  ASSUME NEW log, log \in Logs, log.length + 1 < NAXSI_LOG_MAX,
         NEW v \in Values, NEW asked \in Nat
  PROVE  /\ escaped_bytes(log, v, asked) \in 0 .. asked
         /\ JsonWidth(v, escaped_bytes(log, v, asked)) \in Nat
         /\ log.length + 1 + JsonWidth(v, escaped_bytes(log, v, asked))
              < NAXSI_LOG_MAX + 2
         /\ \/ escaped_bytes(log, v, asked) = asked
            \/ log.length + 1 + JsonWidth(v, escaped_bytes(log, v, asked) + 1)
                 >= NAXSI_LOG_MAX
  <1> DEFINE T == {k \in 0 .. asked : \A i \in 1 .. k : escape_fits(log, v, i)}
             P(k) == /\ \A i \in 1 .. k : escape_fits(log, v, i)
                     /\ k = asked \/ ~escape_fits(log, v, k + 1)
             n == escaped_bytes(log, v, asked)
             out == log.length + 1 + JsonWidth(v, n)
  <1>1. log.length \in Nat
    BY DEF Logs
  <1>2. T \subseteq 0 .. asked /\ T # {}
    <2>1. 0 \in T
      OBVIOUS
    <2>2. QED
      BY <2>1
  <1>3. PICK m \in T : \A k \in T : k <= m
    <2> HIDE DEF T
    <2>1. QED
      BY <1>2, Largest
  <1>4. P(m)
    <2>1. SUFFICES ASSUME m # asked, escape_fits(log, v, m + 1)
                   PROVE  FALSE
      BY <1>3
    <2>2. m + 1 \in 0 .. asked /\ m \in Nat
      BY <1>3, <2>1
    <2>3. \A i \in 1 .. m + 1 : i \in 1 .. m \/ i = m + 1
      BY <2>2
    <2>4. m + 1 \in T
      BY <1>3, <2>1, <2>2, <2>3
    <2>5. QED
      BY <1>3, <2>2, <2>4
  <1>5. m \in 0 .. asked
    BY <1>3
  <1>6. n \in 0 .. asked /\ P(n)
    <2>1. n = CHOOSE k \in 0 .. asked : P(k)
      BY DEF escaped_bytes
    <2> HIDE DEF P, n
    <2>2. QED
      BY <1>4, <1>5, <2>1
  <1> HIDE DEF P
  <1> HIDE DEF n
  <1>7. n \in Nat /\ JsonWidth(v, n) \in Nat
    BY <1>6, JsonWidthKnown
  <1>8. out \in Nat /\ out < NAXSI_LOG_MAX + 2
    <2>1. CASE n = 0
      <3>1. JsonWidth(v, 0) = 0
        BY ValueKnown DEF JsonWidth
      <3>2. QED
        BY <1>1, <2>1, <3>1, Sizes
    <2>2. CASE n >= 1
      <3>1. n \in 1 .. n
        BY <1>7, <2>2
      <3>2. escape_fits(log, v, n)
        BY <1>6, <3>1 DEF P
      <3>3. QED
        BY <1>1, <1>7, <3>2, Sizes DEF escape_fits
    <2>3. QED
      BY <1>7, <2>1, <2>2
  <1>9. n = asked \/ log.length + 1 + JsonWidth(v, n + 1) >= NAXSI_LOG_MAX
    <2>1. SUFFICES ASSUME n # asked
                   PROVE  log.length + 1 + JsonWidth(v, n + 1) >= NAXSI_LOG_MAX
      OBVIOUS
    <2>2. ~escape_fits(log, v, n + 1)
      BY <1>6, <2>1 DEF P
    <2>3. n + 1 \in Nat
      BY <1>7
    <2>4. JsonWidth(v, n + 1) \in Nat
      BY <2>3, JsonWidthKnown
    <2>5. QED
      BY <1>1, <2>2, <2>4, Sizes DEF escape_fits
  <1>10. QED
    BY <1>6, <1>7, <1>8, <1>9 DEF n

\* A string in a JSON line.
LEMMA JsonOutcome ==
  ASSUME CallsTyped, NEW log, log \in Logs,
         NEW f, NEW v \in Values, v = calls[f].val,
         calls[f].fn = "string", as_json
  PROVE  Outcome(log, f, json_string(log, f, v))
  <1> DEFINE val_len == IF Chars(v) >= NAXSI_LOG_MAX
                        THEN (NAXSI_LOG_MAX - (log.length + 6)) % SizeT
                        ELSE Chars(v)
             k == Halve(val_len, HalfLine)
             room == Roomy(log, Key + k + 6, FALSE)
             renewed == Renewed(log, room, FALSE)
             key == IF room.length < 1 THEN Key + 3 ELSE Key + 4
             named == Printed(room, key)
             asked == IF k > Rest(named) THEN Rest(named) ELSE k
             n == escaped_bytes(named, v, asked)
             out == named.length + 1 + JsonWidth(v, n)
             dots == IF k < val_len /\ out + 4 < NAXSI_LOG_MAX THEN 3 ELSE 0
             quote == IF out + dots < NAXSI_LOG_MAX THEN 1 ELSE 0
             last == out + dots + quote
             ready == [named EXCEPT !.length = last, !.written = last]
             new == Put(ready, Entry(f, n))
  <1>1. log.length \in Nat /\ Chars(v) \in Nat
    BY ValueKnown DEF Logs
  <1>2. val_len \in Nat
    <2>1. NAXSI_LOG_MAX - (log.length + 6) \in Int
      BY <1>1, Sizes
    <2>2. QED
      BY <1>1, <2>1, Modulo
  <1>3. /\ k \in Nat /\ k \in HalfLine
        /\ val_len \in HalfLine => k = val_len
    BY <1>2, HalfLineKnown, Halved
  <1>4. Chars(v) \in HalfLine => val_len = Chars(v)
    <2>1. SUFFICES ASSUME Chars(v) \in HalfLine
                   PROVE  ~(Chars(v) >= NAXSI_LOG_MAX)
      BY Zenon
    <2>2. QED
      BY <1>1, <2>1, HalfLineKnown, Sizes
  <1> HIDE DEF val_len, k
  <1>5. /\ room \in Logs
        /\ room.length + Key + k + 6 < NAXSI_LOG_MAX
        /\ Continued(log, room) \/ renewed
    <2> DEFINE need == Key + k + 6
    <2>1. need \in Nat
      BY <1>3, Sizes
    <2> HIDE DEF need
    <2>2. /\ room \in Logs
          /\ \/ /\ Continued(log, room) /\ room.length = log.length
                /\ log.length + need < NAXSI_LOG_MAX
             \/ renewed /\ room.length = Rid + 8
      <3> DEFINE R(r, text) ==
            /\ r \in Logs /\ r.written = log.written
            /\ \/ /\ Continued(log, r) /\ r.length = log.length
                  /\ log.length + need < NAXSI_LOG_MAX
               \/ /\ Renewed(log, r, text) /\ log.length + need >= NAXSI_LOG_MAX
                  /\ r.length = IF text THEN Rid + 4 ELSE Rid + 8
      <3>1. R(Roomy(log, need, FALSE), FALSE)
        BY <2>1, RoomKnown
      <3>2. room = Roomy(log, need, FALSE)
        BY DEF need, room
      <3>3. QED
        BY <3>1, <3>2
    <2> HIDE DEF room, renewed
    <2>3. k + Rid + Key + 15 < NAXSI_LOG_MAX
      BY <1>3, HalfLineKnown
    <2>4. QED
      <3>1. need = Key + k + 6
        BY DEF need
      <3>2. CASE Continued(log, room) /\ room.length = log.length
        BY <1>1, <1>3, <2>2, <2>3, <3>1, <3>2, Sizes
      <3>3. CASE renewed /\ room.length = Rid + 8
        BY <1>3, <2>2, <2>3, <3>1, <3>3, Sizes
      <3>4. QED
        BY <2>2, <3>2, <3>3
  <1> HIDE DEF room, renewed
  <1>6. room.length \in Nat
    BY <1>5 DEF Logs
  <1>7. key \in Nat /\ key <= Key + 4
    BY Sizes
  <1> HIDE DEF key
  <1>8. /\ named \in Logs /\ named.length = room.length + key
        /\ named.line = room.line /\ named.lines = room.lines
    BY <1>3, <1>5, <1>6, <1>7, Sizes, PrintedKnown
  <1> HIDE DEF named
  <1>9. /\ named.length \in Nat /\ named.length + 2 + k < NAXSI_LOG_MAX
    BY <1>3, <1>5, <1>6, <1>7, <1>8, Sizes
  <1>10. asked = k
    <2>1. Rest(named) = NAXSI_LOG_MAX - named.length
      BY <1>3, <1>9, Sizes, RestKnown
    <2>2. QED
      BY <1>3, <1>9, <2>1, Sizes
  <1> HIDE DEF asked
  <1>11. /\ n \in 0 .. asked
         /\ out \in Nat /\ out < NAXSI_LOG_MAX + 2
         /\ n = asked \/ named.length + 1 + JsonWidth(v, n + 1) >= NAXSI_LOG_MAX
    <2>1. asked \in Nat /\ named.length + 1 < NAXSI_LOG_MAX
      BY <1>3, <1>9, <1>10, Sizes
    <2> HIDE DEF n
    <2>2. /\ n \in 0 .. asked /\ JsonWidth(v, n) \in Nat
          /\ named.length + 1 + JsonWidth(v, n) < NAXSI_LOG_MAX + 2
          /\ n = asked \/ named.length + 1 + JsonWidth(v, n + 1) >= NAXSI_LOG_MAX
      BY <1>8, <2>1, EscapedKnown DEF n
    <2>3. QED
      BY <1>9, <2>2
  <1>12. out >= 1
    <2>1. n \in Nat
      BY <1>3, <1>10, <1>11
    <2>2. JsonWidth(v, n) \in Nat
      BY <2>1, JsonWidthKnown
    <2>3. QED
      BY <1>9, <2>2
  <1>13. json_string(log, f, v) = new
    BY DEF json_string, escape_json_string, val_len, k, room, key, named, asked
  <1> HIDE DEF n, out
  <1>14. last \in Nat /\ last >= 1 /\ last < NGX_MAX_ERROR_STR
    BY <1>11, <1>12, Sizes
  <1> HIDE DEF last
  <1>15. /\ ready \in Logs /\ ready.length = last /\ ready.written = last
         /\ ready.line = room.line /\ ready.lines = room.lines
    BY <1>8, <1>14 DEF Logs
  <1> HIDE DEF ready
  <1>16. /\ new.length = last /\ new.written = last
         /\ new.line = Append(room.line, Entry(f, n)) /\ new.lines = room.lines
    BY <1>15, PutKnown
  <1> HIDE DEF new
  <1>17. ASSUME n < Chars(v)
         PROVE  MayBeCut(f, n)
    <2>1. SUFFICES ASSUME Chars(v) \in HalfLine
                   PROVE  JsonWidth(v, n + 1) > Chars(v)
      BY DEF MayBeCut
    <2>2. k = Chars(v)
      BY <1>3, <1>4, <2>1
    <2>3. n # asked
      BY <1>10, <1>17, <2>2, <1>1, <1>3
    <2>4. JsonWidth(v, n + 1) \in Nat
      <3>1. n + 1 \in Nat
        BY <1>3, <1>10, <1>11
      <3>2. QED
        BY <3>1, JsonWidthKnown
    <2>5. named.length + 1 + JsonWidth(v, n + 1) >= NAXSI_LOG_MAX
      BY <1>11, <2>3
    <2>6. QED
      BY <1>1, <1>9, <2>2, <2>4, <2>5, Sizes
  <1>18. ~TooWide(f)
    BY DEF TooWide
  <1>19. n \in Nat
    BY <1>3, <1>10, <1>11
  <1>20. Style(FALSE) = BegunAs(f)
    BY DEF BegunAs, Style
  <1>21. Outcome(log, f, new)
    BY <1>5, <1>14, <1>16, <1>17, <1>18, <1>19, <1>20, Placed DEF renewed
  <1>22. QED
    BY <1>13, <1>21

\* Whatever is written.
LEMMA WrittenOutcome ==
  ASSUME CallsTyped, NEW log, log \in Logs,
         log.written < NGX_MAX_ERROR_STR,
         NEW f, NEW call \in Call, call = calls[f], as_json \in BOOLEAN
  PROVE  Outcome(log, f, Written(log, f, call))
  <1> DEFINE v == call.val
  <1>1. /\ v \in Values /\ call.fn \in {"string", "cstring", "number"}
        /\ v = calls[f].val /\ call.fn = calls[f].fn
    BY DEF Call
  <1> HIDE DEF v
  <1>2. /\ Chars(v) \in Nat /\ Key \in Nat /\ Key >= 1
        /\ Rid \in Nat /\ NAXSI_LOG_MAX \in Nat
    BY <1>1, ValueKnown, Sizes
  <1>3. CASE as_json /\ call.fn = "string"
    <2>1. Written(log, f, call) = json_string(log, f, v)
      BY <1>3 DEF Written, v
    <2>2. QED
      BY <1>1, <1>3, <2>1, JsonOutcome
  <1>4. CASE as_json /\ call.fn = "cstring"
    <2> DEFINE n == Key + Chars(v) + 6
    <2>1. Written(log, f, call) = print(log, f, v, n, n, FALSE)
      BY <1>4 DEF Written, json_cstring, v
    <2>2. /\ n \in Nat /\ n >= 1
          /\ Rid + 8 + n >= NAXSI_LOG_MAX
               => Rid + Key + Chars(v) + 14 >= NAXSI_LOG_MAX
      BY <1>2
    <2> HIDE DEF n
    <2>3. Style(FALSE) = BegunAs(f)
      BY <1>1, <1>4 DEF BegunAs, Style
    <2>4. Outcome(log, f, print(log, f, v, n, n, FALSE))
      BY <1>1, <1>4, <2>2, <2>3, PrintOutcome
    <2>5. QED
      BY <2>1, <2>4
  <1>5. CASE as_json /\ call.fn = "number"
    <2> DEFINE n == Key + Chars(v) + 4
               asked == Key + Chars(v) + 3
    <2>1. Written(log, f, call) = print(log, f, v, asked, n, TRUE)
      BY <1>5 DEF Written, json_number, v
    <2>2. /\ n \in Nat /\ n >= 1 /\ asked \in Nat /\ asked + 1 = n
          /\ Rid + 4 + n >= NAXSI_LOG_MAX
               => Rid + Key + Chars(v) + 8 >= NAXSI_LOG_MAX
      BY <1>2
    <2> HIDE DEF n, asked
    <2>3. Style(TRUE) = BegunAs(f)
      BY <1>1, <1>5 DEF BegunAs, Style
    <2>4. Outcome(log, f, print(log, f, v, asked, n, TRUE))
      BY <1>1, <1>5, <2>2, <2>3, PrintOutcome
    <2>5. QED
      BY <2>1, <2>4
  <1>6. CASE ~as_json /\ call.fn = "string"
    <2>1. Written(log, f, call) = text_string(log, f, v)
      BY <1>6 DEF Written, v
    <2>2. QED
      BY <1>1, <1>6, <2>1, TextOutcome
  <1>7. CASE ~as_json /\ call.fn # "string"
    <2> DEFINE n == Key + Chars(v) + 2
    <2>1. Written(log, f, call) = print(log, f, v, n, n, TRUE)
      BY <1>7 DEF Written, text_print, v
    <2>2. /\ n \in Nat /\ n >= 1
          /\ Rid + 4 + n >= NAXSI_LOG_MAX
               => Rid + Key + Chars(v) + 6 >= NAXSI_LOG_MAX
      BY <1>2
    <2> HIDE DEF n
    <2>3. Style(TRUE) = BegunAs(f)
      BY <1>7 DEF BegunAs, Style
    <2>4. Outcome(log, f, print(log, f, v, n, n, TRUE))
      BY <1>1, <1>7, <2>2, <2>3, PrintOutcome
    <2>5. QED
      BY <2>1, <2>4
  <1>8. QED
    BY <1>1, <1>3, <1>4, <1>5, <1>6, <1>7, Zenon
-----------------------------------------------------------------------------
(***************************************************************************)
(* What there is to log                                                    *)
(***************************************************************************)
LEMMA FixedKnown == \A n \in Nat : Fixed(n) \in Values
  BY DEF Fixed, Values

LEMMA WriterKnown ==
  /\ \A v \in Values : String(v) \in Call
  /\ \A n \in Nat : Cstring(n) \in Call /\ Number(n) \in Call
  /\ Short \in Values
  BY FixedKnown DEF String, Cstring, Number, Call, Short

LEMMA CallsKnown ==
  ASSUME NEW r \in Report
  PROVE  Calls(r) \in Seq(Call)
  <1>1. /\ r.uri \in Values /\ r.name \in Values /\ r.content \in Values
        /\ r.tag \in Nat /\ r.number \in Nat /\ r.matches \in Nat
        /\ r.scores \in Seq(BOOLEAN)
    BY DEF Report
  <1>2. Rid \in Nat /\ 1 \in Nat
    BY Sizes
  <1>3. /\ String(Short) \in Call /\ String(r.uri) \in Call
        /\ String(r.name) \in Call /\ String(r.content) \in Call
        /\ Cstring(1) \in Call /\ Cstring(Rid) \in Call /\ Number(1) \in Call
        /\ Cstring(r.tag) \in Call /\ Number(r.number) \in Call
    BY <1>1, <1>2, WriterKnown
  <1> HIDE DEF Call
  <1>4. log_header(r) \in Seq(Call)
    BY <1>3 DEF log_header
  <1>5. log_extensive(r) \in Seq(Call)
    BY <1>3 DEF log_extensive
  <1>6. log_scores(r) \in Seq(Call)
    <2> DEFINE P == {t \in DOMAIN r.scores : r.scores[t]}
               n == 2 * Cardinality(P)
    <2>1. DOMAIN r.scores = 1 .. Len(r.scores) /\ Len(r.scores) \in Nat
      BY <1>1
    <2>2. IsFiniteSet(DOMAIN r.scores)
      BY <2>1, FS_Interval
    <2>3. IsFiniteSet(P)
      BY <2>2, FS_Subset
    <2>4. Cardinality(P) \in Nat
      BY <2>3, FS_CardinalityType
    <2>5. n \in Nat
      BY <2>4
    <2> HIDE DEF n
    <2>6. log_scores(r) = [i \in 1 .. n |->
                             IF i % 2 = 1 THEN Cstring(r.tag) ELSE Number(1)]
      BY DEF log_scores, n
    <2>7. QED
      BY <1>3, <2>5, <2>6
  <1>7. log_matches(r) \in Seq(Call)
    <2> DEFINE n == 3 * r.matches
    <2>1. n \in Nat
      BY <1>1
    <2> HIDE DEF n
    <2>2. log_matches(r) = [i \in 1 .. n |->
                              IF i % 3 = 1 THEN Cstring(1)
                              ELSE IF i % 3 = 2 THEN Number(r.number)
                              ELSE String(r.name)]
      BY DEF log_matches, n
    <2>3. QED
      BY <1>3, <2>1, <2>2
  <1>8. QED
    BY <1>4, <1>5, <1>6, <1>7 DEF Calls

-----------------------------------------------------------------------------
(***************************************************************************)
(* The inductive invariant                                                 *)
(***************************************************************************)

\* The lines, with the one that is being written.
Segments == IF ended THEN lines ELSE Append(lines, line)

\* The fields that are too wide, and how much may be left of those that are cut.
Wide == {f \in DOMAIN calls : TooWide(f)}
MayCut == {p \in (DOMAIN calls) \X Nat : MayBeCut(p[1], p[2])}

\* An entry is the request id, at the beginning of a line, or one of the first d
\* fields, which is not too wide and complete unless it may be cut.
EntriesRight(S, d) ==
  \A i \in DOMAIN S : \A k \in DOMAIN S[i] :
    /\ S[i][k].f \in 0 .. d
    /\ S[i][k].f = 0 => k = 1
    /\ S[i][k].f # 0 => S[i][k].f \notin Wide
    /\ S[i][k].f # 0 /\ S[i][k].kept < Chars(calls[S[i][k].f].val)
         => <<S[i][k].f, S[i][k].kept>> \in MayCut

\* A line begins with the request id, as it should, and holds more.
WellBegun(l) == Len(l) > 1 /\ l[1].f = 0 /\ l[1].style = BegunAs(l[2].f)

\* All lines but the first do.
Begins(S) == \A i \in DOMAIN S : i > 1 => WellBegun(S[i])

\* The fields come in order.
Ordered(S) ==
  \A i, j \in DOMAIN S : \A k \in DOMAIN S[i], m \in DOMAIN S[j] :
    /\ i < j \/ (i = j /\ k < m)
    /\ S[i][k].f # 0 /\ S[j][m].f # 0
    => S[i][k].f < S[j][m].f

\* The first d fields are there, unless they are too wide.
AllThere(S, d) ==
  \A f \in 1 .. d :
    f \in Wide \/ \E i \in DOMAIN S : \E k \in DOMAIN S[i] : S[i][k].f = f

Right(S, d) == EntriesRight(S, d) /\ Begins(S) /\ Ordered(S) /\ AllThere(S, d)

IInv ==
  /\ TypeOK
  /\ WithinBuffer
  /\ Right(Segments, done)
  /\ ~ended => (length > 0 <=> line # << >>)
  /\ ended => done = Len(calls)

\* T is S with request ids and, behind everything else, the entry e.
Extended(S, T, e) ==
  /\ \A i \in DOMAIN S : \A k \in DOMAIN S[i] :
       i \in DOMAIN T /\ k \in DOMAIN T[i] /\ T[i][k] = S[i][k]
  /\ \A i \in DOMAIN T : \A k \in DOMAIN T[i] :
       \/ i \in DOMAIN S /\ k \in DOMAIN S[i]
       \/ T[i][k].f = 0 /\ k = 1
       \/ T[i][k] = e /\ i = Len(T) /\ k = Len(T[i])
  /\ \E i \in DOMAIN T : \E k \in DOMAIN T[i] : T[i][k] = e
  /\ Begins(T)

LEMMA ExtendedRight ==
  ASSUME NEW d \in Nat, NEW kept, NEW S \in Seq(Seq(Entries)), NEW T \in Seq(Seq(Entries)),
         Right(S, d), Extended(S, T, Entry(d + 1, kept)),
         d + 1 \notin Wide,
         kept < Chars(calls[d + 1].val) => <<d + 1, kept>> \in MayCut
  PROVE  Right(T, d + 1)
  <1> DEFINE e == Entry(d + 1, kept)
  <1>1. e.f = d + 1 /\ e.kept = kept
    BY DEF Entry
  <1>2. /\ \A i \in DOMAIN S : \A k \in DOMAIN S[i] :
             i \in DOMAIN T /\ k \in DOMAIN T[i] /\ T[i][k] = S[i][k]
        /\ \A i \in DOMAIN T : \A k \in DOMAIN T[i] :
             \/ i \in DOMAIN S /\ k \in DOMAIN S[i]
             \/ T[i][k].f = 0 /\ k = 1
             \/ T[i][k] = e /\ i = Len(T) /\ k = Len(T[i])
        /\ \E i \in DOMAIN T : \E k \in DOMAIN T[i] : T[i][k] = e
        /\ Begins(T)
    BY DEF Extended
  <1> HIDE DEF e
  <1>3. EntriesRight(T, d + 1)
    <2> DEFINE R(x, k, n) ==
          /\ x.f \in 0 .. n
          /\ x.f = 0 => k = 1
          /\ x.f # 0 => x.f \notin Wide
          /\ x.f # 0 /\ x.kept < Chars(calls[x.f].val)
               => <<x.f, x.kept>> \in MayCut
    <2>1. SUFFICES ASSUME NEW i \in DOMAIN T, NEW k \in DOMAIN T[i]
                   PROVE  R(T[i][k], k, d + 1)
      BY DEF EntriesRight
    <2>2. CASE i \in DOMAIN S /\ k \in DOMAIN S[i]
      <3>1. T[i][k] = S[i][k]
        BY <1>2, <2>2
      <3>2. R(S[i][k], k, d)
        BY <2>2 DEF Right, EntriesRight
      <3>3. S[i][k].f \in 0 .. d => S[i][k].f \in 0 .. d + 1
        BY SMTT(30)
      <3>4. QED
        BY <3>1, <3>2, <3>3, Zenon
    <2>3. CASE T[i][k].f = 0 /\ k = 1
      BY <2>3
    <2>4. CASE T[i][k] = e
      <3>1. d + 1 \in 0 .. d + 1 /\ d + 1 # 0
        OBVIOUS
      <3>2. R(e, k, d + 1)
        BY <1>1, <3>1, Zenon
      <3>3. QED
        BY <2>4, <3>2, Zenon
    <2>5. QED
      BY <1>2, <2>2, <2>3, <2>4
  <1>4. Ordered(T)
    <2>1. SUFFICES ASSUME NEW i \in DOMAIN T, NEW j \in DOMAIN T,
                          NEW k \in DOMAIN T[i], NEW m \in DOMAIN T[j],
                          i < j \/ (i = j /\ k < m),
                          T[i][k].f # 0, T[j][m].f # 0
                   PROVE  T[i][k].f < T[j][m].f
      BY DEF Ordered
    <2>2. ~(i = Len(T) /\ k = Len(T[i]))
      <3>1. T[i] \in Seq(Entries) /\ T[j] \in Seq(Entries)
        OBVIOUS
      <3> HIDE DEF Entries
      <3>2. /\ i \in 1 .. Len(T) /\ j \in 1 .. Len(T) /\ Len(T) \in Nat
            /\ k \in 1 .. Len(T[i]) /\ m \in 1 .. Len(T[j])
            /\ Len(T[i]) \in Nat /\ Len(T[j]) \in Nat
        BY <3>1
      <3>3. QED
        BY <2>1, <3>2
    <2>3. \/ i \in DOMAIN S /\ k \in DOMAIN S[i]
          \/ T[i][k].f = 0 /\ k = 1
      BY <1>2, <2>2
    <2>4. i \in DOMAIN S /\ k \in DOMAIN S[i] /\ T[i][k] = S[i][k]
      BY <1>2, <2>1, <2>3
    <2>5. CASE j \in DOMAIN S /\ m \in DOMAIN S[j]
      <3>1. T[j][m] = S[j][m]
        BY <1>2, <2>5
      <3>2. QED
        BY <2>1, <2>4, <2>5, <3>1 DEF Right, Ordered
    <2>6. CASE T[j][m] = e
      <3>1. S[i][k].f \in 0 .. d
        BY <2>4 DEF Right, EntriesRight
      <3>2. QED
        BY <1>1, <2>4, <2>6, <3>1, SMTT(30)
    <2>7. QED
      BY <1>2, <2>1, <2>5, <2>6
  <1>5. AllThere(T, d + 1)
    <2>1. SUFFICES ASSUME NEW f \in 1 .. d + 1, f \notin Wide
                   PROVE  \E i \in DOMAIN T : \E k \in DOMAIN T[i] : T[i][k].f = f
      BY DEF AllThere
    <2>2. CASE f = d + 1
      BY <1>1, <1>2, <2>2
    <2>3. CASE f \in 1 .. d
      <3>1. PICK i \in DOMAIN S : \E k \in DOMAIN S[i] : S[i][k].f = f
        BY <2>1, <2>3 DEF Right, AllThere
      <3>2. QED
        BY <1>2, <3>1
    <2>4. QED
      BY <2>2, <2>3
  <1>6. QED
    BY <1>2, <1>3, <1>4, <1>5 DEF Right

\* An entry behind the line.
LEMMA Lengthened ==
  ASSUME NEW L \in Seq(Seq(Entries)), NEW l \in Seq(Entries), NEW e \in Entries,
         Begins(Append(L, l))
  PROVE  /\ Append(L, Append(l, e)) \in Seq(Seq(Entries))
         /\ Extended(Append(L, l), Append(L, Append(l, e)), e)
  <1> DEFINE S == Append(L, l)
             T == Append(L, Append(l, e))
             n == Len(L)
             p == Len(l)
  <1> HIDE DEF Entries
  <1>1. /\ n \in Nat /\ p \in Nat
        /\ DOMAIN S = 1 .. n + 1 /\ DOMAIN T = 1 .. n + 1 /\ Len(T) = n + 1
        /\ \A i \in 1 .. n : S[i] = L[i] /\ T[i] = L[i]
        /\ S[n + 1] = l /\ T[n + 1] = Append(l, e)
        /\ T \in Seq(Seq(Entries))
    OBVIOUS
  <1>2. /\ DOMAIN l = 1 .. p /\ DOMAIN Append(l, e) = 1 .. p + 1
        /\ Len(Append(l, e)) = p + 1
        /\ \A k \in 1 .. p : Append(l, e)[k] = l[k]
        /\ Append(l, e)[p + 1] = e /\ Append(l, e) # << >>
    OBVIOUS
  <1> HIDE DEF S, T, n, p
  <1>3. \A i \in 1 .. n + 1 : i \in 1 .. n \/ i = n + 1
    BY <1>1
  <1>4. \A i \in DOMAIN S : \A k \in DOMAIN S[i] :
          i \in DOMAIN T /\ k \in DOMAIN T[i] /\ T[i][k] = S[i][k]
    <2>1. SUFFICES ASSUME NEW i \in DOMAIN S, NEW k \in DOMAIN S[i]
                   PROVE  i \in DOMAIN T /\ k \in DOMAIN T[i] /\ T[i][k] = S[i][k]
      OBVIOUS
    <2>2. CASE i \in 1 .. n
      BY <1>1, <2>1, <2>2
    <2>3. CASE i = n + 1
      <3>1. k \in 1 .. p /\ k \in 1 .. p + 1
        BY <1>1, <1>2, <2>3
      <3>2. QED
        BY <1>1, <1>2, <2>3, <3>1
    <2>4. QED
      BY <1>1, <1>3, <2>2, <2>3
  <1>5. \A i \in DOMAIN T : \A k \in DOMAIN T[i] :
          \/ i \in DOMAIN S /\ k \in DOMAIN S[i]
          \/ T[i][k] = e /\ i = Len(T) /\ k = Len(T[i])
    <2>1. \A k \in 1 .. p + 1 : k \in 1 .. p \/ k = p + 1
      BY <1>1
    <2>2. QED
      BY <1>1, <1>2, <1>3, <2>1
  <1>6. \E i \in DOMAIN T : \E k \in DOMAIN T[i] : T[i][k] = e
    <2>1. n + 1 \in DOMAIN T /\ p + 1 \in DOMAIN T[n + 1] /\ T[n + 1][p + 1] = e
      BY <1>1, <1>2
    <2>2. QED
      BY <2>1, Zenon
  <1>7. Begins(T)
    <2>1. SUFFICES ASSUME NEW i \in DOMAIN T, i > 1
                   PROVE  WellBegun(T[i])
      BY DEF Begins
    <2>2. i \in DOMAIN S /\ WellBegun(S[i])
      BY <1>1, <2>1 DEF Begins, S
    <2>3. CASE i \in 1 .. n
      BY <1>1, <2>2, <2>3
    <2>4. CASE i = n + 1
      <3>1. p > 1
        BY <1>1, <2>2, <2>4 DEF p, WellBegun
      <3>2. 1 \in 1 .. p /\ 2 \in 1 .. p /\ p + 1 > 1
        BY <1>1, <3>1
      <3>3. T[i] = Append(l, e) /\ S[i] = l
        BY <1>1, <2>4
      <3>4. Len(T[i]) > 1
        BY <1>2, <3>2, <3>3
      <3>5. T[i][1] = S[i][1] /\ T[i][2] = S[i][2]
        BY <1>2, <3>2, <3>3
      <3>6. QED
        BY <2>2, <3>4, <3>5 DEF WellBegun
    <2>5. QED
      BY <1>1, <1>3, <2>3, <2>4
  <1>8. QED
    BY <1>1, <1>4, <1>5, <1>6, <1>7 DEF Extended, S, T

\* A new line, with an entry behind the request id.
LEMMA LineBegun ==
  ASSUME NEW S \in Seq(Seq(Entries)), NEW e \in Entries, NEW rid \in RidEntries,
         rid.style = BegunAs(e.f), Begins(S)
  PROVE  LET T == Append(S, Append(<<rid>>, e)) IN
         T \in Seq(Seq(Entries)) /\ Extended(S, T, e)
  <1> DEFINE l == Append(<<rid>>, e)
             T == Append(S, l)
             n == Len(S)
  <1>1. rid \in Entries /\ rid.f = 0
    BY DEF RidEntries
  <1> HIDE DEF Entries
  <1>2. /\ l \in Seq(Entries) /\ DOMAIN l = 1 .. 2 /\ Len(l) = 2
        /\ l[1] = rid /\ l[2] = e /\ l # << >>
    BY <1>1
  <1> HIDE DEF l
  <1>3. /\ n \in Nat /\ DOMAIN S = 1 .. n
        /\ DOMAIN T = 1 .. n + 1 /\ Len(T) = n + 1
        /\ \A i \in 1 .. n : T[i] = S[i]
        /\ T[n + 1] = l /\ T \in Seq(Seq(Entries))
    BY <1>2
  <1> HIDE DEF T, n
  <1>4. \A i \in 1 .. n + 1 : i \in 1 .. n \/ i = n + 1
    BY <1>3
  <1>5. \A i \in DOMAIN S : \A k \in DOMAIN S[i] :
          i \in DOMAIN T /\ k \in DOMAIN T[i] /\ T[i][k] = S[i][k]
    BY <1>3
  <1>6. \A i \in DOMAIN T : \A k \in DOMAIN T[i] :
          \/ i \in DOMAIN S /\ k \in DOMAIN S[i]
          \/ T[i][k].f = 0 /\ k = 1
          \/ T[i][k] = e /\ i = Len(T) /\ k = Len(T[i])
    <2>1. SUFFICES ASSUME NEW i \in DOMAIN T, NEW k \in DOMAIN T[i]
                   PROVE  \/ i \in DOMAIN S /\ k \in DOMAIN S[i]
                          \/ T[i][k].f = 0 /\ k = 1
                          \/ T[i][k] = e /\ i = Len(T) /\ k = Len(T[i])
      OBVIOUS
    <2>2. CASE i \in 1 .. n
      BY <1>3, <2>2
    <2>3. CASE i = n + 1
      <3>1. k = 1 \/ k = 2
        BY <1>2, <1>3, <2>3
      <3>2. QED
        BY <1>1, <1>2, <1>3, <2>3, <3>1
    <2>4. QED
      BY <1>3, <1>4, <2>2, <2>3
  <1>7. \E i \in DOMAIN T : \E k \in DOMAIN T[i] : T[i][k] = e
    <2>1. n + 1 \in DOMAIN T /\ 2 \in DOMAIN T[n + 1] /\ T[n + 1][2] = e
      BY <1>2, <1>3
    <2>2. QED
      BY <2>1, Zenon
  <1>8. Begins(T)
    <2>1. SUFFICES ASSUME NEW i \in DOMAIN T, i > 1
                   PROVE  WellBegun(T[i])
      BY DEF Begins
    <2>2. CASE i \in 1 .. n
      BY <1>3, <2>1, <2>2 DEF Begins
    <2>3. CASE i = n + 1
      <3>1. T[i] = l
        BY <1>3, <2>3
      <3>2. T[i][1] = rid /\ T[i][2] = e /\ Len(T[i]) = 2
        BY <1>2, <3>1, Zenon
      <3>3. 2 > 1
        OBVIOUS
      <3>4. QED
        BY <1>1, <3>2, <3>3, Zenon DEF WellBegun
    <2>4. QED
      BY <1>3, <1>4, <2>2, <2>3
  <1>9. QED
    BY <1>3, <1>5, <1>6, <1>7, <1>8 DEF Extended, T, l

\* A line with nothing in it is the only one, and may be left out.
LEMMA EmptyLine ==
  ASSUME NEW L \in Seq(Seq(Entries)), NEW d, Right(Append(L, << >>), d)
  PROVE  L = << >> /\ Right(L, d)
  <1> DEFINE S == Append(L, << >>)
  <1> HIDE DEF Entries
  <1>1. /\ Len(L) \in Nat /\ DOMAIN S = 1 .. Len(L) + 1 /\ S[Len(L) + 1] = << >>
    OBVIOUS
  <1>2. Begins(S)
    BY DEF Right
  <1>3. ~(Len(L) + 1 > 1)
    BY <1>1, <1>2, SMTT(30) DEF Begins, WellBegun
  <1>4. L = << >>
    BY <1>1, <1>3
  <1>5. DOMAIN S = {1} /\ S[1] = << >>
    BY <1>4
  <1> HIDE DEF S
  <1>6. \A f \in 1 .. d : f \in Wide
    <2>1. AllThere(S, d)
      BY DEF Right, S
    <2>2. ~ \E k \in DOMAIN S[1] : TRUE
      BY <1>5
    <2>3. QED
      BY <1>5, <2>1, <2>2 DEF AllThere
  <1>7. EntriesRight(L, d) /\ Begins(L) /\ Ordered(L) /\ AllThere(L, d)
    BY <1>4, <1>6 DEF EntriesRight, Begins, Ordered, AllThere
  <1>8. QED
    BY <1>4, <1>7 DEF Right

\* What is written next.
LEMMA FieldStep ==
  ASSUME IInv, Field
  PROVE  /\ Outcome(Log, done + 1, [length |-> length', line |-> line',
                                    lines |-> lines', written |-> written'])
         /\ done + 1 \in 1 .. Len(calls) /\ ~ended
         /\ done \in Nat /\ done' = done + 1
         /\ calls' = calls /\ as_json' = as_json /\ ended' = ended
  <1> DEFINE f == done + 1
             log == Written(Log, f, calls[f])
             new == [length |-> length', line |-> line', lines |-> lines',
                     written |-> written']
  <1>1. /\ as_json \in BOOLEAN /\ calls \in Seq(Call) /\ done \in 0 .. Len(calls)
        /\ length \in Nat /\ line \in Seq(Entries) /\ lines \in Seq(Seq(Entries))
    BY DEF IInv, TypeOK
  <1>2. /\ done < Len(calls) /\ ~ended
        /\ length' = log.length /\ line' = log.line /\ lines' = log.lines
        /\ written' = log.written
        /\ done' = done + 1
        /\ UNCHANGED <<as_json, calls, ended>>
    BY DEF Field
  <1>3. f \in 1 .. Len(calls) /\ done \in Nat
    BY <1>1, <1>2
  <1>4. calls[f] \in Call
    <2> HIDE DEF Call, f
    <2>1. QED
      BY <1>1, <1>3
  <1>5. Log \in Logs /\ Log.written < NGX_MAX_ERROR_STR
    <2>1. Log.written = 0
      BY DEF Log
    <2>2. Log \in Logs
      <3> HIDE DEF Entries
      <3>1. QED
        BY <1>1 DEF Log, Logs
    <2>3. QED
      BY <2>1, <2>2, Sizes
  <1> HIDE DEF f
  <1>6. Outcome(Log, f, log)
    BY <1>1, <1>4, <1>5, WrittenOutcome DEF CallsTyped
  <1> HIDE DEF log
  <1>7. /\ new.length = log.length /\ new.line = log.line
        /\ new.lines = log.lines /\ new.written = log.written
    BY <1>2
  <1> HIDE DEF new
  <1>8. Outcome(Log, f, new)
    BY <1>6, <1>7, Zenon DEF Outcome, Continued
  <1>9. QED
    BY <1>2, <1>3, <1>8 DEF f, new

\* The segments after a field.
LEMMA FieldRight ==
  ASSUME IInv, Field
  PROVE  /\ Right(Append(lines', line'), done + 1)
         /\ line' \in Seq(Entries) /\ lines' \in Seq(Seq(Entries))
         /\ length' > 0 <=> line' # << >>
  <1> DEFINE f == done + 1
             S == Append(lines, line)
             T == Append(lines', line')
             new == [length |-> length', line |-> line', lines |-> lines',
                     written |-> written']
  <1>1. /\ Outcome(Log, f, new) /\ f \in 1 .. Len(calls) /\ ~ended /\ done \in Nat
    BY FieldStep
  <1>2. /\ new.length = length' /\ new.line = line' /\ new.lines = lines'
    OBVIOUS
  <1>3. /\ Log.length = length /\ Log.line = line /\ Log.lines = lines
        /\ Logged(Log).lines = IF length > 0 THEN Append(lines, line) ELSE lines
    BY DEF Log, Logged
  <1>4. /\ length \in Nat /\ line \in Seq(Entries) /\ lines \in Seq(Seq(Entries))
        /\ S \in Seq(Seq(Entries)) /\ calls \in Seq(Call)
    <2>1. /\ length \in Nat /\ line \in Seq(Entries) /\ lines \in Seq(Seq(Entries))
          /\ calls \in Seq(Call)
      BY DEF IInv, TypeOK
    <2> HIDE DEF Entries
    <2>2. QED
      BY <2>1
  <1>5. Right(S, done) /\ (length > 0 <=> line # << >>)
    BY <1>1 DEF IInv, Segments
  <1>6. Begins(S)
    BY <1>5 DEF Right
  <1> HIDE DEF new
  <1>7. CASE TooWide(f) /\ Continued(Log, new) /\ new.length = Log.length
    <2>1. line' = line /\ lines' = lines /\ length' = length
      BY <1>2, <1>3, <1>7 DEF Continued
    <2>2. EntriesRight(S, f)
      BY <1>1, <1>5 DEF Right, EntriesRight
    <2>3. AllThere(S, f)
      <3>1. \A g \in 1 .. f : g \in 1 .. done \/ g = f
        BY <1>1
      <3>2. AllThere(S, done)
        BY <1>5 DEF Right
      <3>3. f \in Wide
        BY <1>1, <1>4, <1>7 DEF Wide
      <3>4. QED
        BY <3>1, <3>2, <3>3 DEF AllThere
    <2>4. Right(S, f)
      BY <1>5, <2>2, <2>3 DEF Right
    <2>5. QED
      BY <1>4, <1>5, <2>1, <2>4
  <1>8. CASE ~TooWide(f) /\ new.length >= 1 /\ new.length \in Nat
    <2>1. PICK kept \in Nat :
            /\ kept < Chars(calls[f].val) => MayBeCut(f, kept)
            /\ \/ /\ new.line = Append(Log.line, Entry(f, kept))
                  /\ new.lines = Log.lines
               \/ /\ \E rid \in RidEntries :
                       /\ rid.style = BegunAs(f)
                       /\ new.line = Append(<<rid>>, Entry(f, kept))
                  /\ new.lines = Logged(Log).lines
      BY <1>1, <1>8 DEF Outcome
    <2> DEFINE e == Entry(f, kept)
    <2>2. e \in Entries
      <3>1. f \in 0 .. Len(calls)
        <4>1. Len(calls) \in Nat
          BY <1>4
        <4>2. QED
          BY <1>1, <4>1
      <3>2. QED
        BY <2>1, <3>1 DEF Entry, Entries, Style
    <2> HIDE DEF e
    <2>3. /\ f \notin Wide
          /\ kept < Chars(calls[f].val) => <<f, kept>> \in MayCut
      BY <1>1, <1>4, <1>8, <2>1 DEF Wide, MayCut
    <2>4. CASE line' = Append(line, e) /\ lines' = lines
      <3>1. T \in Seq(Seq(Entries)) /\ Extended(S, T, e)
        BY <1>4, <1>6, <2>2, <2>4, Lengthened
      <3>2. Right(T, f)
        BY <1>1, <1>4, <1>5, <2>1, <2>3, <3>1, ExtendedRight DEF e
      <3>3. line' \in Seq(Entries) /\ line' # << >>
        <4> HIDE DEF Entries
        <4>1. QED
          BY <1>4, <2>2, <2>4
      <3>4. QED
        BY <1>2, <1>4, <1>8, <2>4, <3>2, <3>3
    <2>5. CASE /\ \E rid \in RidEntries :
                    rid.style = BegunAs(f) /\ line' = Append(<<rid>>, e)
               /\ lines' = IF length > 0 THEN Append(lines, line) ELSE lines
      <3> DEFINE before == IF length > 0 THEN Append(lines, line) ELSE lines
      <3>1. before \in Seq(Seq(Entries)) /\ Right(before, done)
        <4>1. CASE length > 0
          BY <1>4, <1>5, <4>1
        <4>2. CASE ~(length > 0)
          <5>1. line = << >>
            BY <1>5, <4>2
          <5>2. Right(lines, done)
            BY <1>4, <1>5, <5>1, EmptyLine
          <5>3. QED
            BY <1>4, <4>2, <5>2
        <4>3. QED
          BY <4>1, <4>2
      <3>2. lines' = before
        BY <2>5
      <3> PICK rid \in RidEntries :
              rid.style = BegunAs(f) /\ line' = Append(<<rid>>, e)
        BY <2>5
      <3> HIDE DEF before
      <3>3. Begins(before)
        BY <3>1 DEF Right
      <3>4. T = Append(before, Append(<<rid>>, e))
        BY <3>2
      <3>5. T \in Seq(Seq(Entries)) /\ Extended(before, T, e)
        <4>1. e.f = f
          BY DEF e, Entry
        <4>2. QED
          BY <2>2, <3>1, <3>3, <3>4, <4>1, LineBegun
      <3>6. Right(T, f)
        BY <1>1, <2>1, <2>3, <3>1, <3>5, ExtendedRight DEF e
      <3>7. line' \in Seq(Entries) /\ line' # << >>
        <4>1. rid \in Entries
          BY DEF RidEntries
        <4> HIDE DEF Entries
        <4>2. QED
          BY <2>2, <4>1
      <3>8. QED
        BY <1>2, <1>8, <3>1, <3>2, <3>6, <3>7
    <2>6. QED
      BY <1>2, <1>3, <2>1, <2>4, <2>5 DEF e
  <1>9. QED
    BY <1>1, <1>7, <1>8 DEF Outcome

\* The properties of a field depend on what is logged only.
LEMMA RightNext ==
  ASSUME calls' = calls, as_json' = as_json, Right(Segments', done')
  PROVE  Right(Segments, done)'
  <1>1. /\ \A f : TooWide(f)' <=> TooWide(f)
        /\ \A f, kept : MayBeCut(f, kept)' <=> MayBeCut(f, kept)
    BY DEF TooWide, MayBeCut
  <1>2. Wide' = Wide /\ MayCut' = MayCut
    BY <1>1 DEF Wide, MayCut
  <1>3. QED
    BY <1>2 DEF Right, EntriesRight, AllThere, Begins, WellBegun, BegunAs, Style, Ordered

LEMMA InitIInv == Init => IInv
  <1> SUFFICES ASSUME Init PROVE IInv
    OBVIOUS
  <1>1. /\ as_json \in BOOLEAN /\ ended = FALSE /\ done = 0 /\ length = 0
        /\ line = << >> /\ lines = << >> /\ written = 0
    BY DEF Init
  <1>2. calls \in Seq(Call)
    <2>1. PICK r \in Reports : calls = Calls(r)
      BY DEF Init
    <2>2. r \in Report
      BY LogAssumption
    <2>3. QED
      BY <2>1, <2>2, CallsKnown
  <1>3. TypeOK
    <2>1. Len(calls) \in Nat
      BY <1>2
    <2>2. as_json \in BOOLEAN /\ ended \in BOOLEAN
      BY <1>1, Zenon
    <2> HIDE DEF Entries, Call
    <2>3. line \in Seq(Entries) /\ lines \in Seq(Seq(Entries))
      BY <1>1
    <2>4. done \in 0 .. Len(calls) /\ length \in Nat /\ written \in Nat
      BY <1>1, <2>1
    <2>5. QED
      BY <1>2, <2>2, <2>3, <2>4, Zenon DEF TypeOK
  <1>4. Right(Segments, done)
    <2>1. Segments = << << >> >>
      BY <1>1 DEF Segments
    <2>2. DOMAIN Segments = {1} /\ Segments[1] = << >> /\ DOMAIN Segments[1] = {}
      BY <2>1
    <2>3. EntriesRight(Segments, done) /\ Ordered(Segments)
      BY <2>2 DEF EntriesRight, Ordered
    <2>4. Begins(Segments)
      BY <2>2 DEF Begins
    <2>5. AllThere(Segments, done)
      BY <1>1 DEF AllThere
    <2>6. QED
      BY <2>3, <2>4, <2>5 DEF Right
  <1>5. WithinBuffer
    BY <1>1, Sizes DEF WithinBuffer
  <1>6. QED
    BY <1>1, <1>3, <1>4, <1>5 DEF IInv

LEMMA FieldIInv ==
  ASSUME IInv, Field
  PROVE  IInv'
  <1>1. /\ Outcome(Log, done + 1, [length |-> length', line |-> line',
                                   lines |-> lines', written |-> written'])
        /\ done + 1 \in 1 .. Len(calls) /\ ~ended
        /\ done \in Nat /\ done' = done + 1
        /\ calls' = calls /\ as_json' = as_json /\ ended' = ended
    BY FieldStep
  <1>2. /\ Right(Append(lines', line'), done + 1)
        /\ line' \in Seq(Entries) /\ lines' \in Seq(Seq(Entries))
        /\ length' > 0 <=> line' # << >>
    BY FieldRight
  <1>3. length' \in Nat /\ written' \in Nat /\ written' < NGX_MAX_ERROR_STR
    BY <1>1 DEF Outcome
  <1>4. as_json \in BOOLEAN /\ ended \in BOOLEAN /\ calls \in Seq(Call)
    BY Zenon DEF IInv, TypeOK
  <1>5. TypeOK'
    <2>1. done' \in 0 .. Len(calls)
      <3>1. Len(calls) \in Nat
        BY <1>4
      <3>2. QED
        BY <1>1, <3>1
    <2>2. line' \in Seq(Entries)' /\ lines' \in Seq(Seq(Entries))'
      BY <1>1, <1>2 DEF Entries
    <2>3. QED
      BY <1>1, <1>3, <1>4, <2>1, <2>2, Zenon DEF TypeOK
  <1>6. Right(Segments, done)'
    <2>1. Segments' = Append(lines', line')
      BY <1>1 DEF Segments
    <2>2. QED
      BY <1>1, <1>2, <2>1, RightNext
  <1>7. QED
    BY <1>1, <1>2, <1>3, <1>5, <1>6 DEF IInv, WithinBuffer

LEMMA EndIInv ==
  ASSUME IInv, End
  PROVE  IInv'
  <1>1. /\ done = Len(calls) /\ ~ended /\ ended'
        /\ lines' = Logged(Log).lines
        /\ UNCHANGED <<as_json, calls, done, length, line, written>>
    BY DEF End
  <1>2. lines' = IF length > 0 THEN Append(lines, line) ELSE lines
    BY <1>1 DEF Log, Logged
  <1>3. /\ line \in Seq(Entries) /\ lines \in Seq(Seq(Entries))
        /\ Right(Append(lines, line), done)
        /\ length > 0 <=> line # << >>
    BY <1>1 DEF IInv, TypeOK, Segments
  <1>4. lines' \in Seq(Seq(Entries)) /\ Right(lines', done)
    <2>1. CASE length > 0
      <3> HIDE DEF Entries
      <3>1. QED
        BY <1>2, <1>3, <2>1
    <2>2. CASE ~(length > 0)
      <3>1. line = << >>
        BY <1>3, <2>2
      <3>2. Right(lines, done)
        BY <1>3, <3>1, EmptyLine
      <3>3. QED
        BY <1>2, <1>3, <2>2, <3>2
    <2>3. QED
      BY <2>1, <2>2
  <1>5. TypeOK'
    <2>1. lines' \in Seq(Seq(Entries))' /\ line' \in Seq(Entries)'
      BY <1>1, <1>3, <1>4 DEF Entries
    <2>2. TypeOK
      BY DEF IInv
    <2>3. ended' \in BOOLEAN
      <3>1. ended' = TRUE
        BY DEF End
      <3>2. QED
        BY <3>1, Zenon
    <2>4. QED
      BY <1>1, <2>1, <2>2, <2>3, Zenon DEF TypeOK
  <1>6. Right(Segments, done)'
    <2>1. Segments' = lines'
      BY <1>1 DEF Segments
    <2>2. QED
      BY <1>1, <1>4, <2>1, RightNext
  <1>7. QED
    BY <1>1, <1>5, <1>6 DEF IInv, WithinBuffer

\* The invariant holds of whatever is logged, text or JSON.
THEOREM SpecIInv == Spec => []IInv
  <1>1. IInv /\ [Next]_vars => IInv'
    <2>1. SUFFICES ASSUME IInv, [Next]_vars PROVE IInv'
      OBVIOUS
    <2>2. CASE Field
      BY <2>1, <2>2, FieldIInv
    <2>3. CASE End
      BY <2>1, <2>3, EndIInv
    <2>4. CASE UNCHANGED vars
      <3>1. /\ as_json' = as_json /\ calls' = calls /\ done' = done
            /\ length' = length /\ line' = line /\ lines' = lines
            /\ written' = written /\ ended' = ended
        BY <2>4 DEF vars
      <3>2. Segments' = Segments
        BY <3>1 DEF Segments
      <3>3. Right(Segments, done)'
        BY <2>1, <3>1, <3>2, RightNext DEF IInv
      <3>4. TypeOK'
        <4>1. Entries' = Entries
          BY <3>1 DEF Entries
        <4>2. TypeOK
          BY <2>1 DEF IInv
        <4>3. QED
          BY <3>1, <4>1, <4>2, Zenon DEF TypeOK
      <3>5. QED
        BY <2>1, <3>1, <3>3, <3>4 DEF IInv, WithinBuffer
    <2>5. QED
      BY <2>1, <2>2, <2>3, <2>4 DEF Next
  <1>2. QED
    BY InitIInv, <1>1, PTL DEF Spec
-----------------------------------------------------------------------------
(***************************************************************************)
(* Theorems                                                                *)
(***************************************************************************)

\* Type correctness of the log.
THEOREM TypeCorrect == Spec => []TypeOK
  <1>1. IInv => TypeOK
    BY DEF IInv
  <1>2. QED
    BY SpecIInv, <1>1, PTL

\* Nothing is written behind the buffer, whatever is logged: the writers of
\* naxsi_log.c check for room with lengths that may have passed the end.
THEOREM BufferKept == Spec => []WithinBuffer
  <1>1. IInv => WithinBuffer
    BY DEF IInv
  <1>2. QED
    BY SpecIInv, <1>1, PTL

\* A line of a log that is begun because the one before it was full begins with
\* the request id and holds a field behind it, and the id is written as the log
\* is, unless the field is a number (naxsi_log_as_text_flush,
\* naxsi_log_as_json_flush, naxsi_log_as_json_number).
THEOREM RidCarried == Spec => []LinesCarryRid
  <1>1. ASSUME IInv PROVE LinesCarryRid
    <2>1. SUFFICES ASSUME NEW i \in DOMAIN lines
                   PROVE  /\ \A k \in DOMAIN lines[i] : lines[i][k].f = 0 => k = 1
                          /\ i > 1 => WellBegun(lines[i])
      BY DEF LinesCarryRid, WellBegun
    <2>2. i \in DOMAIN Segments /\ Segments[i] = lines[i]
      <3>1. lines \in Seq(Seq(Entries)) /\ line \in Seq(Entries)
        BY <1>1 DEF IInv, TypeOK
      <3> HIDE DEF Entries
      <3>2. CASE ended
        BY <3>2 DEF Segments
      <3>3. CASE ~ended
        <4>1. Segments = Append(lines, line)
          BY <3>3 DEF Segments
        <4>2. QED
          BY <3>1, <4>1
      <3>4. QED
        BY <3>2, <3>3
    <2>3. Right(Segments, done)
      BY <1>1 DEF IInv
    <2>4. QED
      BY <2>2, <2>3 DEF Right, EntriesRight, Begins
  <1>2. QED
    BY SpecIInv, <1>1, PTL

LEMMA PlacesKnown ==
  \A p : p \in Places <=>
    \E i \in DOMAIN lines : \E k \in DOMAIN lines[i] :
      p = <<i, k>> /\ lines[i][k].f # 0
  BY DEF Places, At

\* When the log is ended, its fields are in its lines, once and in order, but for
\* text values that are too wide; and what is lost of a value is no more than
\* MayBeCut says: of a number one digit, of a string in a JSON line only what
\* escapes before it have taken the room of (naxsi_log_string, naxsi_log_cstring,
\* naxsi_log_number, naxsi_log_end).
THEOREM FieldsKept == Spec => []FieldsAccounted
  <1>1. ASSUME IInv PROVE FieldsAccounted
    <2>1. /\ calls \in Seq(Call) /\ done \in 0 .. Len(calls)
          /\ lines \in Seq(Seq(Entries)) /\ line \in Seq(Entries)
          /\ Right(Segments, done)
      BY <1>1 DEF IInv, TypeOK
    <2>2. DOMAIN calls = 1 .. Len(calls) /\ Len(calls) \in Nat
      <3> HIDE DEF Call
      <3>1. QED
        BY <2>1
    <2>3. \A i \in DOMAIN lines : i \in DOMAIN Segments /\ Segments[i] = lines[i]
      <3> HIDE DEF Entries
      <3>1. CASE ended
        BY <3>1 DEF Segments
      <3>2. CASE ~ended
        <4>1. Segments = Append(lines, line)
          BY <3>2 DEF Segments
        <4>2. QED
          BY <2>1, <4>1
      <3>3. QED
        BY <3>1, <3>2
    <2>4. ASSUME NEW p \in Places
          PROVE  \E i \in DOMAIN lines : \E k \in DOMAIN lines[i] :
                   /\ p = <<i, k>> /\ At(p) = lines[i][k] /\ At(p).f # 0
                   /\ p[1] = i /\ p[2] = k
                   /\ At(p).f \in 1 .. done /\ At(p).f \notin Wide
                   /\ At(p).kept < Chars(calls[At(p).f].val)
                        => <<At(p).f, At(p).kept>> \in MayCut
      <3>1. PICK i \in DOMAIN lines : \E k \in DOMAIN lines[i] :
              p = <<i, k>> /\ lines[i][k].f # 0
        BY PlacesKnown, Zenon
      <3>2. PICK k \in DOMAIN lines[i] : p = <<i, k>> /\ lines[i][k].f # 0
        BY <3>1
      <3>3. p[1] = i /\ p[2] = k /\ At(p) = lines[i][k]
        BY <3>2 DEF At
      <3>4. /\ lines[i][k].f \in 0 .. done
            /\ lines[i][k].f \notin Wide
            /\ lines[i][k].kept < Chars(calls[lines[i][k].f].val)
                 => <<lines[i][k].f, lines[i][k].kept>> \in MayCut
        BY <2>1, <2>3, <3>2 DEF Right, EntriesRight
      <3>5. lines[i][k].f \in 1 .. done
        BY <2>1, <2>2, <3>2, <3>4
      <3>6. QED
        BY <3>2, <3>3, <3>4, <3>5, Zenon
    <2>5. CutAsStated
      BY <2>4 DEF CutAsStated, MayCut
    <2>6. ASSUME ended
          PROVE  {At(p).f : p \in Places} = {f \in DOMAIN calls : ~TooWide(f)}
      <3>1. done = Len(calls) /\ Segments = lines
        BY <1>1, <2>6 DEF IInv, Segments
      <3>2. \A p \in Places : At(p).f \in DOMAIN calls /\ ~TooWide(At(p).f)
        <4>1. SUFFICES ASSUME NEW p \in Places
                       PROVE  At(p).f \in DOMAIN calls /\ ~TooWide(At(p).f)
          OBVIOUS
        <4>2. At(p).f \in 1 .. done /\ At(p).f \notin Wide
          BY <2>4, Zenon
        <4>3. QED
          BY <2>2, <3>1, <4>2, Zenon DEF Wide
      <3>3. ASSUME NEW f \in DOMAIN calls, ~TooWide(f)
            PROVE  \E p \in Places : At(p).f = f
        <4>1. f \in 1 .. done /\ f \notin Wide /\ f # 0
          BY <2>2, <3>1, <3>3 DEF Wide
        <4>2. PICK i \in DOMAIN lines : \E k \in DOMAIN lines[i] : lines[i][k].f = f
          <5>1. AllThere(lines, done)
            BY <2>1, <3>1 DEF Right
          <5>2. QED
            BY <4>1, <5>1, Zenon DEF AllThere
        <4>3. PICK k \in DOMAIN lines[i] : lines[i][k].f = f
          BY <4>2
        <4>4. <<i, k>> \in Places
          BY <4>1, <4>3, PlacesKnown
        <4>5. At(<<i, k>>) = lines[i][k]
          BY DEF At
        <4>6. QED
          BY <4>3, <4>4, <4>5
      <3>4. QED
        BY <3>2, <3>3, Zenon
    <2>7. ASSUME NEW p \in Places, NEW q \in Places, Before(p, q)
          PROVE  At(p).f < At(q).f
      <3>1. PICK i \in DOMAIN lines : \E k \in DOMAIN lines[i] :
              p[1] = i /\ p[2] = k /\ At(p) = lines[i][k] /\ At(p).f # 0
        BY <2>4, Zenon
      <3>2. PICK k \in DOMAIN lines[i] :
              p[1] = i /\ p[2] = k /\ At(p) = lines[i][k] /\ At(p).f # 0
        BY <3>1
      <3>3. PICK j \in DOMAIN lines : \E m \in DOMAIN lines[j] :
              q[1] = j /\ q[2] = m /\ At(q) = lines[j][m] /\ At(q).f # 0
        BY <2>4, Zenon
      <3>4. PICK m \in DOMAIN lines[j] :
              q[1] = j /\ q[2] = m /\ At(q) = lines[j][m] /\ At(q).f # 0
        BY <3>3
      <3>5. i < j \/ (i = j /\ k < m)
        BY <2>7, <3>2, <3>4 DEF Before
      <3>6. Ordered(Segments)
        BY <2>1 DEF Right
      <3>7. lines[i][k].f < lines[j][m].f
        BY <2>3, <3>2, <3>4, <3>5, <3>6 DEF Ordered
      <3>8. QED
        BY <3>2, <3>4, <3>7
    <2>8. QED
      BY <2>5, <2>6, <2>7, Zenon DEF FieldsAccounted, FieldsLogged, LoggedFields
  <1>2. QED
    BY SpecIInv, <1>1, PTL
=============================================================================
