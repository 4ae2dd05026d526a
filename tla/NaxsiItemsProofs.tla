-------------------------- MODULE NaxsiItemsProofs --------------------------
(***************************************************************************)
(* Proofs about NaxsiItems, for any queries, any multipart bodies and any  *)
(* names: the loops stay within the text and end, utf8_check and           *)
(* naxsi_unescape give what their references do for every text, what is    *)
(* between the '&' of a query is inspected or reported, and a multipart    *)
(* body that passes is a sequence of parts whose values were inspected.    *)
(***************************************************************************)
EXTENDS NaxsiItems, FiniteSetTheorems, SequenceTheorems, TLAPS

-----------------------------------------------------------------------------
(***************************************************************************)
(* Places                                                                  *)
(***************************************************************************)

\* A set of places that is not empty has a first one.
LEMMA FirstLeast ==
  ASSUME NEW n \in Nat, NEW T, T \subseteq 0 .. n, T # {}
  PROVE  First(T) \in T /\ \A k \in T : First(T) <= k
  <1> DEFINE F == {0 .. k : k \in T}
  <1>1. \A k \in T : k \in Nat /\ k <= n
    OBVIOUS
  <1>2. \A k \in T : 0 .. k \in SUBSET (0 .. n)
    BY <1>1, SMT
  <1>3. F \subseteq SUBSET (0 .. n) /\ F # {}
    BY <1>2, Zenon
  <1>4. IsFiniteSet(0 .. n)
    BY FS_Interval
  <1>5. F \subseteq FiniteSubsetsOf(0 .. n)
    BY <1>3, <1>4, FS_Subset DEF FiniteSubsetsOf
  <1>6. \E x \in F : \A y \in F : ~ (<<y, x>> \in StrictSubsetOrdering(0 .. n))
    BY <1>3, <1>5, FS_StrictSubsetOrderingWellFounded, WFMin
  <1>7. PICK m \in T :
          \A k \in T : ~ (<<0 .. k, 0 .. m>> \in StrictSubsetOrdering(0 .. n))
    BY <1>6, Zenon
  <1>8. ASSUME NEW k \in T
        PROVE  m <= k
    <2>1. SUFFICES ASSUME k < m PROVE FALSE
      BY <1>1
    <2>2. 0 .. k \subseteq 0 .. m
      BY <1>1, <2>1, SMT
    <2>3. m \in 0 .. m /\ m \notin 0 .. k
      BY <1>1, <2>1, SMT
    <2>4. 0 .. k # 0 .. m
      BY <2>3, Zenon
    <2>5. <<0 .. k, 0 .. m>> \in StrictSubsetOrdering(0 .. n)
      BY <1>2, <2>2, <2>4, Zenon DEF StrictSubsetOrdering
    <2>6. QED
      BY <1>7, <2>5
  <1>9. QED
    BY <1>8 DEF First

\* It is one of them.
LEMMA FirstKnown ==
  ASSUME NEW n \in Nat, NEW T, T \subseteq 0 .. n, T # {}
  PROVE  First(T) \in T
  BY FirstLeast

\* strchr finds a place from idx on, or the end of the text.
LEMMA FindKnown ==
  ASSUME Len(body) \in Nat, idx \in 1 .. Len(body), NEW ch
  PROVE  Find(ch) \in idx .. Len(body) + 1
  <1> DEFINE T == {i \in idx .. Len(body) : body[i] = ch} \cup {Len(body) + 1}
  <1>1. T \subseteq 0 .. Len(body) + 1 /\ T # {} /\ Len(body) + 1 \in Nat
    OBVIOUS
  <1>2. T \subseteq idx .. Len(body) + 1
    OBVIOUS
  <1> HIDE DEF T
  <1>3. First(T) \in T
    BY <1>1, FirstKnown
  <1>4. QED
    BY <1>2, <1>3 DEF Find, T

\* The line end from place i on, if there is one.
LEMMA LineEndKnown ==
  ASSUME Len(body) \in Nat, NEW i \in Nat
  PROVE  LineEnd(i) = 0 \/ LineEnd(i) \in i .. Len(body)
  <1> DEFINE T == {j \in i .. Len(body) : body[j] \in {"crlf", "lf", "nul"}}
  <1>1. T \subseteq 0 .. Len(body) /\ T \subseteq i .. Len(body)
    OBVIOUS
  <1>2. LineEnd(i) = IF T = {} \/ body[First(T)] = "nul" THEN 0 ELSE First(T)
    BY DEF LineEnd
  <1> HIDE DEF T
  <1>3. T # {} => First(T) \in T
    BY <1>1, FirstKnown
  <1>4. QED
    BY <1>1, <1>2, <1>3

\* What is read at a place is within the text.
LEMMA ReadsWithin ==
  ASSUME NEW S, body \in Seq(S), NEW i \in Nat \ {0}, NEW t, Reads(i, <<t>>)
  PROVE  i <= Len(body)
  <1>1. Len(<<t>>) <= Len(SubSeq(body, i, Len(body)))
    BY DEF Reads, Seqs!IsPrefix
  <1>2. Len(<<t>>) = 1
    OBVIOUS
  <1>3. i > Len(body) => Len(SubSeq(body, i, Len(body))) = 0
    OBVIOUS
  <1>4. QED
    BY <1>1, <1>2, <1>3

\* The end of the data of a part, if there is one.
LEMMA DataEndKnown ==
  ASSUME Len(body) \in Nat, idx \in Nat
  PROVE  DataEnd = 0 \/ DataEnd \in idx .. Len(body)
  <1> DEFINE T == {j \in idx .. Len(body) : Reads(j, <<"crlf", "--">>)}
  <1>1. T \subseteq 0 .. Len(body) /\ T \subseteq idx .. Len(body)
    OBVIOUS
  <1>2. DataEnd = IF T # {} /\ Delimits(First(T)) THEN First(T) ELSE 0
    BY DEF DataEnd
  <1> HIDE DEF T
  <1>3. T # {} => First(T) \in T
    BY <1>1, FirstKnown
  <1>4. QED
    BY <1>1, <1>2, <1>3

\* A header that is accepted ends in a blank line, behind the place where it
\* began, and names a parameter.
LEMMA HeaderKnown ==
  ASSUME NEW S, body \in Seq(S), idx \in Nat \ {0}, Header.ending = "none"
  PROVE  /\ Header.data \in idx + 1 .. Len(body) + 1
         /\ Header.part.name \in Names
  <1> DEFINE line_end == LineEnd(idx + 1)
             said == content_disposition_parse(idx + 1, line_end)
             header_end == HeaderEnd(line_end, said.file)
             malformed(e) == [ending |-> e]
             part_of == [ending |-> "none",
                         part |-> [name |-> said.name, file |-> said.file],
                         data |-> header_end + 2]
  <1>1. Len(body) \in Nat
    OBVIOUS
  <1>2. Header = IF body[idx] # "disp" \/ line_end = 0 THEN malformed("format")
                 ELSE IF ~said.ok THEN malformed("disposition")
                 ELSE IF ~Named(said) \/ header_end = 0 THEN malformed("format")
                 ELSE IF ~Reads(header_end + 1, <<"crlf">>)
                      THEN malformed("format")
                 ELSE part_of
    BY DEF Header
  <1> HIDE DEF said
  <1>3. line_end = 0 \/ line_end \in idx + 1 .. Len(body)
    BY <1>1, LineEndKnown
  <1> HIDE DEF line_end
  <1>4. line_end # 0 =>
          header_end = 0 \/ header_end \in idx + 1 .. Len(body)
    <2>1. SUFFICES ASSUME line_end # 0
                   PROVE  header_end = 0 \/ header_end \in idx + 1 .. Len(body)
      OBVIOUS
    <2>2. line_end + 1 \in Nat
      BY <1>3, <2>1
    <2>3. LineEnd(line_end + 1) = 0 \/ LineEnd(line_end + 1) \in line_end + 1 .. Len(body)
      BY <1>1, <2>2, LineEndKnown
    <2>4. QED
      BY <1>3, <2>1, <2>3 DEF HeaderEnd
  <1> HIDE DEF header_end
  <1>5. /\ line_end # 0 /\ header_end # 0 /\ Named(said)
        /\ Reads(header_end + 1, <<"crlf">>) /\ Header = part_of
    BY <1>2
  <1>6. header_end + 1 \in Nat \ {0}
    BY <1>4, <1>5
  <1>7. header_end + 1 <= Len(body)
    BY <1>5, <1>6, ReadsWithin
  <1>8. Header.data = header_end + 2 /\ Header.part.name = said.name
    BY <1>5
  <1>9. QED
    BY <1>1, <1>4, <1>5, <1>7, <1>8 DEF Named

-----------------------------------------------------------------------------
(***************************************************************************)
(* The invariant                                                           *)
(***************************************************************************)
\* The sets of the type invariant.
Kinds == {"query", "multipart"}
EndingNames == {"none", "closed", "boundary", "disposition", "format", "line"}
Rules == {10, 12, 13, 14, 20}

\* A rule that may be raised is a sequence of rules.
LEMMA IfKnown ==
  ASSUME NEW test, NEW rule \in Rules
  PROVE  If(test, rule) \in Seq(Rules)
  <1>1. <<rule>> \in Seq(Rules) /\ << >> \in Seq(Rules)
    OBVIOUS
  <1>2. QED
    BY <1>1, Zenon DEF If

\* Two sequences of a type.
LEMMA ConcatKnown ==
  ASSUME NEW S, NEW s \in Seq(S), NEW t \in Seq(S)
  PROVE  s \o t \in Seq(S)
  BY ConcatProperties

\* The text, and the place in it.
Text ==
  /\ kind \in Kinds
  /\ kind = "query" => body \in Seq(Byte) /\ boundary_len = 0
  /\ kind = "multipart" => body \in Seq(Marks \cup Params)

\* The length of a text.
LEMMA TextLen ==
  ASSUME Text
  PROVE  Len(body) \in Nat
  <1>1. CASE kind = "query"
    BY <1>1, LenProperties DEF Text
  <1>2. CASE kind = "multipart"
    BY <1>2, LenProperties DEF Text
  <1>3. QED
    BY <1>1, <1>2 DEF Text, Kinds

\* The state but for the ending.
Placed ==
  /\ Text
  /\ idx \in 1 .. Len(body) + 2
  /\ part.name \in {"none"} \cup Names
  /\ raised \in Seq(Rules)

\* The type invariant is that, and the ending.
LEMMA TypeIs ==
  TypeOK <=> /\ Placed
             /\ ending \in EndingNames
             /\ pc \in {"start", "piece", "top", "header", "data", "done"}
             /\ pc = "done" <=> ending # "none"
  BY Zenon DEF TypeOK, Placed, Text, Kinds, EndingNames, Rules

\* A query whose null bytes are replaced.
LEMMA EscapedKnown ==
  ASSUME NEW text \in Seq(Byte)
  PROVE  /\ escape_nullbytes(text) \in Seq(Byte)
         /\ Len(escape_nullbytes(text)) = Len(text)
  <1>1. Len(text) \in Nat /\ DOMAIN text = 1 .. Len(text)
    BY LenProperties
  <1>2. \A i \in DOMAIN text : text[i] \in Byte
    BY ElementOfSeq, <1>1
  <1>3. Zero \in Byte
    BY DEF Zero, Byte
  <1>4. escape_nullbytes(text) \in [1 .. Len(text) -> Byte]
    BY <1>1, <1>2, <1>3, Zenon DEF escape_nullbytes
  <1>5. QED
    BY <1>1, <1>4, SeqDef, LenProperties

\* A step of the query keeps the type.
LEMMA PiecesStay ==
  ASSUME TypeOK, Query
  PROVE  TypeOK'
  <1>1. /\ Placed /\ kind = "query" /\ body \in Seq(Byte) /\ boundary_len = 0
        /\ Len(body) \in Nat
    BY TypeIs, TextLen DEF Placed, Text, Query, QueryStart, QueryEmpty,
                           QueryPiece, QueryEnd, AtPiece
  <1>2. /\ idx \in 1 .. Len(body) + 2 /\ raised \in Seq(Rules)
    BY <1>1 DEF Placed
  <1>3. CASE QueryStart
    <2>1. /\ body' \in Seq(Byte) /\ Len(body') = Len(body)
      BY <1>1, <1>3, EscapedKnown DEF QueryStart
    <2>2. raised' \in Seq(Rules)
      <3>1. /\ If(Nulls(body) # {}, 10) \in Seq(Rules)
            /\ If(body # << >> /\ body[Len(body)] = Ampersand, 12) \in Seq(Rules)
        BY IfKnown DEF Rules
      <3>2. QED
        BY <1>3, <3>1, ConcatKnown, Zenon DEF QueryStart
    <2>3. QED
      BY <1>1, <1>3, <2>1, <2>2 DEF QueryStart, TypeOK, Placed, Text, Rules
  <1>4. CASE QueryEmpty
    <2>1. idx' \in 1 .. Len(body) + 2
      BY <1>1, <1>2, <1>4 DEF QueryEmpty, AtPiece
    <2>2. raised' \in Seq(Rules)
      BY <1>2, <1>4, AppendProperties DEF QueryEmpty, Rules
    <2>3. QED
      BY <1>1, <1>4, <2>1, <2>2 DEF QueryEmpty, AtPiece, TypeOK, Placed, Text, Rules
  <1>5. CASE QueryPiece
    <2>1. idx' \in 1 .. Len(body) + 2
      <3>1. idx \in 1 .. Len(body) /\ idx' = Find(Ampersand) + 1
        BY <1>1, <1>2, <1>5 DEF QueryPiece, AtPiece
      <3>2. Find(Ampersand) \in idx .. Len(body) + 1
        BY <1>1, <3>1, FindKnown
      <3>3. QED
        BY <1>1, <3>1, <3>2
    <2>2. raised' \in Seq(Rules)
      <3>1. PICK a, b, c : raised' = raised \o If(a, 10) \o If(b, 10) \o If(c, 20)
        BY <1>5 DEF QueryPiece
      <3>2. /\ If(a, 10) \in Seq(Rules) /\ If(b, 10) \in Seq(Rules)
            /\ If(c, 20) \in Seq(Rules)
        BY IfKnown DEF Rules
      <3>3. QED
        BY <1>2, <3>1, <3>2, ConcatKnown, Zenon
    <2>3. QED
      BY <1>1, <1>5, <2>1, <2>2 DEF QueryPiece, AtPiece, TypeOK, Placed, Text, Rules
  <1>6. CASE QueryEnd
    BY <1>1, <1>6 DEF QueryEnd, End, TypeOK, Placed, Text, Rules
  <1>7. QED
    BY <1>3, <1>4, <1>5, <1>6 DEF Query

\* How a header that is not accepted ends.
LEMMA HeaderEndings ==
  Header.ending \in {"none", "format", "disposition"}
  BY Zenon DEF Header

\* A refusal keeps it.
LEMMA RefuseStays ==
  ASSUME TypeOK, NEW e \in EndingNames \ {"none"}, kind = "multipart", multipart,
         Refuse(e)
  PROVE  TypeOK'
  <1>1. Placed
    BY TypeIs
  <1>2. raised' \in Seq(Rules)
    <2>1. <<13>> \in Seq(Rules) /\ <<14>> \in Seq(Rules) /\ << >> \in Seq(Rules)
      BY DEF Rules
    <2>2. PICK more : raised' = raised \o more /\ more \in {<<13>>, <<14>>, << >>}
      BY Zenon DEF Refuse
    <2>3. more \in Seq(Rules)
      BY <2>1, <2>2
    <2>4. QED
      BY <1>1, <2>2, <2>3, ConcatKnown DEF Placed
  <1>3. ending' = e /\ pc' = "done" /\ idx' = idx /\ part' = part
    BY DEF Refuse, End
  <1>4. kind' = kind /\ body' = body /\ boundary_len' = boundary_len
    BY DEF multipart
  <1>5. QED
    BY <1>1, <1>2, <1>3, <1>4 DEF TypeOK, Placed, Text, Rules, EndingNames

\* A step of the multipart parser keeps it.
LEMMA PartsStay ==
  ASSUME TypeOK, Multipart
  PROVE  TypeOK'
  <1>1. /\ Placed /\ kind = "multipart" /\ body \in Seq(Marks \cup Params)
        /\ multipart /\ Len(body) \in Nat
    BY TypeIs, TextLen DEF Placed, Text, Multipart, MultipartStart, MultipartTop,
                           MultipartHeader, MultipartData
  <1>2. /\ idx \in 1 .. Len(body) + 2 /\ raised \in Seq(Rules)
        /\ kind' = kind /\ body' = body
    BY <1>1 DEF Placed, multipart
  <1>3. CASE \E e \in EndingNames \ {"none"} : Refuse(e)
    BY <1>1, <1>3, RefuseStays
  <1>4. CASE MultipartStart
    <2>1. Refuse("boundary") => TypeOK'
      BY <1>3 DEF EndingNames
    <2>2. QED
      BY <1>1, <1>2, <1>4, <2>1 DEF MultipartStart, TypeOK, Rules
  <1>5. CASE MultipartTop
    <2>1. Refuse("boundary") => TypeOK'
      BY <1>3 DEF EndingNames
    <2>2. CASE End("closed") /\ UNCHANGED <<idx, part, items, raised>>
      BY <1>1, <1>2, <2>2 DEF End, TypeOK, Placed, Rules
    <2>3. CASE /\ idx + 3 <= Len(body) /\ idx' = idx + 3 /\ pc' = "header"
               /\ UNCHANGED <<part, items, raised, ending>>
      BY <1>1, <1>2, <1>5, <2>3 DEF MultipartTop, TypeOK, Placed, Rules
    <2>4. QED
      BY <1>5, <2>1, <2>2, <2>3, Zenon DEF MultipartTop
  <1>6. CASE MultipartHeader
    <2>1. CASE Header.ending # "none" /\ Refuse(Header.ending)
      <3>1. Header.ending \in {"none", "format", "disposition"}
        BY HeaderEndings
      <3>2. QED
        BY <1>3, <2>1, <3>1 DEF EndingNames
    <2>2. CASE /\ Header.ending = "none" /\ part' = Header.part
               /\ idx' = Header.data /\ pc' = "data"
               /\ UNCHANGED <<items, raised, ending>>
      <3>1. /\ Header.data \in idx + 1 .. Len(body) + 1
            /\ Header.part.name \in Names
        BY <1>1, <1>2, <2>2, HeaderKnown
      <3>2. idx' \in 1 .. Len(body) + 2 /\ part'.name \in {"none"} \cup Names
        BY <1>1, <1>2, <2>2, <3>1
      <3>3. QED
        BY <1>1, <1>2, <1>6, <2>2, <3>2 DEF MultipartHeader, TypeOK, Placed, Rules
    <2>3. QED
      BY <1>6, <2>1, <2>2, Zenon DEF MultipartHeader
  <1>7. CASE MultipartData
    <2>1. Refuse("line") \/ Refuse("format") => TypeOK'
      BY <1>3 DEF EndingNames
    <2>2. CASE /\ idx <= Len(body) /\ DataEnd # 0
               /\ idx' = DataEnd + 1 /\ pc' = "top"
               /\ \E test : raised' = raised \o If(test, 10)
               /\ UNCHANGED <<part, ending>>
      <3>1. DataEnd \in idx .. Len(body)
        BY <1>1, <1>2, <2>2, DataEndKnown
      <3>2. idx' \in 1 .. Len(body) + 2
        BY <1>1, <1>2, <2>2, <3>1
      <3>3. raised' \in Seq(Rules)
        BY <1>2, <2>2, IfKnown, ConcatKnown DEF Rules
      <3>4. QED
        BY <1>1, <1>2, <1>7, <2>2, <3>2, <3>3
           DEF MultipartData, TypeOK, Placed, Rules
    <2>3. QED
      BY <1>7, <2>1, <2>2, Zenon DEF MultipartData
  <1>8. QED
    BY <1>4, <1>5, <1>6, <1>7 DEF Multipart

\* TypeOK is an invariant: wherever a query or a multipart body is cut, the
\* place the loop stands at is in the text or at most one behind its end
\* (ngx_http_spliturl_ruleset, ngx_http_naxsi_multipart_parse).
THEOREM TypeCorrect == Spec => []TypeOK
  <1>1. Init => TypeOK
    <2>1. SUFFICES ASSUME Init PROVE TypeOK
      OBVIOUS
    <2>2. /\ << >> \in Seq(Rules) /\ idx = 1 /\ raised = << >>
          /\ part.name = "none" /\ ending = "none" /\ pc = "start"
      <3>1. << >> \in Seq(Rules)
        BY DEF Rules
      <3>2. part = NoPart /\ NoPart.name = "none"
        BY <2>1 DEF Init, NoPart
      <3>3. QED
        BY <2>1, <3>1, <3>2, Zenon DEF Init
    <2>3. Text
      <3>1. CASE kind = "query" /\ boundary_len = 0 /\ body \in Queries
        BY <3>1, ItemsAssumption DEF Text, Kinds
      <3>2. CASE /\ kind = "multipart"
                 /\ \E m \in Multiparts :
                      body = m.body /\ boundary_len = m.boundary_len
        <4>1. PICK m \in Multiparts : body = m.body
          BY <3>2
        <4>2. body \in Seq(Marks \cup Params)
          BY <4>1, ItemsAssumption, Zenon
        <4>3. QED
          BY <3>2, <4>2 DEF Text, Kinds
      <3>3. QED
        BY <2>1, <3>1, <3>2 DEF Init
    <2>4. Len(body) \in Nat
      BY <2>3, TextLen
    <2>5. QED
      BY <2>2, <2>3, <2>4, TypeIs DEF Placed, EndingNames
  <1>2. TypeOK /\ [Next]_vars => TypeOK'
    <2>1. CASE Next
      BY <2>1, PiecesStay, PartsStay DEF Next
    <2>2. CASE UNCHANGED vars
      BY <2>2 DEF vars, TypeOK, Marks, Params
    <2>3. QED
      BY <2>1, <2>2
  <1>3. QED
    BY <1>1, <1>2, PTL DEF Spec

\* LoopsAdvance: every turn of the two loops moves on in the text, or is the
\* last; with TypeCorrect, a text of any length is done after at most three turns
\* more than it has bytes (ngx_http_spliturl_ruleset,
\* ngx_http_naxsi_multipart_parse).
THEOREM LoopsEnd == Spec => LoopsAdvance
  <1>1. ASSUME TypeOK, Next
        PROVE  pc = "start" \/ idx' > idx \/ pc' = "done"
    <2>1. /\ Placed /\ Len(body) \in Nat /\ idx \in Nat \ {0}
          /\ idx \in 1 .. Len(body) + 2
      BY <1>1, TypeIs, TextLen DEF Placed
    <2>2. CASE QueryEmpty
      BY <2>1, <2>2 DEF QueryEmpty
    <2>3. CASE QueryPiece
      <3>1. idx \in 1 .. Len(body) /\ idx' = Find(Ampersand) + 1
        BY <2>1, <2>3 DEF QueryPiece, AtPiece
      <3>2. Find(Ampersand) \in idx .. Len(body) + 1
        BY <2>1, <3>1, FindKnown
      <3>3. QED
        BY <2>1, <3>1, <3>2
    <2>4. CASE MultipartTop
      BY <2>1, <2>4 DEF MultipartTop, Refuse, End
    <2>5. CASE MultipartHeader /\ Header.ending = "none"
      <3>1. Header.data \in idx + 1 .. Len(body) + 1
        BY <2>1, <2>5, HeaderKnown DEF Placed, Text, MultipartHeader
      <3>2. idx' = Header.data
        BY <2>5 DEF MultipartHeader
      <3>3. QED
        BY <2>1, <3>1, <3>2
    <2>6. CASE MultipartData /\ idx <= Len(body) /\ DataEnd # 0
      <3>1. DataEnd \in idx .. Len(body) /\ idx' = DataEnd + 1
        BY <2>1, <2>6, DataEndKnown DEF MultipartData
      <3>2. QED
        BY <2>1, <3>1
    <2>7. CASE pc = "start" \/ pc' = "done"
      BY <2>7
    <2>8. QED
      BY <1>1, <2>2, <2>3, <2>4, <2>5, <2>6, <2>7, Zenon
         DEF Next, Query, QueryStart, QueryEnd, Multipart, MultipartStart,
             MultipartHeader, MultipartData, Refuse, End
  <1>2. QED
    BY <1>1, TypeCorrect, PTL DEF Spec, LoopsAdvance

-----------------------------------------------------------------------------
(*****************************************************************************)
(* Loops and recursions                                                      *)
(*****************************************************************************)

\* What holds of 0, and of every i up to n if it holds of i - 1, holds of all.
LEMMA UpTo ==
  ASSUME NEW n \in Nat, NEW S, 0 \in S,
         \A i \in 1 .. n : i - 1 \in S => i \in S
  PROVE  \A i \in 0 .. n : i \in S
<1>. DEFINE T == {i \in 0 .. n : i \notin S}
            F == {0 .. i : i \in T}
<1>1. SUFFICES ASSUME T # {} PROVE FALSE
  OBVIOUS
<1>2. \A i \in T : i \in Nat /\ 0 .. i \in SUBSET (0 .. n)
  OBVIOUS
<1>3. F \subseteq SUBSET (0 .. n) /\ F # {}
  BY <1>1, <1>2, Zenon
<1>4. F \subseteq FiniteSubsetsOf(0 .. n)
  BY <1>3, FS_Interval, FS_Subset DEF FiniteSubsetsOf
<1>5. \E x \in F : \A y \in F : ~ (<<y, x>> \in StrictSubsetOrdering(0 .. n))
  BY <1>3, <1>4, FS_StrictSubsetOrderingWellFounded, WFMin
<1>6. PICK m \in T :
        \A i \in T : ~ (<<0 .. i, 0 .. m>> \in StrictSubsetOrdering(0 .. n))
  BY <1>5, Zenon
<1>7. m \in 1 .. n /\ m - 1 \in 0 .. n
  BY <1>6
<1>8. m - 1 \in T
  BY <1>6, <1>7
<1>9. 0 .. (m - 1) \subseteq 0 .. m /\ m \in 0 .. m /\ m \notin 0 .. (m - 1)
  BY <1>7
<1>10. <<0 .. (m - 1), 0 .. m>> \in StrictSubsetOrdering(0 .. n)
  BY <1>2, <1>6, <1>8, <1>9, Zenon DEF StrictSubsetOrdering
<1>. QED BY <1>6, <1>8, <1>10

\* F is the course of a loop of n turns from c: turn i takes F[i - 1] to F[i].
Course(F, G, c, n) ==
  F[0] = c /\ \A i \in 1 .. n : F[i] = G[<<F[i - 1], i>>]

\* A loop of n turns, each of which takes C to C, has a course.
LEMMA LoopExists ==
  ASSUME NEW C, NEW c \in C, NEW n \in Nat, NEW G \in [C \X (1 .. n) -> C]
  PROVE  \E F \in [0 .. n -> C] : Course(F, G, c, n)
<1>. DEFINE S == {m \in 0 .. n : \E F \in [0 .. m -> C] : Course(F, G, c, m)}
<1>1. 0 \in S
  <2>. DEFINE E == [i \in 0 .. 0 |-> c]
  <2>1. E \in [0 .. 0 -> C] /\ E[0] = c /\ \A i \in 1 .. 0 : FALSE
    OBVIOUS
  <2>2. Course(E, G, c, 0)
    BY <2>1 DEF Course
  <2>. QED BY <2>1, <2>2
<1>2. ASSUME NEW m \in 1 .. n, m - 1 \in S
      PROVE  m \in S
  <2>1. PICK F \in [0 .. (m - 1) -> C] :
          F[0] = c /\ \A i \in 1 .. (m - 1) : F[i] = G[<<F[i - 1], i>>]
    BY <1>2 DEF Course
  <2>. DEFINE E == [i \in 0 .. m |->
                      IF i = m THEN G[<<F[m - 1], m>>] ELSE F[i]]
  <2>2. G[<<F[m - 1], m>>] \in C
    OBVIOUS
  <2>3. E \in [0 .. m -> C]
    BY <2>2
  <2>4. E[0] = c
    BY <2>1
  <2>5. ASSUME NEW i \in 1 .. m
        PROVE  E[i] = G[<<E[i - 1], i>>]
    <3>1. i - 1 \in 0 .. m /\ i - 1 # m
      OBVIOUS
    <3>2. E[i - 1] = F[i - 1]
      BY <3>1
    <3>3. CASE i = m
      <4>1. E[m] = G[<<F[m - 1], m>>]
        OBVIOUS
      <4>. HIDE DEF E
      <4>. QED BY <3>2, <3>3, <4>1
    <3>4. CASE i # m
      <4>1. i \in 1 .. (m - 1)
        BY <3>4
      <4>. QED BY <2>1, <3>2, <3>4, <4>1
    <3>. QED BY <3>3, <3>4
  <2>. HIDE DEF E
  <2>6. Course(E, G, c, m)
    BY <2>4, <2>5 DEF Course
  <2>. QED BY <2>3, <2>6
<1>3. n \in S
  <2>. HIDE DEF S
  <2>. QED BY <1>1, <1>2, UpTo
<1>. QED BY <1>3

\* What holds of each i from which on it holds, down from the last, holds of all.
LEMMA DownFrom ==
  ASSUME NEW lo \in Nat, NEW hi \in Nat, NEW S,
         \A i \in lo .. hi : (\A j \in (i + 1) .. hi : j \in S) => i \in S
  PROVE  \A i \in lo .. hi : i \in S
<1>1. CASE hi < lo
  BY <1>1
<1>2. CASE lo <= hi
  <2>. DEFINE n == hi - lo + 1
              T == {k \in 0 .. n : \A j \in (hi + 1 - k) .. hi : j \in S}
  <2>1. n \in Nat
    BY <1>2
  <2>2. 0 \in T
    BY <2>1
  <2>3. ASSUME NEW k \in 1 .. n, k - 1 \in T
        PROVE  k \in T
    <3>. DEFINE i == hi + 1 - k
    <3>1. i \in lo .. hi
      BY <1>2
    <3>2. \A j \in (i + 1) .. hi : j \in S
      BY <2>3
    <3>3. i \in S
      BY <3>1, <3>2
    <3>. QED BY <3>2, <3>3
  <2>4. \A k \in 0 .. n : k \in T
    <3>. HIDE DEF T, n
    <3>. QED BY <2>1, <2>2, <2>3, UpTo
  <2>5. n \in T
    BY <2>1, <2>4
  <2>. QED BY <2>5
<1>. QED BY <1>1, <1>2

\* G[<<i, f>>] depends on the values of f behind i only.
Backward(lo, hi, C, G) ==
  /\ lo \in Nat /\ hi \in Nat /\ C # {}
  /\ G \in [(lo .. hi) \X [lo .. hi -> C] -> C]
  /\ \A i \in lo .. hi : \A f, g \in [lo .. hi -> C] :
       (\A j \in (i + 1) .. hi : f[j] = g[j]) => G[<<i, f>>] = G[<<i, g>>]

\* A recursion in which each value depends on later ones only has a solution.
LEMMA BackwardExists ==
  ASSUME NEW lo, NEW hi, NEW C, NEW G, Backward(lo, hi, C, G)
  PROVE  \E f \in [lo .. hi -> C] : \A i \in lo .. hi : f[i] = G[<<i, f>>]
<1>. DEFINE D == lo .. hi
            FS == [D -> C]
            Solved(f, k) == \A i \in D : i >= k => f[i] = G[<<i, f>>]
            S == {k \in D : \E f \in FS : Solved(f, k)}
<1>0. /\ lo \in Nat /\ hi \in Nat
      /\ G \in [(lo .. hi) \X [lo .. hi -> C] -> C]
      /\ \A i \in lo .. hi : \A f, g \in [lo .. hi -> C] :
           (\A j \in (i + 1) .. hi : f[j] = g[j]) => G[<<i, f>>] = G[<<i, g>>]
  BY DEF Backward
<1>. PICK c \in C : TRUE
  BY DEF Backward
<1>1. /\ \A i \in D : i \in Nat /\ lo <= i /\ i <= hi
      /\ \A i \in D : \A j \in (i + 1) .. hi : j \in D /\ j > i
      /\ \A i, j \in D : j > i => j \in (i + 1) .. hi
      /\ \A i, j \in D : ~(j > i) /\ j >= i => j = i
      /\ \A i, j \in D : j > i => j >= i /\ j >= i + 1 /\ j # i
      /\ \A i \in D : i # hi => i + 1 \in D
      /\ \A i \in D : i >= lo
  BY <1>0
<1>2. /\ \A i \in D, f \in FS : G[<<i, f>>] \in C
      /\ \A i \in D, f, g \in FS :
           (\A j \in D : j > i => f[j] = g[j]) => G[<<i, f>>] = G[<<i, g>>]
      /\ \A f \in FS, m \in D, x \in C :
           \E g \in FS : g[m] = x /\ \A i \in D : i # m => g[i] = f[i]
      /\ [i \in D |-> c] \in FS
  <2>1. ASSUME NEW i \in D, NEW f \in FS, NEW g \in FS, \A j \in D : j > i => f[j] = g[j]
        PROVE  G[<<i, f>>] = G[<<i, g>>]
    <3>1. \A j \in (i + 1) .. hi : f[j] = g[j]
      BY <1>1, <2>1
    <3>. QED BY <1>0, <3>1
  <2>2. ASSUME NEW f \in FS, NEW m \in D, NEW x \in C
        PROVE  \E g \in FS : g[m] = x /\ \A i \in D : i # m => g[i] = f[i]
    <3>. DEFINE g == [f EXCEPT ![m] = x]
    <3>1. g \in FS /\ g[m] = x /\ \A i \in D : i # m => g[i] = f[i]
      OBVIOUS
    <3>. QED BY <3>1
  <2>. QED BY <1>0, <2>1, <2>2
<1>. HIDE DEF D, FS
<1>3. ASSUME NEW m \in D, \A j \in (m + 1) .. hi : j \in S
      PROVE  m \in S
  <2>1. PICK f \in FS : \A i \in D : i > m => f[i] = G[<<i, f>>]
    <3>1. CASE m = hi
      <4>1. \A i \in D : ~(i > m)
        BY <1>1, <3>1
      <4>. QED BY <1>2, <4>1, Zenon
    <3>2. CASE m # hi
      <4>1. m + 1 \in S
        <5>1. m + 1 \in (m + 1) .. hi
          BY <1>1, <3>2 DEF D
        <5>. QED BY <1>3, <5>1
      <4>2. PICK f \in FS : Solved(f, m + 1)
        BY <4>1
      <4>3. \A i \in D : i > m => i >= m + 1
        BY <1>1
      <4>. QED BY <4>2, <4>3, Zenon
    <3>. QED BY <3>1, <3>2
  <2>. DEFINE x == G[<<m, f>>]
  <2>2. x \in C
    BY <1>2
  <2>. HIDE DEF x
  <2>3. PICK g \in FS : g[m] = x /\ \A i \in D : i # m => g[i] = f[i]
    BY <1>2, <2>2
  <2>4. ASSUME NEW i \in D, i >= m
        PROVE  g[i] = G[<<i, g>>]
    <3>0. \A j \in D : j > i => j # m
      BY <1>1, <2>4
    <3>1. \A j \in D : j > i => g[j] = f[j]
      BY <2>3, <3>0, Zenon
    <3>2. G[<<i, g>>] = G[<<i, f>>]
      BY <1>2, <2>3, <3>1, ZenonT(60)
    <3>3. i = m \/ (i > m /\ i # m)
      BY <1>1, <2>4
    <3>4. CASE i = m
      BY <2>3, <3>2, <3>4, Zenon DEF x
    <3>5. CASE i > m /\ i # m
      BY <2>1, <2>3, <3>2, <3>5, Zenon
    <3>. QED BY <3>3, <3>4, <3>5
  <2>. QED BY <2>3, <2>4
<1>4. \A m \in D : m \in S
  <2>. HIDE DEF S
  <2>1. \A m \in lo .. hi : (\A j \in (m + 1) .. hi : j \in S) => m \in S
    BY <1>3 DEF D
  <2>. QED BY <1>0, <2>1, DownFrom DEF D
<1>5. CASE lo \in D
  <2>1. PICK f \in FS : Solved(f, lo)
    BY <1>4, <1>5
  <2>. QED BY <1>1, <2>1, Zenon DEF D, FS
<1>6. CASE lo \notin D
  <2>1. \A i \in D : FALSE
    BY <1>0, <1>6 DEF D
  <2>. QED BY <1>2, <2>1, Zenon DEF D, FS
<1>. QED BY <1>5, <1>6

-----------------------------------------------------------------------------
(*****************************************************************************)
(* Percent-decoding, byte by byte                                            *)
(*****************************************************************************)

-----------------------------------------------------------------------------
(***************************************************************************)
(* Percent escapes                                                         *)
(***************************************************************************)
\* The state of naxsi_unescape_uri between two bytes.
States ==
  [state : {"usual", "quoted", "quoted_second"}, first : Int, out : Seq(Int),
   bad : Nat]
Fresh == [state |-> "usual", first |-> 0, out |-> << >>, bad |-> 0]

\* What is added to the state.
LEMMA EmitIs ==
  ASSUME NEW st \in States, NEW bytes \in Seq(Int), NEW bad \in Nat
  PROVE  /\ Emit(st, bytes, bad) \in States
         /\ Emit(st, bytes, bad).state = "usual"
         /\ Emit(st, bytes, bad).out = st.out \o bytes
         /\ Emit(st, bytes, bad).bad = st.bad + bad
<1>1. st.out \o bytes \in Seq(Int)
  <2>1. st.out \in Seq(Int)
    BY DEF States
  <2>. QED BY <2>1, ConcatProperties
<1>2. st.bad + bad \in Nat
  BY DEF States
<1>. DEFINE o == st.out \o bytes
            b == st.bad + bad
<1>3. Emit(st, bytes, bad) = [st EXCEPT !.state = "usual", !.out = o, !.bad = b]
  BY Zenon DEF Emit
<1>. HIDE DEF o, b
<1>4. o \in Seq(Int) /\ b \in Nat
  BY <1>1, <1>2 DEF o, b
<1>5. /\ Emit(st, bytes, bad) \in States
      /\ Emit(st, bytes, bad).state = "usual"
      /\ Emit(st, bytes, bad).out = o
      /\ Emit(st, bytes, bad).bad = b
  BY <1>3, <1>4 DEF States
<1>. QED BY <1>5 DEF o, b

\* The byte of two digits.
HexOf(a, b) == <<16 * HexValue(a) + HexValue(b)>>

\* Two digits are a byte, as a sequence of one.
LEMMA HexOfKnown ==
  ASSUME NEW a \in Int, NEW b \in Int
  PROVE  HexOf(a, b) \in Seq(Int)
<1>1. HexValue(a) \in Int /\ HexValue(b) \in Int
  BY DEF HexValue
<1>2. 16 * HexValue(a) + HexValue(b) \in Int
  BY <1>1
<1>. QED BY <1>2 DEF HexOf

\* What a byte does to the state.
LEMMA ByteIs ==
  ASSUME NEW st \in States, NEW ch \in Byte
  PROVE  /\ unescape_byte(st, ch) \in States
         /\ st.state = "usual" /\ ch # Percent =>
              unescape_byte(st, ch) = Emit(st, <<ch>>, 0)
         /\ st.state = "usual" /\ ch = Percent =>
              /\ unescape_byte(st, ch).state = "quoted"
              /\ unescape_byte(st, ch).out = st.out
              /\ unescape_byte(st, ch).bad = st.bad
         /\ st.state = "quoted" /\ ch \in HexDigit =>
              /\ unescape_byte(st, ch).state = "quoted_second"
              /\ unescape_byte(st, ch).first = ch
              /\ unescape_byte(st, ch).out = st.out
              /\ unescape_byte(st, ch).bad = st.bad
         /\ st.state = "quoted" /\ ch \notin HexDigit =>
              unescape_byte(st, ch) = Emit(st, <<Percent, ch>>, 1)
         /\ st.state = "quoted_second" /\ ch \in HexDigit =>
              unescape_byte(st, ch) = Emit(st, HexOf(st.first, ch), 0)
         /\ st.state = "quoted_second" /\ ch \notin HexDigit =>
              unescape_byte(st, ch) = Emit(st, <<Percent, st.first, ch>>, 1)
<1>1. st.state \in {"usual", "quoted", "quoted_second"} /\ st.first \in Int
  BY DEF States
<1>2. ch \in Int /\ Percent \in Int
  BY DEF Byte, Percent
<1>3. /\ <<ch>> \in Seq(Int) /\ <<Percent, ch>> \in Seq(Int)
      /\ <<Percent, st.first, ch>> \in Seq(Int) /\ HexOf(st.first, ch) \in Seq(Int)
  <2>1. HexOf(st.first, ch) \in Seq(Int)
    BY <1>1, <1>2, HexOfKnown, Zenon
  <2>. QED BY <1>1, <1>2, <2>1
<1>4. CASE st.state = "usual"
  <2>1. unescape_byte(st, ch) = IF ch = Percent THEN [st EXCEPT !.state = "quoted"]
                                ELSE Emit(st, <<ch>>, 0)
    BY <1>4 DEF unescape_byte
  <2>2. CASE ch = Percent
    <3>1. unescape_byte(st, ch) = [st EXCEPT !.state = "quoted"]
      BY <2>1, <2>2
    <3>. QED BY <1>4, <2>2, <3>1 DEF States
  <2>3. CASE ch # Percent
    <3>1. unescape_byte(st, ch) = Emit(st, <<ch>>, 0)
      BY <2>1, <2>3
    <3>2. Emit(st, <<ch>>, 0) \in States
      BY <1>3, EmitIs
    <3>. QED BY <1>4, <2>3, <3>1, <3>2
  <2>. QED BY <2>2, <2>3
<1>5. CASE st.state = "quoted"
  <2>1. unescape_byte(st, ch) = IF ch \in HexDigit
           THEN [st EXCEPT !.state = "quoted_second", !.first = ch]
           ELSE Emit(st, <<Percent, ch>>, 1)
    BY <1>5 DEF unescape_byte
  <2>2. CASE ch \in HexDigit
    <3>1. unescape_byte(st, ch) = [st EXCEPT !.state = "quoted_second", !.first = ch]
      BY <2>1, <2>2
    <3>. QED BY <1>2, <1>5, <2>2, <3>1 DEF States
  <2>3. CASE ch \notin HexDigit
    <3>1. unescape_byte(st, ch) = Emit(st, <<Percent, ch>>, 1)
      BY <2>1, <2>3
    <3>2. Emit(st, <<Percent, ch>>, 1) \in States
      BY <1>3, EmitIs
    <3>. QED BY <1>5, <2>3, <3>1, <3>2
  <2>. QED BY <2>2, <2>3
<1>6. CASE st.state = "quoted_second"
  <2>1. unescape_byte(st, ch) = quoted_second(st, ch)
    BY <1>6 DEF unescape_byte
  <2>2. quoted_second(st, ch) = IF ch \in HexDigit THEN Emit(st, HexOf(st.first, ch), 0)
                                ELSE Emit(st, <<Percent, st.first, ch>>, 1)
    BY Zenon DEF quoted_second, HexOf
  <2>3. Emit(st, HexOf(st.first, ch), 0) \in States
    BY <1>3, EmitIs
  <2>4. Emit(st, <<Percent, st.first, ch>>, 1) \in States
    BY <1>3, EmitIs
  <2>. QED BY <1>6, <2>1, <2>2, <2>3, <2>4, Zenon
<1>. QED BY <1>1, <1>4, <1>5, <1>6

\* after is the loop of naxsi_unescape_uri over text.
Unescaping(text, after) ==
  /\ after \in [0 .. Len(text) -> States]
  /\ after[0] = Fresh
  /\ \A i \in 1 .. Len(text) : after[i] = unescape_byte(after[i - 1], text[i])

\* naxsi_unescape is what its loop leaves.
LEMMA UnescapeIs ==
  ASSUME NEW text \in Seq(Byte)
  PROVE  \E after :
           /\ Unescaping(text, after)
           /\ naxsi_unescape(text)
                = [text  |-> escape_nullbytes(after[Len(text)].out),
                   count |-> after[Len(text)].bad
                             + Cardinality(Nulls(after[Len(text)].out))]
<1>. DEFINE n == Len(text)
            D == 0 .. n
            E(i, f) == IF i = 0 THEN Fresh ELSE unescape_byte(f[i - 1], text[i])
            G == [x \in States \X (1 .. n) |-> unescape_byte(x[1], text[x[2]])]
<1>1. n \in Nat /\ \A i \in 1 .. n : text[i] \in Byte
  OBVIOUS
<1>2. Fresh \in States
  BY DEF Fresh, States
<1>3. G \in [States \X (1 .. n) -> States]
  <2>. HIDE DEF n
  <2>1. \A st \in States, i \in 1 .. n : unescape_byte(st, text[i]) \in States
    BY <1>1, ByteIs
  <2>. QED BY <2>1
<1>4. PICK F \in [D -> States] : Course(F, G, Fresh, n)
  <2>. HIDE DEF n, G
  <2>. QED BY <1>1, <1>2, <1>3, LoopExists
<1>5. F = [i \in D |-> E(i, F)]
  <2>1. \A i \in D : F[i] = E(i, F)
    <3>. HIDE DEF n
    <3>1. ASSUME NEW i \in D, i # 0
          PROVE  F[i] = unescape_byte(F[i - 1], text[i])
      <4>1. i \in 1 .. n /\ i - 1 \in D
        BY <1>1, <3>1
      <4>2. F[i - 1] \in States
        BY <4>1
      <4>3. F[i] = G[<<F[i - 1], i>>]
        BY <1>4, <4>1 DEF Course
      <4>4. G[<<F[i - 1], i>>] = unescape_byte(F[i - 1], text[i])
        BY <4>1, <4>2
      <4>. QED BY <4>3, <4>4
    <3>2. F[0] = Fresh
      BY <1>4 DEF Course
    <3>. QED BY <3>1, <3>2
  <2>. HIDE DEF D, E
  <2>. QED BY <2>1
<1>6. \E g : g = [i \in D |-> E(i, g)]
  <2>. HIDE DEF E, D
  <2>. QED BY <1>5, Zenon
<1>. DEFINE Is(g) == naxsi_unescape(text)
                = [text  |-> escape_nullbytes(g[n].out),
                   count |-> g[n].bad + Cardinality(Nulls(g[n].out))]
<1>7. PICK g : /\ g = [i \in D |-> E(i, g)]
               /\ Is(g)
  BY <1>6, Zenon DEF naxsi_unescape, Fresh
<1>. HIDE DEF Is
<1>8. \A i \in D : g[i] = E(i, g)
  <2>. HIDE DEF E, D
  <2>. QED BY <1>7
<1>9. /\ g[0] = Fresh /\ 0 \in D
      /\ \A i \in 1 .. n : g[i] = unescape_byte(g[i - 1], text[i])
  <2>1. 0 \in D /\ \A i \in 1 .. n : i \in D /\ i # 0
    BY <1>1
  <2>. HIDE DEF D, n
  <2>. QED BY <1>8, <2>1, Zenon
<1>10. \A i \in D : g[i] \in States
  <2>. DEFINE S == {i \in D : g[i] \in States}
  <2>1. 0 \in S
    BY <1>2, <1>9
  <2>2. ASSUME NEW i \in 1 .. n, i - 1 \in S
        PROVE  i \in S
    <3>1. g[i] = unescape_byte(g[i - 1], text[i]) /\ i \in D
      BY <1>9
    <3>2. unescape_byte(g[i - 1], text[i]) \in States
      BY <1>1, <2>2, ByteIs
    <3>. QED BY <3>1, <3>2
  <2>3. \A i \in D : i \in S
    <3>. HIDE DEF S, n
    <3>. QED BY <1>1, <2>1, <2>2, UpTo
  <2>. QED BY <2>3
<1>11. g \in [D -> States]
  <2>. HIDE DEF D, E
  <2>. QED BY <1>7, <1>10
<1>12. Unescaping(text, g)
  BY <1>9, <1>11 DEF Unescaping
<1>. QED BY <1>7, <1>12 DEF Is

-----------------------------------------------------------------------------
(*****************************************************************************)
(* The pieces of a text that is decoded                                      *)
(*****************************************************************************)

\* A digit at place k.
Hex(text, k) == k <= Len(text) /\ text[k] \in HexDigit

\* Is there a null byte among these?
HasNull(s) == 0 \in {s[k] : k \in DOMAIN s}

\* Two hexadecimal digits stand for a byte.
LEMMA HexOfByte ==
  ASSUME NEW a \in HexDigit, NEW b \in HexDigit
  PROVE  HexOf(a, b) \in Seq(Byte)
<1>1. HexValue(a) \in 0 .. 15 /\ HexValue(b) \in 0 .. 15
  BY DEF HexDigit, HexValue
<1>2. 16 * HexValue(a) + HexValue(b) \in Byte
  BY <1>1 DEF Byte
<1>. QED BY <1>2 DEF HexOf

\* Two or three bytes of a text.
LEMMA SubSeqPair ==
  ASSUME NEW S, NEW s \in Seq(S), NEW i \in 1 .. Len(s), i + 1 <= Len(s)
  PROVE  SubSeq(s, i, i + 1) = <<s[i], s[i + 1]>>
<1>. DEFINE t == SubSeq(s, i, i + 1)
            u == <<s[i], s[i + 1]>>
<1>1. /\ i \in Int /\ i + 1 \in Int /\ i <= i + 1 /\ (i + 1) - i + 1 = 2
      /\ \A k \in i .. (i + 1) : s[k] \in S
  OBVIOUS
<1>2. t \in Seq(S) /\ Len(t) = 2 /\ \A k \in 1 .. 2 : t[k] = s[i + k - 1]
  BY <1>1, SubSeqProperties
<1>3. u \in Seq(S) /\ Len(u) = 2 /\ u[1] = s[i] /\ u[2] = s[i + 1]
  BY <1>1
<1>. HIDE DEF t, u
<1>4. \A k \in 1 .. Len(t) : t[k] = u[k]
  <2>1. \A k \in 1 .. 2 : k = 1 \/ k = 2
    OBVIOUS
  <2>2. t[1] = s[i] /\ t[2] = s[i + 1]
    BY <1>2
  <2>. QED BY <1>2, <1>3, <2>1, <2>2
<1>5. t = u
  BY <1>2, <1>3, <1>4, SeqEqual
<1>. QED BY <1>5 DEF t, u

\* Three bytes of a text.
LEMMA SubSeqTriple ==
  ASSUME NEW S, NEW s \in Seq(S), NEW i \in 1 .. Len(s), i + 2 <= Len(s)
  PROVE  SubSeq(s, i, i + 2) = <<s[i], s[i + 1], s[i + 2]>>
<1>. DEFINE t == SubSeq(s, i, i + 2)
            u == <<s[i], s[i + 1], s[i + 2]>>
<1>1. /\ i \in Int /\ i + 2 \in Int /\ i <= i + 2 /\ (i + 2) - i + 1 = 3
      /\ \A k \in i .. (i + 2) : s[k] \in S
  OBVIOUS
<1>2. t \in Seq(S) /\ Len(t) = 3 /\ \A k \in 1 .. 3 : t[k] = s[i + k - 1]
  BY <1>1, SubSeqProperties
<1>3. u \in Seq(S) /\ Len(u) = 3 /\ u[1] = s[i] /\ u[2] = s[i + 1] /\ u[3] = s[i + 2]
  BY <1>1
<1>. HIDE DEF t, u
<1>4. \A k \in 1 .. Len(t) : t[k] = u[k]
  <2>1. \A k \in 1 .. 3 : k = 1 \/ k = 2 \/ k = 3
    OBVIOUS
  <2>2. t[1] = s[i] /\ t[2] = s[i + 1] /\ t[3] = s[i + 2]
    BY <1>2
  <2>. QED BY <1>2, <1>3, <2>1, <2>2
<1>5. t = u
  BY <1>2, <1>3, <1>4, SeqEqual
<1>. QED BY <1>5 DEF t, u

\* The pieces of a text.
LEMMA PieceIs ==
  ASSUME NEW text \in Seq(Byte), NEW i \in 1 .. Len(text)
  PROVE  /\ text[i] # Percent =>
              Piece(text, i) = [len |-> 1, out |-> <<text[i]>>, bad |-> FALSE]
         /\ text[i] = Percent /\ Hex(text, i + 1) /\ Hex(text, i + 2) =>
              Piece(text, i) = [len |-> 3, out |-> HexOf(text[i + 1], text[i + 2]),
                                bad |-> FALSE]
         /\ text[i] = Percent /\ i + 1 <= Len(text) /\ ~Hex(text, i + 1) =>
              Piece(text, i) = [len |-> 2, out |-> <<text[i], text[i + 1]>>,
                                bad |-> TRUE]
         /\ text[i] = Percent /\ Hex(text, i + 1) /\ i + 2 <= Len(text)
            /\ ~Hex(text, i + 2) =>
              Piece(text, i) = [len |-> 3, bad |-> TRUE,
                                out |-> <<text[i], text[i + 1], text[i + 2]>>]
         /\ text[i] = Percent /\ ~(i + 1 <= Len(text) /\ ~Hex(text, i + 1))
            /\ ~(Hex(text, i + 1) /\ i + 2 <= Len(text)) =>
              Piece(text, i) = [len |-> 2, out |-> << >>, bad |-> FALSE]
<1>. DEFINE n == Len(text)
            h1 == Hex(text, i + 1)
            h2 == Hex(text, i + 2)
            two == SubSeq(text, i, i + 1)
            three == SubSeq(text, i, i + 2)
            c1 == text[i] # Percent
            c2 == text[i] = Percent /\ h1 /\ h2
            c3 == text[i] = Percent /\ i + 1 <= n /\ ~h1
            c4 == text[i] = Percent /\ h1 /\ i + 2 <= n /\ ~h2
            p1 == [len |-> 1, out |-> <<text[i]>>, bad |-> FALSE]
            p2 == [len |-> 3, bad |-> FALSE, out |-> HexOf(text[i + 1], text[i + 2])]
            p3 == [len |-> 2, out |-> two, bad |-> TRUE]
            p4 == [len |-> 3, out |-> three, bad |-> TRUE]
            p5 == [len |-> 2, out |-> << >>, bad |-> FALSE]
<1>1. Piece(text, i) = CASE c1 -> p1 [] c2 -> p2 [] c3 -> p3 [] c4 -> p4 [] OTHER -> p5
  BY Zenon DEF Piece, Hex, HexOf
<1>2. i + 1 <= n => two = <<text[i], text[i + 1]>>
  BY SubSeqPair
<1>3. i + 2 <= n => three = <<text[i], text[i + 1], text[i + 2]>>
  BY SubSeqTriple
<1>4. i + 2 <= n => i + 1 <= n
  OBVIOUS
<1>5. /\ h1 => i + 1 <= n
      /\ h2 => i + 2 <= n
  BY DEF Hex
<1>. HIDE DEF two, three, h1, h2, n
<1>6. /\ c1 => Piece(text, i) = p1
      /\ c2 => Piece(text, i) = p2
      /\ c3 => Piece(text, i) = p3
      /\ c4 => Piece(text, i) = p4
      /\ ~c1 /\ ~c2 /\ ~c3 /\ ~c4 => Piece(text, i) = p5
  <2>. HIDE DEF p1, p2, p3, p4, p5
  <2>. QED BY <1>1
<1>7. c3 => p3 = [len |-> 2, out |-> <<text[i], text[i + 1]>>, bad |-> TRUE]
  BY <1>2, Zenon
<1>8. c4 => p4 = [len |-> 3, bad |-> TRUE, out |-> <<text[i], text[i + 1], text[i + 2]>>]
  BY <1>3
<1>9. /\ c1 => Piece(text, i) = [len |-> 1, out |-> <<text[i]>>, bad |-> FALSE]
      /\ c2 => Piece(text, i) = [len |-> 3, out |-> HexOf(text[i + 1], text[i + 2]), bad |-> FALSE]
      /\ c3 => Piece(text, i) = [len |-> 2, out |-> <<text[i], text[i + 1]>>, bad |-> TRUE]
      /\ c4 => Piece(text, i) = [len |-> 3, bad |-> TRUE, out |-> <<text[i], text[i + 1], text[i + 2]>>]
      /\ ~c1 /\ ~c2 /\ ~c3 /\ ~c4 => Piece(text, i) = [len |-> 2, out |-> << >>, bad |-> FALSE]
  <2>1. c2 => Piece(text, i) = [len |-> 3, out |-> HexOf(text[i + 1], text[i + 2]), bad |-> FALSE]
    BY <1>6
  <2>. HIDE DEF p3, p4, c2, c3, c4
  <2>. QED BY <1>6, <1>7, <1>8, <2>1, Zenon DEF p1, p5
<1>10. text[i] = Percent /\ ~(i + 1 <= n /\ ~h1) /\ ~(h1 /\ i + 2 <= n)
         => ~c1 /\ ~c2 /\ ~c3 /\ ~c4
  BY <1>5
<1>. QED BY <1>9, <1>10, Zenon DEF n, h1, h2

\* A piece ends behind its place.
LEMMA PieceKnown ==
  ASSUME NEW text \in Seq(Byte), NEW i \in 1 .. Len(text)
  PROVE  /\ Piece(text, i).out \in Seq(Byte)
         /\ Piece(text, i).len \in 1 .. 3
         /\ i + Piece(text, i).len \in (i + 1) .. (Len(text) + 2)
         /\ Piece(text, i).bad \in BOOLEAN
<1>. DEFINE n == Len(text)
            p == Piece(text, i)
            Good(r) == /\ r.out \in Seq(Byte) /\ r.len \in 1 .. 3
                       /\ i + r.len <= n + 2 /\ r.bad \in BOOLEAN
<1>1. n \in Nat /\ \A k \in 1 .. n : text[k] \in Byte
  OBVIOUS
<1>2. text[i] \in Byte
  BY <1>1
<1>3. CASE text[i] # Percent
  <2>1. p = [len |-> 1, out |-> <<text[i]>>, bad |-> FALSE]
    BY <1>3, PieceIs
  <2>. HIDE DEF p
  <2>2. Good(p)
    BY <1>2, <2>1
  <2>. QED BY <1>1, <2>2 DEF p
<1>4. CASE text[i] = Percent /\ Hex(text, i + 1) /\ Hex(text, i + 2)
  <2>1. p = [len |-> 3, out |-> HexOf(text[i + 1], text[i + 2]), bad |-> FALSE]
    BY <1>4, PieceIs
  <2>2. HexOf(text[i + 1], text[i + 2]) \in Seq(Byte) /\ i + 2 <= n
    BY <1>4, HexOfByte DEF Hex
  <2>. HIDE DEF p
  <2>3. Good(p)
    BY <2>1, <2>2
  <2>. QED BY <1>1, <2>3 DEF p
<1>5. CASE text[i] = Percent /\ i + 1 <= n /\ ~Hex(text, i + 1)
  <2>1. p = [len |-> 2, out |-> <<text[i], text[i + 1]>>, bad |-> TRUE]
    BY <1>5, PieceIs
  <2>2. text[i + 1] \in Byte
    BY <1>1, <1>5
  <2>. HIDE DEF p
  <2>3. Good(p)
    BY <1>2, <2>1, <2>2, <1>5
  <2>. QED BY <1>1, <2>3 DEF p
<1>6. CASE text[i] = Percent /\ Hex(text, i + 1) /\ i + 2 <= n /\ ~Hex(text, i + 2)
  <2>1. p = [len |-> 3, bad |-> TRUE, out |-> <<text[i], text[i + 1], text[i + 2]>>]
    BY <1>6, PieceIs
  <2>2. text[i + 1] \in Byte /\ text[i + 2] \in Byte
    BY <1>1, <1>6
  <2>. HIDE DEF p
  <2>3. Good(p)
    BY <1>2, <2>1, <2>2, <1>6
  <2>. QED BY <1>1, <2>3 DEF p
<1>7. CASE text[i] = Percent /\ ~(i + 1 <= n /\ ~Hex(text, i + 1))
           /\ ~(Hex(text, i + 1) /\ i + 2 <= n)
  <2>1. p = [len |-> 2, out |-> << >>, bad |-> FALSE]
    BY <1>7, PieceIs
  <2>. HIDE DEF p
  <2>2. Good(p)
    BY <2>1
  <2>. QED BY <1>1, <2>2 DEF p
<1>. QED BY <1>3, <1>4, <1>5, <1>6, <1>7 DEF Hex

\* What the pieces from place i on stand for, and whether one is uncommon.
DecodedFrom(text, D) ==
  /\ D \in [1 .. Len(text) + 2 -> Seq(Byte)]
  /\ \A i \in 1 .. Len(text) + 2 :
       D[i] = IF i > Len(text) THEN << >>
              ELSE Piece(text, i).out \o D[i + Piece(text, i).len]

UncommonFrom(text, U) ==
  /\ U \in [1 .. Len(text) + 2 -> BOOLEAN]
  /\ \A i \in 1 .. Len(text) + 2 :
       U[i] <=> i <= Len(text) /\ \/ Piece(text, i).bad
                                  \/ HasNull(Piece(text, i).out)
                                  \/ U[i + Piece(text, i).len]

\* The recursion of Decoded has a solution, and Decoded is its first value.
LEMMA DecodedIs ==
  ASSUME NEW text \in Seq(Byte)
  PROVE  \E D : DecodedFrom(text, D) /\ Decoded(text) = escape_nullbytes(D[1])
<1>. DEFINE n == Len(text)
            hi == n + 2
            I == 1 .. hi
            C == Seq(Byte)
            E(i, f) == IF i > n THEN << >> ELSE Piece(text, i).out \o f[i + Piece(text, i).len]
            G == [x \in I \X [I -> C] |-> E(x[1], x[2])]
<1>1. n \in Nat /\ hi \in Nat /\ 1 \in Nat /\ 1 \in I /\ C # {} /\ << >> \in C
  OBVIOUS
<1>2. ASSUME NEW i \in I, ~(i > n)
      PROVE  /\ Piece(text, i).out \in C
             /\ i + Piece(text, i).len \in (i + 1) .. hi
             /\ i + Piece(text, i).len \in I
  <2>1. i \in 1 .. n
    BY <1>1, <1>2
  <2>2. i + Piece(text, i).len \in (i + 1) .. hi /\ Piece(text, i).out \in C
    BY <2>1, PieceKnown
  <2>. HIDE DEF n
  <2>. QED BY <1>1, <2>1, <2>2
<1>. HIDE DEF n, hi
<1>3. ASSUME NEW i \in I, NEW f, \A j \in (i + 1) .. hi : f[j] \in C
      PROVE  E(i, f) \in C
  <2>. HIDE DEF I, C
  <2>1. CASE i > n
    BY <1>1, <2>1
  <2>2. CASE ~(i > n)
    <3>1. Piece(text, i).out \in C /\ f[i + Piece(text, i).len] \in C
      BY <1>2, <1>3, <2>2
    <3>2. E(i, f) = Piece(text, i).out \o f[i + Piece(text, i).len]
      BY <2>2, Zenon
    <3>. HIDE DEF E
    <3>. QED BY <3>1, <3>2, ConcatProperties DEF C
  <2>. QED BY <2>1, <2>2
<1>4. ASSUME NEW i \in I, NEW f, NEW g, \A j \in (i + 1) .. hi : f[j] = g[j]
      PROVE  E(i, f) = E(i, g)
  <2>. HIDE DEF I, C
  <2>1. ~(i > n) => f[i + Piece(text, i).len] = g[i + Piece(text, i).len]
    BY <1>2, <1>4, Zenon
  <2>. QED BY <2>1, Zenon
<1>5. \A i \in I : \A j \in (i + 1) .. hi : j \in I
  BY <1>1
<1>6. G \in [I \X [I -> C] -> C] /\ \A i \in I : \A f \in [I -> C] : G[<<i, f>>] = E(i, f)
  <2>1. \A i \in I : \A f \in [I -> C] : E(i, f) \in C
    <3>. HIDE DEF I, E, C
    <3>1. ASSUME NEW i \in I, NEW f \in [I -> C]
          PROVE  E(i, f) \in C
      <4>1. \A j \in (i + 1) .. hi : f[j] \in C
        BY <1>5
      <4>. QED BY <1>3, <4>1, Zenon
    <3>. QED BY <3>1
  <2>. HIDE DEF I, E, C
  <2>. QED BY <2>1
<1>. HIDE DEF E, G, C
<1>7. \A i \in I : \A f, g \in [I -> C] :
        (\A j \in (i + 1) .. hi : f[j] = g[j]) => G[<<i, f>>] = G[<<i, g>>]
  <2>. HIDE DEF I
  <2>1. ASSUME NEW i \in I, NEW f \in [I -> C], NEW g \in [I -> C],
               \A j \in (i + 1) .. hi : f[j] = g[j]
        PROVE  G[<<i, f>>] = G[<<i, g>>]
    <3>1. E(i, f) = E(i, g)
      BY <1>4, <2>1, Zenon
    <3>2. G[<<i, f>>] = E(i, f) /\ G[<<i, g>>] = E(i, g)
      BY <1>6, Zenon
    <3>. QED BY <3>1, <3>2, Zenon
  <2>. QED BY <2>1
<1>8. Backward(1, hi, C, G)
  BY <1>1, <1>6, <1>7, Zenon DEF Backward
<1>9. \E f \in [I -> C] : \A i \in I : f[i] = G[<<i, f>>]
  BY <1>8, BackwardExists
<1>10. PICK f \in [I -> C] : \A i \in I : f[i] = E(i, f)
  <2>. HIDE DEF I
  <2>. QED BY <1>6, <1>9, Zenon
<1>11. f = [i \in I |-> E(i, f)]
  <2>. HIDE DEF I
  <2>. QED BY <1>10
<1>12. \E g : g = [i \in I |-> E(i, g)]
  BY <1>11, Zenon
<1>13. PICK g : g = [i \in I |-> E(i, g)] /\ Decoded(text) = escape_nullbytes(g[1])
  BY <1>12, Zenon DEF Decoded, E, I, hi, n
<1>14. \A i \in I : g[i] = E(i, g)
  <2>. HIDE DEF I
  <2>. QED BY <1>13
<1>15. \A i \in I : g[i] \in C
  <2>. DEFINE S == {i \in I : g[i] \in C}
  <2>1. ASSUME NEW i \in 1 .. hi, \A j \in (i + 1) .. hi : j \in S
        PROVE  i \in S
    <3>1. E(i, g) \in C
      <4>1. \A j \in (i + 1) .. hi : g[j] \in C
        BY <2>1
      <4>. QED BY <1>3, <4>1, Zenon
    <3>. QED BY <1>14, <3>1
  <2>2. \A i \in 1 .. hi : i \in S
    <3>. HIDE DEF S
    <3>. QED BY <1>1, <2>1, DownFrom
  <2>. QED BY <2>2
<1>16. g \in [I -> C]
  <2>. HIDE DEF I
  <2>. QED BY <1>13, <1>15
<1>17. DecodedFrom(text, g)
  BY <1>14, <1>16, Zenon DEF DecodedFrom, E, I, C, hi, n
<1>. QED BY <1>13, <1>17

-----------------------------------------------------------------------------
(*****************************************************************************)
(* UTF-8                                                                     *)
(*****************************************************************************)

\* So has that of Uncommon.
LEMMA UncommonIs ==
  ASSUME NEW text \in Seq(Byte)
  PROVE  \E U : UncommonFrom(text, U) /\ Uncommon(text) = U[1]
<1>. DEFINE n == Len(text)
            hi == n + 2
            C == BOOLEAN
            E(i, f) == i <= n /\ \/ Piece(text, i).bad
                                 \/ HasNull(Piece(text, i).out)
                                 \/ f[i + Piece(text, i).len]
            I == 1 .. hi
            G == [x \in I \X [I -> C] |-> E(x[1], x[2])]
<1>1. n \in Nat /\ hi \in Nat /\ 1 \in Nat /\ 1 \in I /\ C # {}
  <2>1. n \in Nat /\ hi \in Nat /\ 1 \in Nat /\ 1 \in I
    OBVIOUS
  <2>2. TRUE \in C
    BY Zenon
  <2>. QED BY <2>1, <2>2, Zenon
<1>2. ASSUME NEW i \in I, i <= n
      PROVE  i + Piece(text, i).len \in (i + 1) .. hi
  <2>1. i \in 1 .. n
    BY <1>1, <1>2
  <2>. QED BY <2>1, PieceKnown
<1>. HIDE DEF n, hi
<1>3. ASSUME NEW i \in I, NEW f, \A j \in (i + 1) .. hi : f[j] \in C
      PROVE  E(i, f) \in C
  OBVIOUS
<1>4. ASSUME NEW i \in I, NEW f, NEW g, \A j \in (i + 1) .. hi : f[j] = g[j]
      PROVE  E(i, f) = E(i, g)
  <2>. HIDE DEF I, C
  <2>1. i <= n => f[i + Piece(text, i).len] = g[i + Piece(text, i).len]
    BY <1>2, <1>4, Zenon
  <2>. QED BY <2>1, Zenon
<1>5. \A i \in I : \A j \in (i + 1) .. hi : j \in I
  BY <1>1
<1>6. G \in [I \X [I -> C] -> C] /\ \A i \in I : \A f \in [I -> C] : G[<<i, f>>] = E(i, f)
  <2>1. \A i \in I : \A f \in [I -> C] : E(i, f) \in C
    <3>. HIDE DEF I, E, C
    <3>1. ASSUME NEW i \in I, NEW f \in [I -> C]
          PROVE  E(i, f) \in C
      <4>1. \A j \in (i + 1) .. hi : f[j] \in C
        BY <1>5
      <4>. QED BY <1>3, <4>1, Zenon
    <3>. QED BY <3>1
  <2>. HIDE DEF I, E, C
  <2>. QED BY <2>1
<1>. HIDE DEF E, G, C
<1>7. \A i \in I : \A f, g \in [I -> C] :
        (\A j \in (i + 1) .. hi : f[j] = g[j]) => G[<<i, f>>] = G[<<i, g>>]
  <2>. HIDE DEF I
  <2>1. ASSUME NEW i \in I, NEW f \in [I -> C], NEW g \in [I -> C],
               \A j \in (i + 1) .. hi : f[j] = g[j]
        PROVE  G[<<i, f>>] = G[<<i, g>>]
    <3>1. E(i, f) = E(i, g)
      BY <1>4, <2>1, Zenon
    <3>2. G[<<i, f>>] = E(i, f) /\ G[<<i, g>>] = E(i, g)
      BY <1>6, Zenon
    <3>. QED BY <3>1, <3>2, Zenon
  <2>. QED BY <2>1
<1>8. Backward(1, hi, C, G)
  BY <1>1, <1>6, <1>7, Zenon DEF Backward
<1>9. \E f \in [I -> C] : \A i \in I : f[i] = G[<<i, f>>]
  BY <1>8, BackwardExists
<1>10. PICK f \in [I -> C] : \A i \in I : f[i] = E(i, f)
  <2>. HIDE DEF I
  <2>. QED BY <1>6, <1>9, Zenon
<1>11. f = [i \in I |-> E(i, f)]
  <2>. HIDE DEF I
  <2>. QED BY <1>10
<1>12. \E g : g = [i \in I |-> E(i, g)]
  BY <1>11, Zenon
<1>13. PICK g : g = [i \in I |-> E(i, g)] /\ Uncommon(text) = g[1]
  BY <1>12, Zenon DEF Uncommon, HasNull, E, I, hi, n
<1>14. \A i \in I : g[i] = E(i, g)
  <2>. HIDE DEF I
  <2>. QED BY <1>13
<1>15. \A i \in I : g[i] \in C
  <2>. DEFINE S == {i \in I : g[i] \in C}
  <2>1. ASSUME NEW i \in 1 .. hi, \A j \in (i + 1) .. hi : j \in S
        PROVE  i \in S
    <3>1. E(i, g) \in C
      <4>1. \A j \in (i + 1) .. hi : g[j] \in C
        BY <2>1
      <4>. QED BY <1>3, <4>1, Zenon
    <3>. QED BY <1>14, <3>1
  <2>2. \A i \in 1 .. hi : i \in S
    <3>. HIDE DEF S
    <3>. QED BY <1>1, <2>1, DownFrom
  <2>. QED BY <2>2
<1>16. g \in [I -> C]
  <2>. HIDE DEF I
  <2>. QED BY <1>13, <1>15
<1>17. UncommonFrom(text, g)
  BY <1>14, <1>16, Zenon DEF UncommonFrom, E, I, C, hi, n
<1>. QED BY <1>13, <1>17

\* ok is the recursion of ngx_utf8_check, U that of its reference.
CheckedFrom(text, ok) ==
  /\ ok \in [1 .. Len(text) + 4 -> BOOLEAN]
  /\ \A i \in 1 .. Len(text) + 4 :
       ok[i] = IF i > Len(text) \/ text[i] = 0 THEN TRUE
               ELSE /\ Length(text[i]) # 0 /\ Complete(text, i)
                    /\ ~BadCharacter(SubSeq(text, i, i + Length(text[i]) - 1))
                    /\ ok[i + Length(text[i])]

CharactersFrom(text, U) ==
  /\ U \in [1 .. Len(text) + 1 -> BOOLEAN]
  /\ \A i \in 1 .. Len(text) + 1 :
       U[i] = (\/ i = Len(text) + 1
               \/ text[i] = 0
               \/ \E n \in 1 .. 4 : /\ i + n - 1 <= Len(text)
                                    /\ IsCharacter(SubSeq(text, i, i + n - 1))
                                    /\ U[i + n])

\* The length a first byte announces.
LEMMA LengthKnown ==
  ASSUME NEW b \in Byte
  PROVE  Length(b) \in 0 .. 4
BY DEF Byte, Length

\* The recursion of utf8_check has a solution.
LEMMA CheckIs ==
  ASSUME NEW text \in Seq(Byte)
  PROVE  \E ok : CheckedFrom(text, ok) /\ utf8_check(text) = ok[1]
<1>. DEFINE len == Len(text)
            hi == len + 4
            C == BOOLEAN
            N(i) == Length(text[i])
            E(i, f) == IF i > len \/ text[i] = 0 THEN TRUE
                       ELSE /\ N(i) # 0 /\ Complete(text, i)
                            /\ ~BadCharacter(SubSeq(text, i, i + N(i) - 1))
                            /\ f[i + N(i)]
            I == 1 .. hi
            G == [x \in I \X [I -> C] |-> E(x[1], x[2])]
<1>1. len \in Nat /\ hi \in Nat /\ 1 \in Nat /\ 1 \in I /\ C # {}
  <2>1. len \in Nat /\ hi \in Nat /\ 1 \in Nat /\ 1 \in I
    OBVIOUS
  <2>2. TRUE \in C
    BY Zenon
  <2>. QED BY <2>1, <2>2, Zenon
<1>2. ASSUME NEW i \in I, ~(i > len), N(i) # 0
      PROVE  i + N(i) \in (i + 1) .. hi
  <2>1. i \in 1 .. len /\ text[i] \in Byte
    BY <1>1, <1>2
  <2>2. N(i) \in 0 .. 4
    BY <2>1, LengthKnown
  <2>. HIDE DEF N
  <2>. QED BY <1>2, <2>1, <2>2
<1>. HIDE DEF len, hi, N
<1>3. ASSUME NEW i \in I, NEW f, \A j \in (i + 1) .. hi : f[j] \in C
      PROVE  E(i, f) \in C
  OBVIOUS
<1>4. ASSUME NEW i \in I, NEW f, NEW g, \A j \in (i + 1) .. hi : f[j] = g[j]
      PROVE  E(i, f) = E(i, g)
  <2>. HIDE DEF I, C
  <2>1. ~(i > len) /\ N(i) # 0 => f[i + N(i)] = g[i + N(i)]
    BY <1>2, <1>4, Zenon
  <2>. QED BY <2>1, Zenon
<1>5. \A i \in I : \A j \in (i + 1) .. hi : j \in I
  BY <1>1
<1>6. G \in [I \X [I -> C] -> C] /\ \A i \in I : \A f \in [I -> C] : G[<<i, f>>] = E(i, f)
  <2>1. \A i \in I : \A f \in [I -> C] : E(i, f) \in C
    <3>. HIDE DEF I, E, C
    <3>1. ASSUME NEW i \in I, NEW f \in [I -> C]
          PROVE  E(i, f) \in C
      <4>1. \A j \in (i + 1) .. hi : f[j] \in C
        BY <1>5
      <4>. QED BY <1>3, <4>1, Zenon
    <3>. QED BY <3>1
  <2>. HIDE DEF I, E, C
  <2>. QED BY <2>1
<1>. HIDE DEF E, G, C
<1>7. \A i \in I : \A f, g \in [I -> C] :
        (\A j \in (i + 1) .. hi : f[j] = g[j]) => G[<<i, f>>] = G[<<i, g>>]
  <2>. HIDE DEF I
  <2>1. ASSUME NEW i \in I, NEW f \in [I -> C], NEW g \in [I -> C],
               \A j \in (i + 1) .. hi : f[j] = g[j]
        PROVE  G[<<i, f>>] = G[<<i, g>>]
    <3>1. E(i, f) = E(i, g)
      BY <1>4, <2>1, Zenon
    <3>2. G[<<i, f>>] = E(i, f) /\ G[<<i, g>>] = E(i, g)
      BY <1>6, Zenon
    <3>. QED BY <3>1, <3>2, Zenon
  <2>. QED BY <2>1
<1>8. Backward(1, hi, C, G)
  BY <1>1, <1>6, <1>7, Zenon DEF Backward
<1>9. \E f \in [I -> C] : \A i \in I : f[i] = G[<<i, f>>]
  BY <1>8, BackwardExists
<1>10. PICK f \in [I -> C] : \A i \in I : f[i] = E(i, f)
  <2>. HIDE DEF I
  <2>. QED BY <1>6, <1>9, Zenon
<1>11. f = [i \in I |-> E(i, f)]
  <2>. HIDE DEF I
  <2>. QED BY <1>10
<1>12. \E g : g = [i \in I |-> E(i, g)]
  BY <1>11, Zenon
<1>13. PICK g : g = [i \in I |-> E(i, g)] /\ utf8_check(text) = g[1]
  BY <1>12, Zenon DEF utf8_check, E, I, N, hi, len
<1>14. \A i \in I : g[i] = E(i, g)
  <2>. HIDE DEF I
  <2>. QED BY <1>13
<1>15. \A i \in I : g[i] \in C
  <2>. DEFINE S == {i \in I : g[i] \in C}
  <2>1. ASSUME NEW i \in 1 .. hi, \A j \in (i + 1) .. hi : j \in S
        PROVE  i \in S
    <3>1. E(i, g) \in C
      <4>1. \A j \in (i + 1) .. hi : g[j] \in C
        BY <2>1
      <4>. QED BY <1>3, <4>1, Zenon
    <3>. QED BY <1>14, <3>1
  <2>2. \A i \in 1 .. hi : i \in S
    <3>. HIDE DEF S
    <3>. QED BY <1>1, <2>1, DownFrom
  <2>. QED BY <2>2
<1>16. g \in [I -> C]
  <2>. HIDE DEF I
  <2>. QED BY <1>13, <1>15
<1>17. CheckedFrom(text, g)
  BY <1>14, <1>16, Zenon DEF CheckedFrom, E, I, C, N, hi, len
<1>. QED BY <1>13, <1>17

\* So has that of its reference.
LEMMA CharactersIs ==
  ASSUME NEW text \in Seq(Byte)
  PROVE  \E U : CharactersFrom(text, U) /\ IsUtf8(text) = U[1]
<1>. DEFINE len == Len(text)
            hi == len + 1
            C == BOOLEAN
            E(i, f) == \/ i = len + 1
                       \/ text[i] = 0
                       \/ \E n \in 1 .. 4 : /\ i + n - 1 <= len
                                            /\ IsCharacter(SubSeq(text, i, i + n - 1))
                                            /\ f[i + n]
            I == 1 .. hi
            G == [x \in I \X [I -> C] |-> E(x[1], x[2])]
<1>1. len \in Nat /\ hi \in Nat /\ 1 \in Nat /\ 1 \in I /\ C # {}
  <2>1. len \in Nat /\ hi \in Nat /\ 1 \in Nat /\ 1 \in I
    OBVIOUS
  <2>2. TRUE \in C
    BY Zenon
  <2>. QED BY <2>1, <2>2, Zenon
<1>2. \A i \in I : \A n \in 1 .. 4 : i + n - 1 <= len => i + n \in (i + 1) .. hi
  BY <1>1
<1>. HIDE DEF len, hi
<1>3. ASSUME NEW i \in I, NEW f, \A j \in (i + 1) .. hi : f[j] \in C
      PROVE  E(i, f) \in C
  OBVIOUS
<1>4. ASSUME NEW i \in I, NEW f, NEW g, \A j \in (i + 1) .. hi : f[j] = g[j]
      PROVE  E(i, f) = E(i, g)
  <2>. HIDE DEF I, C
  <2>1. \A n \in 1 .. 4 : i + n - 1 <= len => f[i + n] = g[i + n]
    BY <1>2, <1>4, Zenon
  <2>. QED BY <2>1, Zenon
<1>5. \A i \in I : \A j \in (i + 1) .. hi : j \in I
  BY <1>1
<1>6. G \in [I \X [I -> C] -> C] /\ \A i \in I : \A f \in [I -> C] : G[<<i, f>>] = E(i, f)
  <2>1. \A i \in I : \A f \in [I -> C] : E(i, f) \in C
    <3>. HIDE DEF I, E, C
    <3>1. ASSUME NEW i \in I, NEW f \in [I -> C]
          PROVE  E(i, f) \in C
      <4>1. \A j \in (i + 1) .. hi : f[j] \in C
        BY <1>5
      <4>. QED BY <1>3, <4>1, Zenon
    <3>. QED BY <3>1
  <2>. HIDE DEF I, E, C
  <2>. QED BY <2>1
<1>. HIDE DEF E, G, C
<1>7. \A i \in I : \A f, g \in [I -> C] :
        (\A j \in (i + 1) .. hi : f[j] = g[j]) => G[<<i, f>>] = G[<<i, g>>]
  <2>. HIDE DEF I
  <2>1. ASSUME NEW i \in I, NEW f \in [I -> C], NEW g \in [I -> C],
               \A j \in (i + 1) .. hi : f[j] = g[j]
        PROVE  G[<<i, f>>] = G[<<i, g>>]
    <3>1. E(i, f) = E(i, g)
      BY <1>4, <2>1, Zenon
    <3>2. G[<<i, f>>] = E(i, f) /\ G[<<i, g>>] = E(i, g)
      BY <1>6, Zenon
    <3>. QED BY <3>1, <3>2, Zenon
  <2>. QED BY <2>1
<1>8. Backward(1, hi, C, G)
  BY <1>1, <1>6, <1>7, Zenon DEF Backward
<1>9. \E f \in [I -> C] : \A i \in I : f[i] = G[<<i, f>>]
  BY <1>8, BackwardExists
<1>10. PICK f \in [I -> C] : \A i \in I : f[i] = E(i, f)
  <2>. HIDE DEF I
  <2>. QED BY <1>6, <1>9, Zenon
<1>11. f = [i \in I |-> E(i, f)]
  <2>. HIDE DEF I
  <2>. QED BY <1>10
<1>12. \E g : g = [i \in I |-> E(i, g)]
  BY <1>11, Zenon
<1>13. PICK g : g = [i \in I |-> E(i, g)] /\ IsUtf8(text) = g[1]
  BY <1>12, Zenon DEF IsUtf8, E, I, hi, len
<1>14. \A i \in I : g[i] = E(i, g)
  <2>. HIDE DEF I
  <2>. QED BY <1>13
<1>15. \A i \in I : g[i] \in C
  <2>. DEFINE S == {i \in I : g[i] \in C}
  <2>1. ASSUME NEW i \in 1 .. hi, \A j \in (i + 1) .. hi : j \in S
        PROVE  i \in S
    <3>1. E(i, g) \in C
      <4>1. \A j \in (i + 1) .. hi : g[j] \in C
        BY <2>1
      <4>. QED BY <1>3, <4>1, Zenon
    <3>. QED BY <1>14, <3>1
  <2>2. \A i \in 1 .. hi : i \in S
    <3>. HIDE DEF S
    <3>. QED BY <1>1, <2>1, DownFrom
  <2>. QED BY <2>2
<1>16. g \in [I -> C]
  <2>. HIDE DEF I
  <2>. QED BY <1>13, <1>15
<1>17. CharactersFrom(text, g)
  BY <1>14, <1>16, Zenon DEF CharactersFrom, E, I, C, hi, len
<1>. QED BY <1>13, <1>17

\* The bytes that begin a character of one to four bytes, and those that follow.
First1 == 0 .. 127
First2 == 192 .. 223
First3 == 224 .. 239
First4 == 240 .. 247
Others == 128 .. 191

\* The code points of two, three and four bytes.
Point2(a, b) == Bits(a, 32) * 64 + Bits(b, 64)
Point3(a, b, d) == (Bits(a, 16) * 64 + Bits(b, 64)) * 64 + Bits(d, 64)
Point4(a, b, d, e) ==
  ((Bits(a, 8) * 64 + Bits(b, 64)) * 64 + Bits(d, 64)) * 64 + Bits(e, 64)

\* The refusals of ngx_utf8_check.
Bad2(a) == a \in {192, 193}
Bad3(a, b, d) ==
  \/ a = 224 /\ b \in 128 .. 159
  \/ a = 237 /\ b \in 160 .. 191
  \/ a = 239 /\ b = 191 /\ d \in {190, 191}
Bad4(a, b) ==
  \/ a = 240 /\ b \in 128 .. 143
  \/ a = 244 /\ b > 143
  \/ a > 244

\* The code points that are characters.
Scalar(p) == p \notin 55296 .. 57343 \cup {65534, 65535} /\ p <= 1114111

\* The bits that a byte of a character carries.
LEMMA BitsAre ==
  /\ \A b \in Others : Bits(b, 64) = b - 128
  /\ \A b \in First2 : Bits(b, 32) = b - 192
  /\ \A b \in First3 : Bits(b, 16) = b - 224
  /\ \A b \in First4 : Bits(b, 8) = b - 240
BY DEF Bits, Others, First2, First3, First4

\* The code points, by the length of the character.
LEMMA CodePointIs ==
  ASSUME NEW c
  PROVE  /\ Len(c) = 1 => CodePoint(c) = c[1]
         /\ Len(c) = 2 => CodePoint(c) = Point2(c[1], c[2])
         /\ Len(c) = 3 => CodePoint(c) = Point3(c[1], c[2], c[3])
         /\ Len(c) = 4 => CodePoint(c) = Point4(c[1], c[2], c[3], c[4])
<1>. DEFINE n == Len(c)
            p1 == c[1]
            p2 == Point2(c[1], c[2])
            p3 == Point3(c[1], c[2], c[3])
            p4 == Point4(c[1], c[2], c[3], c[4])
<1>1. CodePoint(c) = CASE n = 1 -> p1 [] n = 2 -> p2 [] n = 3 -> p3 [] n = 4 -> p4
  BY Zenon DEF CodePoint, Point2, Point3, Point4
<1>. HIDE DEF n, p1, p2, p3, p4
<1>2. /\ n = 1 => CodePoint(c) = p1
      /\ n = 2 => CodePoint(c) = p2
      /\ n = 3 => CodePoint(c) = p3
      /\ n = 4 => CodePoint(c) = p4
  BY <1>1
<1>. QED BY <1>2, Zenon DEF n, p1, p2, p3, p4

\* All but the first byte follow.
Conts(c) == \A k \in 2 .. Len(c) : Cont(c[k])

\* The refusals, by the length of the character.
LEMMA BadIs ==
  ASSUME NEW c, Conts(c)
  PROVE  /\ Len(c) = 1 => ~BadCharacter(c)
         /\ Len(c) = 2 => (BadCharacter(c) <=> Bad2(c[1]))
         /\ Len(c) = 3 => (BadCharacter(c) <=> Bad3(c[1], c[2], c[3]))
         /\ Len(c) = 4 => (BadCharacter(c) <=> Bad4(c[1], c[2]))
<1>. DEFINE n == Len(c)
            b0 == \E k \in 2 .. n : ~Cont(c[k])
            b2 == Bad2(c[1])
            b3 == Bad3(c[1], c[2], c[3])
            b4 == Bad4(c[1], c[2])
<1>1. BadCharacter(c) <=> b0 \/ (n = 2 /\ b2) \/ (n = 3 /\ b3) \/ (n = 4 /\ b4)
  BY DEF BadCharacter, Bad2, Bad3, Bad4
<1>2. ~b0
  BY Zenon DEF Conts
<1>. HIDE DEF n, b0, b2, b3, b4
<1>3. /\ n = 1 => ~BadCharacter(c)
      /\ n = 2 => (BadCharacter(c) <=> b2)
      /\ n = 3 => (BadCharacter(c) <=> b3)
      /\ n = 4 => (BadCharacter(c) <=> b4)
  BY <1>1, <1>2
<1>. QED BY <1>3, Zenon DEF n, b2, b3, b4

\* The byte that begins a character of n bytes.
LEMMA FirstIs ==
  ASSUME NEW a \in Byte
  PROVE  /\ Length(a) = 1 => a \in First1
         /\ Length(a) = 2 => a \in First2
         /\ Length(a) = 3 => a \in First3
         /\ Length(a) = 4 => a \in First4
BY DEF Length, Byte, First1, First2, First3, First4

\* A byte below 128 is a character.
LEMMA OneByte ==
  ASSUME NEW p \in First1
  PROVE  Shortest(p) = 1 /\ Scalar(p)
BY SMTT(20) DEF Shortest, Scalar, First1

\* Two bytes are one unless a single byte would do.
LEMMA TwoBytes ==
  ASSUME NEW a \in First2, NEW b \in Others
  PROVE  Shortest(Point2(a, b)) = 2 /\ Scalar(Point2(a, b)) <=> ~Bad2(a)
<1>1. PICK p : p = Point2(a, b)
  OBVIOUS
<1>2. p = (a - 192) * 64 + (b - 128)
  <2>1. Bits(a, 32) = a - 192 /\ Bits(b, 64) = b - 128
    BY BitsAre
  <2>. QED BY <1>1, <2>1, SMT DEF Point2
<1>3. a \in 192 .. 223 /\ b \in 128 .. 191
  BY DEF First2, Others
<1>4. p \in 0 .. 2047
  BY <1>2, <1>3, SMT
<1>5. p < 128 <=> Bad2(a)
  BY <1>2, <1>3, SMT DEF Bad2
<1>6. Shortest(p) = 2 /\ Scalar(p) <=> ~(p < 128)
  BY <1>4, SMTT(20) DEF Shortest, Scalar
<1>. QED BY <1>1, <1>5, <1>6

\* Three bytes are one unless two would do, or it is a surrogate or U+FFFE or U+FFFF.
LEMMA ThreeBytes ==
  ASSUME NEW a \in First3, NEW b \in Others, NEW d \in Others
  PROVE  Shortest(Point3(a, b, d)) = 3 /\ Scalar(Point3(a, b, d)) <=> ~Bad3(a, b, d)
<1>1. PICK p : p = Point3(a, b, d)
  OBVIOUS
<1>2. a \in 224 .. 239 /\ b \in 128 .. 191 /\ d \in 128 .. 191
  BY DEF First3, Others
<1>3. p = ((a - 224) * 64 + (b - 128)) * 64 + (d - 128)
  <2>1. Bits(a, 16) = a - 224 /\ Bits(b, 64) = b - 128 /\ Bits(d, 64) = d - 128
    BY BitsAre
  <2>. QED BY <1>1, <2>1, SMT DEF Point3
<1>4. p \in Int /\ 0 <= p /\ p <= 65535
  BY <1>2, <1>3, SMT
<1>5. p < 2048 <=> a = 224 /\ b \in 128 .. 159
  BY <1>2, <1>3, SMT
<1>6. p \in 55296 .. 57343 <=> a = 237 /\ b \in 160 .. 191
  BY <1>2, <1>3, SMT
<1>7. p \in {65534, 65535} <=> a = 239 /\ b = 191 /\ d \in {190, 191}
  BY <1>2, <1>3, SMT
<1>8. Shortest(p) = 3 <=> ~(p < 2048)
  BY <1>4, SMT DEF Shortest
<1>9. Scalar(p) <=> p \notin 55296 .. 57343 /\ p \notin {65534, 65535}
  BY <1>4, SMT DEF Scalar
<1>. QED BY <1>1, <1>5, <1>6, <1>7, <1>8, <1>9, SMT DEF Bad3

\* Four bytes are one unless three would do, or it is above U+10FFFF.
LEMMA FourBytes ==
  ASSUME NEW a \in First4, NEW b \in Others, NEW d \in Others, NEW e \in Others
  PROVE  Shortest(Point4(a, b, d, e)) = 4 /\ Scalar(Point4(a, b, d, e)) <=> ~Bad4(a, b)
<1>1. PICK p : p = Point4(a, b, d, e)
  OBVIOUS
<1>2. a \in 240 .. 247 /\ b \in 128 .. 191 /\ d \in 128 .. 191 /\ e \in 128 .. 191
  BY DEF First4, Others
<1>3. p = (((a - 240) * 64 + (b - 128)) * 64 + (d - 128)) * 64 + (e - 128)
  <2>1. /\ Bits(a, 8) = a - 240 /\ Bits(b, 64) = b - 128 /\ Bits(d, 64) = d - 128
        /\ Bits(e, 64) = e - 128
    BY BitsAre
  <2>. QED BY <1>1, <2>1, SMT DEF Point4
<1>4. p \in Nat
  BY <1>2, <1>3, SMT
<1>5. p < 65536 <=> a = 240 /\ b \in 128 .. 143
  BY <1>2, <1>3, SMT
<1>6. p > 1114111 <=> (a = 244 /\ b > 143) \/ a > 244
  BY <1>2, <1>3, SMT
<1>7. Shortest(p) = 4 <=> ~(p < 65536)
  BY <1>4, SMT DEF Shortest
<1>8. ~(p < 65536) => (Scalar(p) <=> ~(p > 1114111))
  BY <1>4, SMTT(20) DEF Scalar
<1>. QED BY <1>1, <1>5, <1>6, <1>7, <1>8, SMT DEF Bad4

\* What ngx_utf8_check refuses of what is all there is what is no character.
LEMMA CharacterChecked ==
  ASSUME NEW c \in Seq(Byte), Len(c) \in 1 .. 4, Length(c[1]) = Len(c)
  PROVE  ~BadCharacter(c) <=> IsCharacter(c)
<1>. DEFINE a == c[1]
<1>1. a \in Byte
  OBVIOUS
<1>2. IsCharacter(c) <=> Conts(c) /\ Shortest(CodePoint(c)) = Len(c) /\ Scalar(CodePoint(c))
  BY SMT DEF IsCharacter, Conts, Scalar
<1>3. \A k \in 2 .. Len(c) : Cont(c[k]) <=> c[k] \in Others
  BY Zenon DEF Cont, Others
<1>. HIDE DEF a
<1>4. CASE ~Conts(c)
  BY <1>2, <1>4, Zenon DEF BadCharacter, Conts
<1>5. CASE Conts(c) /\ Len(c) = 1
  <2>1. a \in First1
    BY <1>1, <1>5, FirstIs, Zenon DEF a
  <2>2. CodePoint(c) = a /\ ~BadCharacter(c)
    BY <1>5, CodePointIs, BadIs, Zenon DEF a
  <2>3. Shortest(a) = 1 /\ Scalar(a)
    BY <2>1, OneByte, Zenon
  <2>. QED BY <1>2, <1>5, <2>2, <2>3, Zenon
<1>6. CASE Conts(c) /\ Len(c) = 2
  <2>0. 2 \in 2 .. 2
    OBVIOUS
  <2>1. a \in First2 /\ c[2] \in Others
    BY <1>1, <1>3, <1>6, <2>0, FirstIs, Zenon DEF Conts, a
  <2>2. CodePoint(c) = Point2(a, c[2]) /\ (BadCharacter(c) <=> Bad2(a))
    BY <1>6, CodePointIs, BadIs, Zenon DEF a
  <2>3. Shortest(CodePoint(c)) = 2 /\ Scalar(CodePoint(c)) <=> ~BadCharacter(c)
    BY <2>1, <2>2, TwoBytes, Zenon
  <2>. QED BY <1>2, <1>6, <2>3, Zenon
<1>7. CASE Conts(c) /\ Len(c) = 3
  <2>0. 2 \in 2 .. 3 /\ 3 \in 2 .. 3
    OBVIOUS
  <2>1. a \in First3 /\ c[2] \in Others /\ c[3] \in Others
    BY <1>1, <1>3, <1>7, <2>0, FirstIs, Zenon DEF Conts, a
  <2>2. /\ CodePoint(c) = Point3(a, c[2], c[3])
        /\ BadCharacter(c) <=> Bad3(a, c[2], c[3])
    BY <1>7, CodePointIs, BadIs, Zenon DEF a
  <2>3. Shortest(CodePoint(c)) = 3 /\ Scalar(CodePoint(c)) <=> ~BadCharacter(c)
    BY <2>1, <2>2, ThreeBytes, Zenon
  <2>. QED BY <1>2, <1>7, <2>3, Zenon
<1>8. CASE Conts(c) /\ Len(c) = 4
  <2>0. 2 \in 2 .. 4 /\ 3 \in 2 .. 4 /\ 4 \in 2 .. 4
    OBVIOUS
  <2>1. a \in First4 /\ c[2] \in Others /\ c[3] \in Others /\ c[4] \in Others
    BY <1>1, <1>3, <1>8, <2>0, FirstIs, Zenon DEF Conts, a
  <2>2. /\ CodePoint(c) = Point4(a, c[2], c[3], c[4])
        /\ BadCharacter(c) <=> Bad4(a, c[2])
    BY <1>8, CodePointIs, BadIs, Zenon DEF a
  <2>3. Shortest(CodePoint(c)) = 4 /\ Scalar(CodePoint(c)) <=> ~BadCharacter(c)
    <3>1. Shortest(Point4(a, c[2], c[3], c[4])) = 4 /\ Scalar(Point4(a, c[2], c[3], c[4]))
            <=> ~Bad4(a, c[2])
      BY <2>1, FourBytes
    <3>. QED BY <2>2, <3>1, Zenon
  <2>. QED BY <1>2, <1>8, <2>3, Zenon
<1>9. Len(c) = 1 \/ Len(c) = 2 \/ Len(c) = 3 \/ Len(c) = 4
  <2>. DEFINE n == Len(c)
  <2>1. n \in 1 .. 4
    OBVIOUS
  <2>. HIDE DEF n
  <2>2. n = 1 \/ n = 2 \/ n = 3 \/ n = 4
    BY <2>1
  <2>. QED BY <2>2 DEF n
<1>. QED BY <1>4, <1>5, <1>6, <1>7, <1>8, <1>9, Zenon

\* A character has the length its first byte announces.
LEMMA CharacterLength ==
  ASSUME NEW c, IsCharacter(c)
  PROVE  Length(c[1]) = Len(c)
BY SMT DEF IsCharacter

\* ngx_utf8_check accepts a text if and only if it is, up to its first null
\* byte, a sequence of characters of UTF-8.
THEOREM Utf8Checked ==
  \A text \in Seq(Byte) : utf8_check(text) <=> IsUtf8(text)
<1>. SUFFICES ASSUME NEW text \in Seq(Byte)
              PROVE  utf8_check(text) <=> IsUtf8(text)
  OBVIOUS
<1>. DEFINE len == Len(text)
            N(i) == Length(text[i])
            C(i) == SubSeq(text, i, i + N(i) - 1)
<1>1. len \in Nat /\ \A i \in 1 .. len : text[i] \in Byte
  OBVIOUS
<1>2. PICK ok : CheckedFrom(text, ok) /\ utf8_check(text) = ok[1]
  BY CheckIs
<1>3. PICK U : CharactersFrom(text, U) /\ IsUtf8(text) = U[1]
  BY CharactersIs
<1>. DEFINE S == {i \in 1 .. (len + 1) : ok[i] <=> U[i]}
<1>4. /\ \A i \in 1 .. (len + 4) :
           ok[i] = IF i > len \/ text[i] = 0 THEN TRUE
                   ELSE N(i) # 0 /\ Complete(text, i) /\ ~BadCharacter(C(i)) /\ ok[i + N(i)]
      /\ \A i \in 1 .. (len + 1) :
           U[i] = (\/ i = len + 1
                   \/ text[i] = 0
                   \/ \E n \in 1 .. 4 : /\ i + n - 1 <= len
                                        /\ IsCharacter(SubSeq(text, i, i + n - 1))
                                        /\ U[i + n])
  BY <1>2, <1>3, Zenon DEF CheckedFrom, CharactersFrom
<1>5. \A i \in 1 .. (len + 1) : i \in 1 .. (len + 4) /\ (i > len <=> i = len + 1)
  BY <1>1
<1>. HIDE DEF len, N, C
<1>6. ASSUME NEW i \in 1 .. (len + 1), \A j \in (i + 1) .. (len + 1) : j \in S
      PROVE  i \in S
  <2>1. CASE i > len
    <3>1. ok[i] /\ U[i]
      BY <1>4, <1>5, <2>1, Zenon
    <3>. QED BY <3>1
  <2>2. CASE text[i] = 0
    <3>1. ok[i] /\ U[i]
      BY <1>4, <1>5, <2>2, Zenon
    <3>. QED BY <3>1
  <2>3. CASE ~(i > len) /\ text[i] # 0
    <3>0. i \in 1 .. len
      BY <1>1, <2>3
    <3>1. text[i] \in Byte /\ N(i) \in 0 .. 4
      BY <1>1, <3>0, LengthKnown DEF N
    <3>2. Complete(text, i) <=> i + N(i) - 1 <= len
      BY <3>0 DEF Complete, N, len
    <3>3. \A n \in 1 .. 4 : i + n - 1 <= len =>
            /\ SubSeq(text, i, i + n - 1) \in Seq(Byte)
            /\ Len(SubSeq(text, i, i + n - 1)) = n
            /\ SubSeq(text, i, i + n - 1)[1] = text[i]
      <4>. SUFFICES ASSUME NEW n \in 1 .. 4, i + n - 1 <= len
                    PROVE  /\ SubSeq(text, i, i + n - 1) \in Seq(Byte)
                           /\ Len(SubSeq(text, i, i + n - 1)) = n
                           /\ SubSeq(text, i, i + n - 1)[1] = text[i]
        OBVIOUS
      <4>1. /\ i \in Int /\ i + n - 1 \in Int /\ i <= i + n - 1 /\ (i + n - 1) - i + 1 = n
            /\ \A k \in i .. (i + n - 1) : text[k] \in Byte
            /\ 1 \in 1 .. (i + n - 1) - i + 1 /\ i + 1 - 1 = i
        BY <1>1, <3>0
      <4>. QED BY <4>1, SubSeqProperties
    <3>4. \A n \in 1 .. 4 : i + n - 1 <= len =>
            (IsCharacter(SubSeq(text, i, i + n - 1))
               <=> n = N(i) /\ ~BadCharacter(C(i)))
      <4>. SUFFICES ASSUME NEW n \in 1 .. 4, i + n - 1 <= len
                    PROVE  IsCharacter(SubSeq(text, i, i + n - 1))
                             <=> n = N(i) /\ ~BadCharacter(C(i))
        OBVIOUS
      <4>. DEFINE c == SubSeq(text, i, i + n - 1)
      <4>1. c \in Seq(Byte) /\ Len(c) = n /\ c[1] = text[i]
        BY <3>3
      <4>2. IsCharacter(c) => Length(c[1]) = Len(c)
        BY CharacterLength, Zenon
      <4>3. n = N(i) => c = C(i)
        BY Zenon DEF C
      <4>. HIDE DEF c
      <4>4. n = N(i) => (~BadCharacter(c) <=> IsCharacter(c))
        BY <4>1, CharacterChecked DEF N
      <4>5. IsCharacter(c) => n = N(i)
        BY <4>1, <4>2, Zenon DEF N
      <4>6. IsCharacter(c) <=> n = N(i) /\ ~BadCharacter(C(i))
        BY <4>3, <4>4, <4>5, Zenon
      <4>. QED BY <4>6 DEF c
    <3>5. U[i] <=> N(i) # 0 /\ i + N(i) - 1 <= len /\ ~BadCharacter(C(i)) /\ U[i + N(i)]
      <4>1. U[i] = \E n \in 1 .. 4 : /\ i + n - 1 <= len
                                     /\ IsCharacter(SubSeq(text, i, i + n - 1))
                                     /\ U[i + n]
        BY <1>4, <1>5, <2>3, Zenon
      <4>2. N(i) # 0 <=> N(i) \in 1 .. 4
        BY <3>1
      <4>. QED BY <3>4, <4>1, <4>2, Zenon
    <3>6. ok[i] <=> N(i) # 0 /\ i + N(i) - 1 <= len /\ ~BadCharacter(C(i)) /\ ok[i + N(i)]
      BY <1>4, <1>5, <2>3, <3>2, Zenon
    <3>7. N(i) # 0 /\ i + N(i) - 1 <= len => (ok[i + N(i)] <=> U[i + N(i)])
      <4>1. SUFFICES ASSUME N(i) # 0, i + N(i) - 1 <= len
                     PROVE  ok[i + N(i)] <=> U[i + N(i)]
        OBVIOUS
      <4>2. i + N(i) \in (i + 1) .. (len + 1)
        BY <1>1, <3>0, <3>1, <4>1
      <4>. QED BY <1>6, <4>2
    <3>8. ok[i] <=> U[i]
      BY <3>5, <3>6, <3>7, Zenon
    <3>. QED BY <3>8
  <2>. QED BY <2>1, <2>2, <2>3
<1>7. \A i \in 1 .. (len + 1) : i \in S
  <2>1. 1 \in Nat /\ len + 1 \in Nat
    BY <1>1
  <2>. HIDE DEF S
  <2>. QED BY <1>6, <2>1, DownFrom
<1>8. 1 \in 1 .. (len + 1)
  BY <1>1
<1>. QED BY <1>2, <1>3, <1>7, <1>8

-----------------------------------------------------------------------------
(*****************************************************************************)
(* Percent-decoding gives what its reference does                            *)
(*****************************************************************************)

\* A null byte of two texts is one of either.
LEMMA NullAdds ==
  ASSUME NEW s \in Seq(Int), NEW t \in Seq(Int)
  PROVE  HasNull(s \o t) <=> HasNull(s) \/ HasNull(t)
<1>. DEFINE m == Len(s)
            n == Len(t)
            st == s \o t
<1>1. m \in Nat /\ n \in Nat /\ DOMAIN s = 1 .. m /\ DOMAIN t = 1 .. n
  BY LenProperties
<1>2. /\ st \in Seq(Int) /\ Len(st) = m + n
      /\ \A i \in 1 .. m + n : st[i] = IF i <= m THEN s[i] ELSE t[i - m]
  BY ConcatProperties
<1>3. DOMAIN st = 1 .. m + n
  BY <1>2, LenProperties
<1>. HIDE DEF m, n, st
<1>4. ASSUME HasNull(st)
      PROVE  HasNull(s) \/ HasNull(t)
  <2>1. PICK i \in 1 .. m + n : st[i] = 0
    BY <1>3, <1>4 DEF HasNull
  <2>2. CASE i <= m
    <3>1. i \in 1 .. m /\ s[i] = 0
      BY <1>1, <1>2, <2>1, <2>2
    <3>. QED BY <1>1, <3>1 DEF HasNull
  <2>3. CASE ~(i <= m)
    <3>1. i - m \in 1 .. n /\ t[i - m] = 0
      BY <1>1, <1>2, <2>1, <2>3
    <3>. QED BY <1>1, <3>1 DEF HasNull
  <2>. QED BY <2>2, <2>3
<1>5. ASSUME HasNull(s)
      PROVE  HasNull(st)
  <2>1. PICK i \in 1 .. m : s[i] = 0
    BY <1>1, <1>5 DEF HasNull
  <2>2. i \in 1 .. m + n /\ st[i] = 0
    BY <1>1, <1>2, <2>1
  <2>. QED BY <1>3, <2>2 DEF HasNull
<1>6. ASSUME HasNull(t)
      PROVE  HasNull(st)
  <2>1. PICK i \in 1 .. n : t[i] = 0
    BY <1>1, <1>6 DEF HasNull
  <2>2. /\ i + m \in 1 .. m + n /\ ~(i + m <= m) /\ (i + m) - m = i
    BY <1>1, <2>1
  <2>3. st[i + m] = 0
    BY <1>2, <2>1, <2>2
  <2>. QED BY <1>3, <2>2, <2>3 DEF HasNull
<1>7. HasNull(st) <=> HasNull(s) \/ HasNull(t)
  BY <1>4, <1>5, <1>6
<1>. QED BY <1>7 DEF st

\* Has the state met a bad escape or a null byte?
Met(st) == st.bad > 0 \/ HasNull(st.out)

\* The count of naxsi_unescape is not 0 when the last state has.
LEMMA CountIs ==
  ASSUME NEW st \in States
  PROVE  st.bad + Cardinality(Nulls(st.out)) > 0 <=> Met(st)
<1>1. st.bad \in Nat /\ st.out \in Seq(Int)
  BY DEF States
<1>2. DOMAIN st.out = 1 .. Len(st.out) /\ Len(st.out) \in Nat
  BY <1>1, LenProperties
<1>3. IsFiniteSet(1 .. Len(st.out))
  BY <1>2, FS_Interval
<1>4. Nulls(st.out) \subseteq 1 .. Len(st.out)
  BY <1>2 DEF Nulls
<1>5. IsFiniteSet(Nulls(st.out))
  BY <1>3, <1>4, FS_Subset
<1>6. Cardinality(Nulls(st.out)) \in Nat
      /\ (Cardinality(Nulls(st.out)) = 0 <=> Nulls(st.out) = {})
  BY <1>5, FS_CardinalityType, FS_EmptySet
<1>7. HasNull(st.out) <=> Nulls(st.out) # {}
  BY Zenon DEF HasNull, Nulls
<1>. QED BY <1>1, <1>6, <1>7 DEF Met

\* Concatenation is associative.
LEMMA SeqAssoc ==
  ASSUME NEW S, NEW s \in Seq(S), NEW t \in Seq(S), NEW x \in Seq(S)
  PROVE  (s \o t) \o x = s \o (t \o x)
BY ConcatAssociative

\* The same, for numbers.
LEMMA IntAssoc ==
  ASSUME NEW s \in Seq(Int), NEW t \in Seq(Int), NEW x \in Seq(Int)
  PROVE  (s \o t) \o x = s \o (t \o x)
BY SeqAssoc, SMTT(20)

\* A piece w is added to the state k, which has kept what state a has; d and u
\* are what is added until the last state.
Adding(a, k, w, bad, last, d, u) ==
  /\ a \in States /\ k \in States /\ k.out = a.out /\ k.bad = a.bad
  /\ w \in Seq(Int) /\ bad \in {0, 1}
  /\ last \in States /\ d \in Seq(Int) /\ u \in BOOLEAN
  /\ last.out = Emit(k, w, bad).out \o d
  /\ Met(last) <=> Met(Emit(k, w, bad)) \/ u

\* A piece that is added to the state is added to what is met.
LEMMA PieceAdds ==
  ASSUME NEW a, NEW k, NEW w, NEW bad, NEW last, NEW d, NEW u,
         Adding(a, k, w, bad, last, d, u)
  PROVE  /\ last.out = a.out \o (w \o d)
         /\ Met(last) <=> Met(a) \/ bad = 1 \/ HasNull(w) \/ u
<1>0. /\ a \in States /\ k \in States /\ k.out = a.out /\ k.bad = a.bad
      /\ w \in Seq(Int) /\ bad \in {0, 1}
      /\ last \in States /\ d \in Seq(Int) /\ u \in BOOLEAN
      /\ last.out = Emit(k, w, bad).out \o d
      /\ Met(last) <=> Met(Emit(k, w, bad)) \/ u
  BY Zenon DEF Adding
<1>1. Emit(k, w, bad).out = a.out \o w /\ Emit(k, w, bad).bad = a.bad + bad
  <2>1. bad \in Nat
    BY <1>0
  <2>2. Emit(k, w, bad).out = k.out \o w /\ Emit(k, w, bad).bad = k.bad + bad
    BY <1>0, <2>1, EmitIs
  <2>. QED BY <1>0, <2>2, Zenon
<1>2. a.out \in Seq(Int) /\ a.bad \in Nat
  BY <1>0 DEF States
<1>3. (a.out \o w) \o d = a.out \o (w \o d)
  BY <1>0, <1>2, IntAssoc
<1>4. HasNull(a.out \o w) <=> HasNull(a.out) \/ HasNull(w)
  BY <1>0, <1>2, NullAdds
<1>5. a.bad + bad > 0 <=> a.bad > 0 \/ bad = 1
  BY <1>0, <1>2
<1>6. Met(Emit(k, w, bad)) <=> Met(a) \/ bad = 1 \/ HasNull(w)
  BY <1>1, <1>4, <1>5, Zenon DEF Met
<1>. QED BY <1>0, <1>1, <1>3, <1>6, Zenon

\* Bytes are numbers.
LEMMA BytesAreInts ==
  ASSUME NEW s \in Seq(Byte)
  PROVE  s \in Seq(Int)
<1>1. Byte \subseteq Int
  BY DEF Byte
<1>2. Len(s) \in Nat /\ s \in [1 .. Len(s) -> Byte]
  BY LenProperties
<1>. HIDE DEF Byte
<1>3. s \in [1 .. Len(s) -> Int]
  BY <1>1, <1>2
<1>. QED BY <1>2, <1>3, SeqDef

\* A byte is a number.
LEMMA ByteIsInt ==
  /\ Percent \in Int
  /\ \A b \in Byte : b \in Int
BY DEF Byte, Percent

\* The empty sequence adds nothing.
LEMMA EmptyAdds ==
  ASSUME NEW s \in Seq(Int)
  PROVE  s \o << >> = s /\ << >> \o s = s
BY ConcatEmptySeq

\* What is left of the text at place i is decoded behind what the loop has so far.
Rest(after, D, U, n, i) ==
  /\ after[n].out = after[i - 1].out \o D[i]
  /\ Met(after[n]) <=> Met(after[i - 1]) \/ U[i]

\* A piece of m + 1 bytes, of which the last adds it to the state.
LEMMA PieceRest ==
  ASSUME NEW text \in Seq(Byte), NEW after, NEW D, NEW U,
         Unescaping(text, after), DecodedFrom(text, D), UncommonFrom(text, U),
         NEW i \in 1 .. Len(text), NEW m \in 0 .. 2, i + m <= Len(text),
         NEW bad \in {0, 1},
         after[i + m - 1].out = after[i - 1].out,
         after[i + m - 1].bad = after[i - 1].bad,
         after[i + m] = Emit(after[i + m - 1], Piece(text, i).out, bad),
         Piece(text, i).len = m + 1, Piece(text, i).bad <=> bad = 1,
         Rest(after, D, U, Len(text), i + m + 1)
  PROVE  Rest(after, D, U, Len(text), i)
<1>. DEFINE n == Len(text)
            a == after[i - 1]
            k == after[i + m - 1]
            last == after[n]
            w == Piece(text, i).out
            d == D[i + m + 1]
            u == U[i + m + 1]
<1>1. /\ n \in Nat /\ i - 1 \in 0 .. n /\ i + m - 1 \in 0 .. n /\ n \in 0 .. n
      /\ (i + m + 1) - 1 = i + m /\ i + (m + 1) = i + m + 1
      /\ i \in 1 .. n + 2 /\ i + m + 1 \in 1 .. n + 2 /\ ~(i > n) /\ i <= n
  OBVIOUS
<1>2. a \in States /\ k \in States /\ last \in States
  BY <1>1 DEF Unescaping
<1>3. w \in Seq(Int) /\ d \in Seq(Int)
  <2>1. w \in Seq(Byte)
    BY PieceKnown
  <2>2. d \in Seq(Byte)
    BY <1>1 DEF DecodedFrom
  <2>. QED BY <2>1, <2>2, BytesAreInts
<1>4. D[i] = w \o d
  BY <1>1, Zenon DEF DecodedFrom
<1>5. U[i] <=> bad = 1 \/ HasNull(w) \/ u
  <2>1. U[i] <=> i <= n /\ (Piece(text, i).bad \/ HasNull(w) \/ U[i + Piece(text, i).len])
    BY <1>1, Zenon DEF UncommonFrom
  <2>2. U[i + Piece(text, i).len] <=> u
    BY <1>1, Zenon
  <2>. QED BY <1>1, <2>1, <2>2, Zenon
<1>6. /\ last.out = Emit(k, w, bad).out \o d
      /\ Met(last) <=> Met(Emit(k, w, bad)) \/ u
  BY <1>1, Zenon DEF Rest
<1>9. u \in BOOLEAN
  BY <1>1, SMTT(20) DEF UncommonFrom
<1>. HIDE DEF a, k, last, w, d, u
<1>7. k.out = a.out /\ k.bad = a.bad
  BY DEF k, a
<1>8. /\ last.out = a.out \o (w \o d)
      /\ Met(last) <=> Met(a) \/ bad = 1 \/ HasNull(w) \/ u
  <2>1. bad \in {0, 1}
    OBVIOUS
  <2>2. Adding(a, k, w, bad, last, d, u)
    BY <1>2, <1>3, <1>6, <1>7, <1>9, <2>1, Zenon DEF Adding
  <2>. QED BY <2>2, PieceAdds, Zenon
<1>. QED BY <1>4, <1>5, <1>8, Zenon DEF Rest, a, last, n

\* A piece that the end of the text cuts.
LEMMA CutRest ==
  ASSUME NEW text \in Seq(Byte), NEW after, NEW D, NEW U,
         Unescaping(text, after), DecodedFrom(text, D), UncommonFrom(text, U),
         NEW i \in 1 .. Len(text), i + 2 > Len(text),
         after[Len(text)].out = after[i - 1].out,
         after[Len(text)].bad = after[i - 1].bad,
         Piece(text, i) = [len |-> 2, out |-> << >>, bad |-> FALSE]
  PROVE  Rest(after, D, U, Len(text), i)
<1>. DEFINE n == Len(text)
<1>1. /\ n \in Nat /\ i - 1 \in 0 .. n /\ i \in 1 .. n + 2 /\ i + 2 \in 1 .. n + 2
      /\ ~(i > n) /\ i <= n /\ ~(i + 2 <= n)
  OBVIOUS
<1>2. Piece(text, i).len = 2 /\ Piece(text, i).out = << >> /\ ~Piece(text, i).bad
  OBVIOUS
<1>3. D[i + 2] = << >> /\ ~U[i + 2]
  BY <1>1 DEF DecodedFrom, UncommonFrom
<1>4. D[i] = << >> \o << >>
  BY <1>1, <1>2, <1>3, Zenon DEF DecodedFrom
<1>5. D[i] = << >>
  BY <1>4
<1>6. ~HasNull(<< >>)
  BY DEF HasNull
<1>7. ~U[i]
  <2>1. U[i] <=> i <= n /\ (Piece(text, i).bad \/ HasNull(Piece(text, i).out)
                           \/ U[i + Piece(text, i).len])
    BY <1>1, Zenon DEF UncommonFrom
  <2>2. ~HasNull(Piece(text, i).out) /\ ~U[i + Piece(text, i).len]
    BY <1>2, <1>3, <1>6, Zenon
  <2>. QED BY <1>2, <2>1, <2>2, Zenon
<1>8. after[i - 1] \in States
  BY <1>1 DEF Unescaping
<1>9. after[i - 1].out \in Seq(Int)
  BY <1>8 DEF States
<1>10. after[i - 1].out \o << >> = after[i - 1].out
  BY <1>9, EmptyAdds, Zenon
<1>. QED BY <1>5, <1>7, <1>10, Zenon DEF Rest, Met

\* What the loop does at a percent sign: a digit, or none, or the end.
LEMMA PercentRest ==
  ASSUME NEW text \in Seq(Byte), NEW after, NEW D, NEW U,
         Unescaping(text, after), DecodedFrom(text, D), UncommonFrom(text, U),
         NEW i \in 1 .. Len(text), text[i] = Percent, after[i - 1].state = "usual",
         \A j \in (i + 1) .. (Len(text) + 1) :
           after[j - 1].state = "usual" => Rest(after, D, U, Len(text), j)
  PROVE  Rest(after, D, U, Len(text), i)
<1>. DEFINE n == Len(text)
            a == after[i - 1]
            b == after[i]
<1>1. /\ n \in Nat /\ i - 1 \in 0 .. n /\ i \in 0 .. n /\ i \in 1 .. n
      /\ \A j \in 1 .. n : text[j] \in Byte
  OBVIOUS
<1>2. a \in States /\ b \in States
  BY <1>1 DEF Unescaping
<1>3. b = unescape_byte(a, text[i])
  BY <1>1 DEF Unescaping
<1>4. b.state = "quoted" /\ b.out = a.out /\ b.bad = a.bad
  <2>. HIDE DEF a, b
  <2>1. a.state = "usual" /\ text[i] \in Byte
    BY <1>1 DEF a
  <2>. QED BY <1>2, <1>3, <2>1, ByteIs
<1>5. CASE i = n
  <2>1. ~(i + 1 <= n)
    BY <1>1, <1>5
  <2>2. Piece(text, i) = [len |-> 2, out |-> << >>, bad |-> FALSE]
    <3>1. ~Hex(text, i + 1)
      BY <2>1 DEF Hex
    <3>. QED BY <2>1, <3>1, PieceIs
  <2>3. i + 2 > n
    BY <1>1, <1>5
  <2>. QED BY <1>4, <1>5, <2>2, <2>3, CutRest
<1>6. ASSUME i + 1 <= n
      PROVE  Rest(after, D, U, n, i)
  <2>. DEFINE c == after[i + 1]
  <2>1. /\ i + 1 \in 1 .. n /\ (i + 1) - 1 = i /\ i + 1 \in 0 .. n /\ i + 1 - 1 = i
        /\ i + 2 \in (i + 1) .. (n + 1) /\ (i + 2) - 1 = i + 1 /\ i + 1 + 1 = i + 2
    BY <1>1, <1>6
  <2>2. c \in States /\ text[i + 1] \in Byte
    BY <1>1, <2>1 DEF Unescaping
  <2>3. c = unescape_byte(b, text[i + 1])
    BY <2>1, Zenon DEF Unescaping
  <2>4. CASE text[i + 1] \notin HexDigit
    <3>1. ~Hex(text, i + 1)
      BY <2>4 DEF Hex
    <3>2. Piece(text, i) = [len |-> 2, out |-> <<text[i], text[i + 1]>>, bad |-> TRUE]
      BY <1>6, <3>1, PieceIs
    <3>3. Piece(text, i).len = 2 /\ Piece(text, i).bad
          /\ Piece(text, i).out = <<Percent, text[i + 1]>>
      BY <3>2
    <3>4. c = Emit(b, <<Percent, text[i + 1]>>, 1)
      <4>. HIDE DEF b, c
      <4>. QED BY <1>2, <1>4, <2>2, <2>3, <2>4, ByteIs
    <3>5. c.state = "usual"
      <4>1. <<Percent, text[i + 1]>> \in Seq(Int)
        <5>1. text[i + 1] \in Int /\ Percent \in Int
          BY <2>2, ByteIsInt, Zenon
        <5>. QED BY <5>1
      <4>. HIDE DEF b, c
      <4>. QED BY <1>2, <3>4, <4>1, EmitIs
    <3>6. Rest(after, D, U, n, i + 2)
      BY <2>1, <3>5, Zenon
    <3>. DEFINE m == 1
                bad == 1
    <3>7. /\ m \in 0 .. 2 /\ i + m <= n /\ bad \in {0, 1}
          /\ i + m - 1 = i /\ i + m = i + 1 /\ m + 1 = 2 /\ i + m + 1 = i + 2
      BY <1>6
    <3>. HIDE DEF m
    <3>8. /\ after[i + m - 1].out = a.out /\ after[i + m - 1].bad = a.bad
          /\ after[i + m] = Emit(after[i + m - 1], Piece(text, i).out, 1)
          /\ Piece(text, i).len = m + 1 /\ Rest(after, D, U, n, i + m + 1)
      BY <1>4, <3>3, <3>4, <3>6, <3>7, Zenon
    <3>. QED BY <3>3, <3>7, <3>8, PieceRest
  <2>5. ASSUME text[i + 1] \in HexDigit
        PROVE  Rest(after, D, U, n, i)
    <3>1. /\ c.state = "quoted_second" /\ c.first = text[i + 1]
          /\ c.out = a.out /\ c.bad = a.bad
      <4>. HIDE DEF a, b, c
      <4>. QED BY <1>2, <1>4, <2>2, <2>3, <2>5, ByteIs
    <3>2. Hex(text, i + 1)
      BY <1>6, <2>5 DEF Hex
    <3>3. CASE i + 1 = n
      <4>1. ~(i + 2 <= n) /\ i + 2 > n
        BY <1>1, <3>3
      <4>2. Piece(text, i) = [len |-> 2, out |-> << >>, bad |-> FALSE]
        BY <3>2, <4>1, PieceIs
      <4>. QED BY <3>1, <3>3, <4>1, <4>2, CutRest
    <3>4. ASSUME i + 2 <= n
          PROVE  Rest(after, D, U, n, i)
      <4>. DEFINE e == after[i + 2]
                  second == text[i + 2]
      <4>1. /\ i + 2 \in 1 .. n /\ i + 2 - 1 = i + 1 /\ i + 2 \in 0 .. n
            /\ i + 3 \in (i + 1) .. (n + 1) /\ (i + 3) - 1 = i + 2
        BY <1>1, <3>4
      <4>2. e \in States /\ second \in Byte
        BY <1>1, <4>1 DEF Unescaping
      <4>3. e = unescape_byte(c, second)
        <5>1. after[i + 2] = unescape_byte(after[i + 2 - 1], text[i + 2])
          <6>1. \A j \in 1 .. n : after[j] = unescape_byte(after[j - 1], text[j])
            BY Zenon DEF Unescaping
          <6>. HIDE DEF n
          <6>. QED BY <4>1, <6>1
        <5>. QED BY <4>1, <5>1, Zenon
      <4>0. text[i + 1] \in Int /\ second \in Int /\ Percent \in Int
        BY <2>2, <4>2, ByteIsInt, Zenon
      <4>4. ASSUME NEW bad \in {0, 1}, NEW w \in Seq(Int),
                   Piece(text, i).len = 3, Piece(text, i).bad <=> bad = 1,
                   Piece(text, i).out = w, e = Emit(c, w, bad)
            PROVE  Rest(after, D, U, n, i)
        <5>1. e.state = "usual"
          <6>. HIDE DEF c, e
          <6>1. bad \in Nat
            OBVIOUS
          <6>. QED BY <2>2, <4>4, <6>1, EmitIs
        <5>2. Rest(after, D, U, n, i + 3)
          BY <4>1, <5>1, Zenon
        <5>. DEFINE m == 2
        <5>3. /\ m \in 0 .. 2 /\ i + m <= n
              /\ i + m - 1 = i + 1 /\ i + m = i + 2 /\ m + 1 = 3 /\ i + m + 1 = i + 3
          BY <3>4
        <5>. HIDE DEF m
        <5>4. /\ after[i + m - 1].out = a.out /\ after[i + m - 1].bad = a.bad
              /\ after[i + m] = Emit(after[i + m - 1], Piece(text, i).out, bad)
              /\ Piece(text, i).len = m + 1 /\ Rest(after, D, U, n, i + m + 1)
          BY <3>1, <4>4, <5>2, <5>3, Zenon
        <5>. QED BY <4>4, <5>3, <5>4, PieceRest
      <4>5. CASE second \in HexDigit
        <5>1. Hex(text, i + 2)
          BY <3>4, <4>5 DEF Hex
        <5>. DEFINE w == HexOf(text[i + 1], second)
        <5>2. Piece(text, i) = [len |-> 3, out |-> w, bad |-> FALSE]
          BY <3>2, <5>1, PieceIs, Zenon
        <5>3. w \in Seq(Int)
          BY <4>0, HexOfKnown, Zenon
        <5>4. e = Emit(c, w, 0)
          <6>. HIDE DEF c, e, second
          <6>1. e = Emit(c, HexOf(c.first, second), 0)
            BY <2>2, <3>1, <4>2, <4>3, <4>5, ByteIs
          <6>. QED BY <3>1, <6>1, Zenon
        <5>. HIDE DEF w, e, c
        <5>5. Piece(text, i).len = 3 /\ ~Piece(text, i).bad /\ Piece(text, i).out = w
          BY <5>2
        <5>6. 0 \in {0, 1} /\ (Piece(text, i).bad <=> 0 = 1)
          BY <5>5
        <5>. QED BY <4>4, <5>3, <5>4, <5>5, <5>6, Zenon
      <4>6. CASE second \notin HexDigit
        <5>1. ~Hex(text, i + 2)
          BY <4>6 DEF Hex
        <5>. DEFINE w == <<Percent, text[i + 1], second>>
        <5>2. Piece(text, i) = [len |-> 3, bad |-> TRUE, out |-> w]
          BY <3>2, <3>4, <5>1, PieceIs, Zenon
        <5>3. w \in Seq(Int)
          <6>. HIDE DEF second
          <6>. QED BY <4>0
        <5>4. e = Emit(c, w, 1)
          <6>. HIDE DEF c, e, second
          <6>1. e = Emit(c, <<Percent, c.first, second>>, 1)
            BY <2>2, <3>1, <4>2, <4>3, <4>6, ByteIs
          <6>. QED BY <3>1, <6>1, Zenon
        <5>. HIDE DEF w, e, c
        <5>5. Piece(text, i).len = 3 /\ Piece(text, i).bad /\ Piece(text, i).out = w
          BY <5>2
        <5>6. 1 \in {0, 1} /\ (Piece(text, i).bad <=> 1 = 1)
          BY <5>5
        <5>. QED BY <4>4, <5>3, <5>4, <5>5, <5>6, Zenon
      <4>. QED BY <4>5, <4>6
    <3>. QED BY <1>1, <1>6, <3>3, <3>4
  <2>. QED BY <2>4, <2>5
<1>. QED BY <1>1, <1>5, <1>6

\* What percent-decoding gives is a text.
LEMMA DecodedKnown ==
  ASSUME NEW text \in Seq(Byte)
  PROVE  Decoded(text) \in Seq(Byte)
<1>1. PICK D : DecodedFrom(text, D) /\ Decoded(text) = escape_nullbytes(D[1])
  BY DecodedIs
<1>2. D[1] \in Seq(Byte)
  BY <1>1 DEF DecodedFrom
<1>. QED BY <1>1, <1>2, EscapedKnown

\* naxsi_unescape gives the text that percent-decoding does, and counts
\* something if and only if the text holds a bad escape or a null byte.
THEOREM Unescaped ==
  \A text \in Seq(Byte) : /\ naxsi_unescape(text).text = Decoded(text)
                          /\ naxsi_unescape(text).count > 0 <=> Uncommon(text)
<1>. SUFFICES ASSUME NEW text \in Seq(Byte)
              PROVE  /\ naxsi_unescape(text).text = Decoded(text)
                     /\ naxsi_unescape(text).count > 0 <=> Uncommon(text)
  OBVIOUS
<1>. DEFINE n == Len(text)
<1>1. n \in Nat /\ \A i \in 1 .. n : text[i] \in Byte
  OBVIOUS
<1>2. PICK after :
        /\ Unescaping(text, after)
        /\ naxsi_unescape(text)
             = [text  |-> escape_nullbytes(after[n].out),
                count |-> after[n].bad + Cardinality(Nulls(after[n].out))]
  BY UnescapeIs
<1>3. PICK D : DecodedFrom(text, D) /\ Decoded(text) = escape_nullbytes(D[1])
  BY DecodedIs
<1>4. PICK U : UncommonFrom(text, U) /\ Uncommon(text) = U[1]
  BY UncommonIs
<1>5. \A i \in 0 .. n : after[i] \in States
  BY <1>2 DEF Unescaping
<1>. DEFINE S == {i \in 1 .. n + 1 : after[i - 1].state = "usual" => Rest(after, D, U, n, i)}
<1>6. ASSUME NEW i \in 1 .. n + 1, \A j \in (i + 1) .. n + 1 : j \in S
      PROVE  i \in S
  <2>1. SUFFICES ASSUME after[i - 1].state = "usual" PROVE Rest(after, D, U, n, i)
    OBVIOUS
  <2>. DEFINE a == after[i - 1]
  <2>2. a \in States
    BY <1>1, <1>5
  <2>3. \A j \in (i + 1) .. n + 1 : after[j - 1].state = "usual" => Rest(after, D, U, n, j)
    BY <1>6
  <2>4. CASE i = n + 1
    <3>1. i - 1 = n /\ i > n /\ i \in 1 .. n + 2
      BY <1>1, <2>4
    <3>2. D[i] = << >> /\ ~U[i]
      <4>1. ~(i <= n)
        BY <1>1, <3>1
      <4>2. D[i] = << >>
        BY <1>3, <3>1, Zenon DEF DecodedFrom
      <4>3. ~U[i]
        BY <1>4, <3>1, <4>1, Zenon DEF UncommonFrom
      <4>. QED BY <4>2, <4>3
    <3>3. a.out \in Seq(Int)
      BY <2>2 DEF States
    <3>4. a.out \o << >> = a.out
      BY <3>3, EmptyAdds, Zenon
    <3>. QED BY <3>1, <3>2, <3>4, Zenon DEF Rest
  <2>5. ASSUME i # n + 1
        PROVE  Rest(after, D, U, n, i)
    <3>1. /\ i \in 1 .. n /\ i + 0 <= n /\ i + 0 - 1 = i - 1 /\ i + 0 = i
          /\ i + 0 + 1 = i + 1 /\ i + 1 \in (i + 1) .. n + 1 /\ (i + 1) - 1 = i
          /\ 0 + 1 = 1 /\ i \in 0 .. n
      BY <1>1, <2>5
    <3>2. CASE text[i] = Percent
      BY <1>2, <1>3, <1>4, <2>1, <2>3, <3>1, <3>2, PercentRest
    <3>3. CASE text[i] # Percent
      <4>1. Piece(text, i) = [len |-> 1, out |-> <<text[i]>>, bad |-> FALSE]
        BY <3>1, <3>3, PieceIs
      <4>2. Piece(text, i).len = 1 /\ Piece(text, i).out = <<text[i]>> /\ ~Piece(text, i).bad
        BY <4>1
      <4>3. text[i] \in Byte
        BY <1>1, <3>1
      <4>4. after[i] = unescape_byte(a, text[i])
        BY <1>2, <3>1 DEF Unescaping
      <4>5. after[i] = Emit(a, <<text[i]>>, 0)
        <5>. HIDE DEF a
        <5>1. a.state = "usual"
          BY <2>1 DEF a
        <5>. QED BY <2>2, <3>3, <4>3, <4>4, <5>1, ByteIs
      <4>6. <<text[i]>> \in Seq(Int) /\ 0 \in Nat
        <5>1. text[i] \in Int
          BY <4>3, ByteIsInt, Zenon
        <5>. QED BY <5>1
      <4>7. after[i].state = "usual"
        <5>. DEFINE bytes == <<text[i]>>
        <5>1. a \in States /\ bytes \in Seq(Int) /\ 0 \in Nat /\ after[i] = Emit(a, bytes, 0)
          BY <2>2, <4>5, <4>6
        <5>. HIDE DEF a, bytes
        <5>2. Emit(a, bytes, 0).state = "usual"
          BY <5>1, EmitIs, Zenon
        <5>. QED BY <5>1, <5>2, Zenon
      <4>8. Rest(after, D, U, n, i + 1)
        BY <2>3, <3>1, <4>7, Zenon
      <4>. DEFINE m == 0
                  bad == 0
      <4>9. m \in 0 .. 2 /\ i + m <= n /\ bad \in {0, 1}
        BY <3>1
      <4>10. /\ after[i + m - 1].out = a.out /\ after[i + m - 1].bad = a.bad
             /\ after[i + m] = Emit(after[i + m - 1], Piece(text, i).out, 0)
             /\ Piece(text, i).len = m + 1 /\ Rest(after, D, U, n, i + m + 1)
        BY <3>1, <4>2, <4>5, <4>8, Zenon
      <4>11. Piece(text, i).bad <=> bad = 1
        BY <4>2
      <4>. HIDE DEF m
      <4>. QED BY <1>2, <1>3, <1>4, <3>1, <4>9, <4>10, <4>11, PieceRest
    <3>. QED BY <3>2, <3>3
  <2>. QED BY <2>4, <2>5
<1>7. 1 \in S
  <2>1. \A i \in 1 .. n + 1 : i \in S
    <3>. HIDE DEF S
    <3>1. n + 1 \in Nat /\ 1 \in Nat
      BY <1>1
    <3>. QED BY <1>6, <3>1, DownFrom
  <2>2. 1 \in 1 .. n + 1
    BY <1>1
  <2>. HIDE DEF S
  <2>. QED BY <2>1, <2>2
<1>8. after[0] = Fresh
  BY <1>2 DEF Unescaping
<1>9. Rest(after, D, U, n, 1) /\ 1 - 1 = 0
  BY <1>7, <1>8 DEF Fresh
<1>10. after[0].out = << >> /\ ~Met(after[0])
  <2>1. Fresh.out = << >> /\ ~(Fresh.bad > 0)
    BY DEF Fresh
  <2>2. ~HasNull(<< >>)
    BY DEF HasNull
  <2>. QED BY <1>8, <2>1, <2>2, Zenon DEF Met
<1>11. D[1] \in Seq(Int)
  <2>1. D[1] \in Seq(Byte)
    BY <1>1, <1>3 DEF DecodedFrom
  <2>. QED BY <2>1, BytesAreInts
<1>12. after[n].out = D[1] /\ (Met(after[n]) <=> U[1])
  <2>1. << >> \o D[1] = D[1]
    BY <1>11, EmptyAdds, Zenon
  <2>. QED BY <1>9, <1>10, <2>1, Zenon DEF Rest
<1>13. after[n].bad + Cardinality(Nulls(after[n].out)) > 0 <=> Met(after[n])
  <2>1. after[n] \in States
    BY <1>1, <1>5
  <2>. QED BY <2>1, CountIs
<1>14. /\ naxsi_unescape(text).text = escape_nullbytes(after[n].out)
       /\ naxsi_unescape(text).count = after[n].bad + Cardinality(Nulls(after[n].out))
  BY <1>2
<1>. QED BY <1>3, <1>4, <1>12, <1>13, <1>14, Zenon

-----------------------------------------------------------------------------
(*****************************************************************************)
(* The members of a sequence that are in a set                               *)
(*****************************************************************************)

(***************************************************************************)
(* What is in a set, of a sequence                                         *)
(***************************************************************************)
\* One, if the test holds.
One(test, a) == IF test THEN <<a>> ELSE << >>

\* kept is the recursion of Only.
OnlyFrom(s, T, A, kept) ==
  /\ kept \in [1 .. Len(s) + 1 -> Seq(A)]
  /\ \A k \in 1 .. Len(s) + 1 :
       kept[k] = IF k > Len(s) THEN << >> ELSE One(s[k] \in T, s[k]) \o kept[k + 1]

\* A sequence of one, or of none.
LEMMA OneKnown ==
  ASSUME NEW A, NEW a \in A, NEW test
  PROVE  One(test, a) \in Seq(A)
<1>1. << >> \in Seq(A) /\ <<a>> \in Seq(A)
  OBVIOUS
<1>. QED BY <1>1, Zenon DEF One

\* The recursion of Only has a solution.
LEMMA OnlyIs ==
  ASSUME NEW A, NEW s \in Seq(A), NEW T
  PROVE  \E kept : OnlyFrom(s, T, A, kept) /\ Only(s, T) = kept[1]
<1>. DEFINE n == Len(s)
            hi == n + 1
            C == Seq(A)
            E(k, f) == IF k > n THEN << >> ELSE One(s[k] \in T, s[k]) \o f[k + 1]
            I == 1 .. hi
            G == [x \in I \X [I -> C] |-> E(x[1], x[2])]
<1>1. n \in Nat /\ hi \in Nat /\ 1 \in Nat /\ 1 \in I /\ C # {} /\ << >> \in C
      /\ \A i \in 1 .. n : s[i] \in A
  <2>1. n \in Nat /\ \A i \in 1 .. n : s[i] \in A
    BY LenProperties, ElementOfSeq
  <2>2. << >> \in C
    BY EmptySeq
  <2>. HIDE DEF n, C
  <2>. QED BY <2>1, <2>2
<1>2. ASSUME NEW i \in I, ~(i > n)
      PROVE  /\ One(s[i] \in T, s[i]) \in C
             /\ i + 1 \in (i + 1) .. hi
  <2>. HIDE DEF n, C
  <2>1. i \in 1 .. n
    BY <1>1, <1>2
  <2>2. s[i] \in A
    BY <1>1, <2>1, Zenon
  <2>3. One(s[i] \in T, s[i]) \in C
    BY <2>2, OneKnown, Zenon DEF C
  <2>. QED BY <1>1, <2>1, <2>3
<1>. HIDE DEF n, hi
<1>3. ASSUME NEW i \in I, NEW f, \A j \in (i + 1) .. hi : f[j] \in C
      PROVE  E(i, f) \in C
  <2>. HIDE DEF I, C
  <2>1. CASE i > n
    BY <1>1, <2>1
  <2>2. CASE ~(i > n)
    <3>1. One(s[i] \in T, s[i]) \in C /\ f[i + 1] \in C
      BY <1>2, <1>3, <2>2
    <3>2. E(i, f) = One(s[i] \in T, s[i]) \o f[i + 1]
      BY <2>2, Zenon
    <3>. HIDE DEF E
    <3>. QED BY <3>1, <3>2, ConcatProperties DEF C
  <2>. QED BY <2>1, <2>2
<1>4. ASSUME NEW i \in I, NEW f, NEW g, \A j \in (i + 1) .. hi : f[j] = g[j]
      PROVE  E(i, f) = E(i, g)
  <2>. HIDE DEF I, C
  <2>1. ~(i > n) => f[i + 1] = g[i + 1]
    BY <1>2, <1>4, Zenon
  <2>. QED BY <2>1, Zenon
<1>5. \A i \in I : \A j \in (i + 1) .. hi : j \in I
  BY <1>1
<1>6. G \in [I \X [I -> C] -> C] /\ \A i \in I : \A f \in [I -> C] : G[<<i, f>>] = E(i, f)
  <2>1. \A i \in I : \A f \in [I -> C] : E(i, f) \in C
    <3>. HIDE DEF I, E, C
    <3>1. ASSUME NEW i \in I, NEW f \in [I -> C]
          PROVE  E(i, f) \in C
      <4>1. \A j \in (i + 1) .. hi : f[j] \in C
        BY <1>5
      <4>. QED BY <1>3, <4>1, Zenon
    <3>. QED BY <3>1
  <2>. HIDE DEF I, E, C
  <2>. QED BY <2>1
<1>. HIDE DEF E, G, C
<1>7. \A i \in I : \A f, g \in [I -> C] :
        (\A j \in (i + 1) .. hi : f[j] = g[j]) => G[<<i, f>>] = G[<<i, g>>]
  <2>. HIDE DEF I
  <2>1. ASSUME NEW i \in I, NEW f \in [I -> C], NEW g \in [I -> C],
               \A j \in (i + 1) .. hi : f[j] = g[j]
        PROVE  G[<<i, f>>] = G[<<i, g>>]
    <3>1. E(i, f) = E(i, g)
      BY <1>4, <2>1, Zenon
    <3>2. G[<<i, f>>] = E(i, f) /\ G[<<i, g>>] = E(i, g)
      BY <1>6, Zenon
    <3>. QED BY <3>1, <3>2, Zenon
  <2>. QED BY <2>1
<1>8. Backward(1, hi, C, G)
  BY <1>1, <1>6, <1>7, Zenon DEF Backward
<1>9. \E f \in [I -> C] : \A i \in I : f[i] = G[<<i, f>>]
  BY <1>8, BackwardExists
<1>10. PICK f \in [I -> C] : \A i \in I : f[i] = E(i, f)
  <2>. HIDE DEF I
  <2>. QED BY <1>6, <1>9, Zenon
<1>11. f = [i \in I |-> E(i, f)]
  <2>. HIDE DEF I
  <2>. QED BY <1>10
<1>12. \E g : g = [i \in I |-> E(i, g)]
  BY <1>11, Zenon
<1>13. PICK g : g = [i \in I |-> E(i, g)] /\ Only(s, T) = g[1]
  BY <1>12, Zenon DEF Only, One, E, I, hi, n
<1>14. \A i \in I : g[i] = E(i, g)
  <2>. HIDE DEF I
  <2>. QED BY <1>13
<1>15. \A i \in I : g[i] \in C
  <2>. DEFINE S == {i \in I : g[i] \in C}
  <2>1. ASSUME NEW i \in 1 .. hi, \A j \in (i + 1) .. hi : j \in S
        PROVE  i \in S
    <3>1. E(i, g) \in C
      <4>1. \A j \in (i + 1) .. hi : g[j] \in C
        BY <2>1
      <4>. QED BY <1>3, <4>1, Zenon
    <3>. QED BY <1>14, <3>1
  <2>2. \A i \in 1 .. hi : i \in S
    <3>. HIDE DEF S
    <3>. QED BY <1>1, <2>1, DownFrom
  <2>. QED BY <2>2
<1>16. g \in [I -> C]
  <2>. HIDE DEF I
  <2>. QED BY <1>13, <1>15
<1>17. OnlyFrom(s, T, A, g)
  BY <1>14, <1>16, Zenon DEF OnlyFrom, E, I, C, hi, n
<1>. QED BY <1>13, <1>17

\* Only keeps the type.
LEMMA OnlyKnown ==
  ASSUME NEW A, NEW s \in Seq(A), NEW T
  PROVE  Only(s, T) \in Seq(A)
<1>1. PICK kept : OnlyFrom(s, T, A, kept) /\ Only(s, T) = kept[1]
  BY OnlyIs
<1>2. Len(s) \in Nat
  BY LenProperties
<1>3. 1 \in 1 .. Len(s) + 1
  BY <1>2
<1>4. kept[1] \in Seq(A)
  BY <1>1, <1>3, Zenon DEF OnlyFrom
<1>. QED BY <1>1, <1>4, Zenon

\* Only, of nothing.
LEMMA OnlyEmpty ==
  ASSUME NEW T
  PROVE  Only(<< >>, T) = << >>
<1>1. << >> \in Seq({})
  BY EmptySeq
<1>2. PICK kept : OnlyFrom(<< >>, T, {}, kept) /\ Only(<< >>, T) = kept[1]
  BY <1>1, OnlyIs
<1>3. 1 \in 1 .. Len(<< >>) + 1 /\ 1 > Len(<< >>)
  OBVIOUS
<1>. QED BY <1>2, <1>3, Zenon DEF OnlyFrom

\* A sequence with one more in front.
Longer(t, A, a, s) == t \in Seq(A) /\ a \in A /\ s \in Seq(A) /\ t = <<a>> \o s

\* Its length and its members.
LEMMA LongerIs ==
  ASSUME NEW A, NEW t, NEW a, NEW s, Longer(t, A, a, s)
  PROVE  /\ Len(s) \in Nat /\ Len(t) = 1 + Len(s)
         /\ t[1] = a
         /\ \A k \in 1 .. Len(s) : t[k + 1] = s[k]
<1>1. a \in A /\ s \in Seq(A) /\ t = <<a>> \o s
  BY DEF Longer
<1>2. <<a>> \in Seq(A) /\ Len(<<a>>) = 1 /\ <<a>>[1] = a
  BY <1>1
<1>3. Len(s) \in Nat
  BY <1>1, LenProperties
<1>4. /\ Len(t) = 1 + Len(s)
      /\ \A i \in 1 .. 1 + Len(s) : t[i] = IF i <= 1 THEN <<a>>[i] ELSE s[i - 1]
  BY <1>1, <1>2, ConcatProperties
<1>5. t[1] = a
  <2>1. 1 \in 1 .. 1 + Len(s) /\ 1 <= 1
    BY <1>3
  <2>. QED BY <1>2, <1>4, <2>1, Zenon
<1>6. ASSUME NEW k \in 1 .. Len(s)
      PROVE  t[k + 1] = s[k]
  <2>1. k + 1 \in 1 .. 1 + Len(s) /\ ~(k + 1 <= 1) /\ (k + 1) - 1 = k
    BY <1>3
  <2>2. t[k + 1] = s[(k + 1) - 1]
    BY <1>4, <2>1, Zenon
  <2>. QED BY <2>1, <2>2, Zenon
<1>. QED BY <1>3, <1>4, <1>5, <1>6

\* How one is made.
LEMMA LongerMade ==
  ASSUME NEW A, NEW a \in A, NEW s \in Seq(A)
  PROVE  Longer(<<a>> \o s, A, a, s)
<1>1. <<a>> \in Seq(A)
  OBVIOUS
<1>2. <<a>> \o s \in Seq(A)
  BY <1>1, ConcatProperties
<1>. QED BY <1>2, Zenon DEF Longer

\* Only, of one more in front.
LEMMA OnlyLonger ==
  ASSUME NEW A, NEW t, NEW a, NEW s, Longer(t, A, a, s), NEW T
  PROVE  Only(t, T) = One(a \in T, a) \o Only(s, T)
<1>. DEFINE n == Len(s)
<1>1. /\ n \in Nat /\ Len(t) = 1 + n /\ t[1] = a
      /\ \A k \in 1 .. n : t[k + 1] = s[k]
  BY LongerIs
<1>2. s \in Seq(A) /\ t \in Seq(A)
  BY DEF Longer
<1>3. PICK K : OnlyFrom(t, T, A, K) /\ Only(t, T) = K[1]
  BY <1>2, OnlyIs
<1>4. PICK L : OnlyFrom(s, T, A, L) /\ Only(s, T) = L[1]
  BY <1>2, OnlyIs
<1>. DEFINE S == {i \in 1 .. n + 1 : K[i + 1] = L[i]}
<1>. HIDE DEF n
<1>5. ASSUME NEW i \in 1 .. n + 1, \A j \in (i + 1) .. n + 1 : j \in S
      PROVE  i \in S
  <2>1. i \in 1 .. Len(s) + 1 /\ i + 1 \in 1 .. Len(t) + 1
    BY <1>1 DEF n
  <2>2. CASE i > n
    <3>1. i + 1 > Len(t) /\ i > Len(s)
      BY <1>1, <2>2 DEF n
    <3>. QED BY <1>3, <1>4, <2>1, <3>1, Zenon DEF OnlyFrom
  <2>3. CASE ~(i > n)
    <3>1. i \in 1 .. n /\ i + 1 \in (i + 1) .. n + 1 /\ ~(i > Len(s)) /\ ~(i + 1 > Len(t))
      BY <1>1, <2>3 DEF n
    <3>2. K[i + 1] = One(t[i + 1] \in T, t[i + 1]) \o K[i + 1 + 1]
      BY <1>3, <2>1, <3>1, Zenon DEF OnlyFrom
    <3>3. L[i] = One(s[i] \in T, s[i]) \o L[i + 1]
      BY <1>4, <2>1, <3>1, Zenon DEF OnlyFrom
    <3>4. t[i + 1] = s[i]
      BY <1>1, <3>1, Zenon
    <3>5. K[i + 1 + 1] = L[i + 1]
      BY <1>5, <3>1, Zenon
    <3>6. K[i + 1] = L[i]
      BY <3>2, <3>3, <3>4, <3>5, Zenon
    <3>. QED BY <3>6
  <2>. QED BY <2>2, <2>3
<1>6. K[1 + 1] = L[1]
  <2>1. \A i \in 1 .. n + 1 : i \in S
    <3>. HIDE DEF S
    <3>1. n + 1 \in Nat /\ 1 \in Nat
      BY <1>1
    <3>. QED BY <1>5, <3>1, DownFrom
  <2>2. 1 \in 1 .. n + 1
    BY <1>1
  <2>3. 1 \in S
    <3>. HIDE DEF S
    <3>. QED BY <2>1, <2>2, Zenon
  <2>. QED BY <2>3, Zenon
<1>7. 1 \in 1 .. Len(t) + 1 /\ ~(1 > Len(t))
  BY <1>1 DEF n
<1>8. K[1] = One(t[1] \in T, t[1]) \o K[1 + 1]
  BY <1>3, <1>7, Zenon DEF OnlyFrom
<1>. QED BY <1>1, <1>3, <1>4, <1>6, <1>8, Zenon

-----------------------------------------------------------------------------
(*****************************************************************************)
(* What is read of the pieces of a query                                     *)
(*****************************************************************************)

\* The image of a sequence under a function.
Mapped(F, s) == [k \in DOMAIN s |-> F[s[k]]]

\* What the lemmas about it assume.
Mappable(F, A, B, s) == F \in [A -> B] /\ s \in Seq(A)

\* The image of a sequence is one, of the same length.
LEMMA MappedKnown ==
  ASSUME NEW A, NEW B, NEW F, NEW s, Mappable(F, A, B, s)
  PROVE  Mapped(F, s) \in Seq(B) /\ Len(Mapped(F, s)) = Len(s)
<1>0. F \in [A -> B] /\ s \in Seq(A)
  BY DEF Mappable
<1>1. Len(s) \in Nat /\ DOMAIN s = 1 .. Len(s) /\ \A k \in 1 .. Len(s) : s[k] \in A
  BY <1>0, LenProperties, ElementOfSeq
<1>2. Mapped(F, s) = [k \in 1 .. Len(s) |-> F[s[k]]]
  BY <1>1, Zenon DEF Mapped
<1>3. Mapped(F, s) \in [1 .. Len(s) -> B]
  <2>1. \A k \in 1 .. Len(s) : F[s[k]] \in B
    BY <1>0, <1>1
  <2>. QED BY <1>2, <2>1, Zenon
<1>4. Mapped(F, s) \in Seq(B)
  BY <1>1, <1>3, SeqDef
<1>. QED BY <1>1, <1>3, <1>4, LenProperties

\* Its type alone.
LEMMA MappedIn ==
  ASSUME NEW A, NEW B, NEW F, NEW s, Mappable(F, A, B, s)
  PROVE  Mapped(F, s) \in Seq(B)
BY MappedKnown

\* Its length alone.
LEMMA MappedLen ==
  ASSUME NEW A, NEW B, NEW F, NEW s, Mappable(F, A, B, s)
  PROVE  Len(Mapped(F, s)) = Len(s)
BY MappedKnown

\* Its members.
LEMMA MappedAt ==
  ASSUME NEW F, NEW A, NEW s \in Seq(A)
  PROVE  \A k \in 1 .. Len(s) : Mapped(F, s)[k] = F[s[k]]
<1>1. DOMAIN s = 1 .. Len(s)
  BY LenProperties
<1>. QED BY <1>1, Zenon DEF Mapped

\* The image of nothing.
LEMMA MappedEmpty ==
  ASSUME NEW A, NEW B, NEW F \in [A -> B]
  PROVE  Mapped(F, << >>) = << >>
<1>1. << >> \in Seq(A) /\ Len(<< >>) = 0
  BY EmptySeq
<1>2. Mapped(F, << >>) \in Seq(B) /\ Len(Mapped(F, << >>)) = 0
  <2>1. Mappable(F, A, B, << >>)
    BY <1>1 DEF Mappable
  <2>. QED BY <2>1, MappedIn, MappedLen
<1>. QED BY <1>2, EmptySeq

\* The image of one more in front.
LEMMA MappedLonger ==
  ASSUME NEW A, NEW B, NEW F \in [A -> B], NEW t, NEW a, NEW s, Longer(t, A, a, s)
  PROVE  Longer(Mapped(F, t), B, F[a], Mapped(F, s))
<1>. DEFINE x == Mapped(F, t)
            m == Mapped(F, s)
            y == <<F[a]>> \o m
<1>1. t \in Seq(A) /\ a \in A /\ s \in Seq(A)
  BY DEF Longer
<1>2. /\ Len(s) \in Nat /\ Len(t) = 1 + Len(s) /\ t[1] = a
      /\ \A k \in 1 .. Len(s) : t[k + 1] = s[k]
  BY LongerIs
<1>3. x \in Seq(B) /\ Len(x) = 1 + Len(s)
  <2>1. Mapped(F, t) \in Seq(B) /\ Len(Mapped(F, t)) = Len(t)
    <3>. HIDE DEF x, m, y
    <3>1. Mappable(F, A, B, t)
      BY <1>1 DEF Mappable
    <3>. QED BY <3>1, MappedIn, MappedLen
  <2>. QED BY <1>2, <2>1, Zenon
<1>4. m \in Seq(B) /\ Len(m) = Len(s) /\ F[a] \in B
  <2>1. Mapped(F, s) \in Seq(B) /\ Len(Mapped(F, s)) = Len(s)
    <3>. HIDE DEF x, m, y
    <3>1. Mappable(F, A, B, s)
      BY <1>1 DEF Mappable
    <3>. QED BY <3>1, MappedIn, MappedLen
  <2>. QED BY <1>1, <2>1
<1>5. Longer(y, B, F[a], m)
  BY <1>4, LongerMade, Zenon
<1>6. /\ Len(y) = 1 + Len(s) /\ y[1] = F[a] /\ y \in Seq(B)
      /\ \A k \in 1 .. Len(s) : y[k + 1] = m[k]
  BY <1>4, <1>5, LongerIs DEF Longer
<1>7. \A k \in 1 .. Len(t) : x[k] = F[t[k]]
  <2>1. \A k \in 1 .. Len(t) : Mapped(F, t)[k] = F[t[k]]
    <3>. HIDE DEF x, m, y
    <3>. QED BY <1>1, MappedAt
  <2>. QED BY <2>1, Zenon
<1>8. \A k \in 1 .. Len(s) : m[k] = F[s[k]]
  <2>1. \A k \in 1 .. Len(s) : Mapped(F, s)[k] = F[s[k]]
    <3>. HIDE DEF x, m, y
    <3>. QED BY <1>1, MappedAt
  <2>. QED BY <2>1, Zenon
<1>. HIDE DEF x, m, y
<1>9. ASSUME NEW k \in 1 .. Len(x)
      PROVE  x[k] = y[k]
  <2>1. x[k] = F[t[k]]
    BY <1>2, <1>3, <1>7
  <2>2. CASE k = 1
    BY <1>2, <1>6, <2>1, <2>2, Zenon
  <2>3. CASE k # 1
    <3>1. k - 1 \in 1 .. Len(s) /\ (k - 1) + 1 = k
      BY <1>2, <1>3, <2>3
    <3>2. t[(k - 1) + 1] = s[k - 1] /\ y[(k - 1) + 1] = m[k - 1] /\ m[k - 1] = F[s[k - 1]]
      BY <1>2, <1>6, <1>8, <3>1, Zenon
    <3>. QED BY <2>1, <3>1, <3>2, Zenon
  <2>. QED BY <2>2, <2>3
<1>10. x = y
  BY <1>3, <1>6, <1>9, SeqEqual
<1>11. Longer(x, B, F[a], m)
  BY <1>5, <1>10, Zenon
<1>. QED BY <1>11 DEF x, m
-----------------------------------------------------------------------------
(***************************************************************************)
(* The pieces of a query, as its properties read them                      *)
(***************************************************************************)
\* The names and values, and what is read of the pieces ps: those that are empty,
\* the pairs of the others, their items, and the texts that are uncommon.
Pairs == Texts \X Texts
Void(ps) == Only(ps, {<< >>})
Full(ps) == Only(ps, Texts \ {<< >>})
PairsOf(ps) == [k \in DOMAIN Full(ps) |-> NameValue(Full(ps)[k])]
ItemsOf(ps) == [k \in DOMAIN PairsOf(ps) |-> DecodedItem(PairsOf(ps)[k])]
GoodOf(ps) == Only(ItemsOf(ps), GoodUtf8)
Column(ps, j) == [k \in DOMAIN PairsOf(ps) |-> PairsOf(ps)[k][j]]
BadOf(ps, j) == Only(Column(ps, j), UncommonTexts)

\* The same as functions.
ToPair == [p \in Texts |-> NameValue(p)]
ToItem == [i \in Pairs |-> DecodedItem(i)]
ToText(j) == [i \in Pairs |-> i[j]]

\* A piece is split into two texts.
LEMMA NameValueKnown ==
  ASSUME NEW p \in Texts
  PROVE  NameValue(p) \in Pairs
<1>. DEFINE eqs == {i \in DOMAIN p : p[i] = Equals}
            eq == IF eqs = {} THEN 0 ELSE First(eqs)
<1>1. Len(p) \in Nat /\ DOMAIN p = 1 .. Len(p)
  BY LenProperties DEF Texts
<1>2. eq \in 0 .. Len(p)
  <2>1. CASE eqs = {}
    BY <1>1, <2>1
  <2>2. CASE eqs # {}
    <3>1. eqs \subseteq 0 .. Len(p)
      BY <1>1
    <3>2. First(eqs) \in eqs
      <4>. HIDE DEF eqs
      <4>. QED BY <1>1, <2>2, <3>1, FirstKnown
    <3>3. eq = First(eqs)
      BY <2>2, Zenon
    <3>. HIDE DEF eqs, eq
    <3>. QED BY <3>1, <3>2, <3>3
  <2>. QED BY <2>1, <2>2
<1>3. NameValue(p) = <<SubSeq(p, 1, eq - 1), SubSeq(p, eq + 1, Len(p))>>
  BY Zenon DEF NameValue
<1>. HIDE DEF eq
<1>4. /\ \A i \in 1 .. eq - 1 : p[i] \in Byte
      /\ \A i \in eq + 1 .. Len(p) : p[i] \in Byte
  <2>1. \A i \in 1 .. Len(p) : p[i] \in Byte
    BY ElementOfSeq DEF Texts
  <2>. QED BY <1>1, <1>2, <2>1
<1>5. 1 \in Int /\ eq - 1 \in Int /\ eq + 1 \in Int /\ Len(p) \in Int
  BY <1>1, <1>2
<1>6. SubSeq(p, 1, eq - 1) \in Seq(Byte) /\ SubSeq(p, eq + 1, Len(p)) \in Seq(Byte)
  BY <1>4, <1>5, SubSeqProperties
<1>. DEFINE a == SubSeq(p, 1, eq - 1)
            b == SubSeq(p, eq + 1, Len(p))
<1>7. a \in Texts /\ b \in Texts
  BY <1>6, Zenon DEF Texts
<1>8. NameValue(p) = <<a, b>>
  BY <1>3, Zenon
<1>. HIDE DEF a, b
<1>. QED BY <1>7, <1>8 DEF Pairs

\* The maps are functions of these types.
LEMMA ToKnown ==
  /\ ToPair \in [Texts -> Pairs]
  /\ ToItem \in [Pairs -> Pairs]
  /\ \A j \in {1, 2} : ToText(j) \in [Pairs -> Texts]
<1>1. ToPair \in [Texts -> Pairs]
  BY NameValueKnown, Zenon DEF ToPair
<1>2. ToItem \in [Pairs -> Pairs]
  <2>1. ASSUME NEW i \in Pairs
        PROVE  DecodedItem(i) \in Pairs
    <3>1. i[1] \in Texts /\ i[2] \in Texts
      BY DEF Pairs
    <3>2. Decoded(i[1]) \in Texts /\ Decoded(i[2]) \in Texts
      BY <3>1, DecodedKnown DEF Texts
    <3>. QED BY <3>2, Zenon DEF DecodedItem, Pairs
  <2>. QED BY <2>1, Zenon DEF ToItem
<1>3. ASSUME NEW j \in {1, 2}
      PROVE  ToText(j) \in [Pairs -> Texts]
  <2>1. \A i \in Pairs : i[1] \in Texts /\ i[2] \in Texts
    BY DEF Pairs
  <2>2. \A i \in Pairs : i[j] \in Texts
    BY <2>1
  <2>. QED BY <2>2, Zenon DEF ToText
<1>. QED BY <1>1, <1>2, <1>3

\* The pieces as sequences of texts, of pairs and of items.
LEMMA OfKnown ==
  ASSUME NEW ps \in Seq(Texts)
  PROVE  /\ Full(ps) \in Seq(Texts)
         /\ PairsOf(ps) = Mapped(ToPair, Full(ps)) /\ PairsOf(ps) \in Seq(Pairs)
         /\ ItemsOf(ps) = Mapped(ToItem, PairsOf(ps)) /\ ItemsOf(ps) \in Seq(Pairs)
         /\ \A j \in {1, 2} : /\ Column(ps, j) = Mapped(ToText(j), PairsOf(ps))
                              /\ Column(ps, j) \in Seq(Texts)
<1>1. Full(ps) \in Seq(Texts)
  BY OnlyKnown DEF Full
<1>2. PairsOf(ps) = Mapped(ToPair, Full(ps))
  <2>1. DOMAIN Full(ps) = 1 .. Len(Full(ps))
    BY <1>1, LenProperties
  <2>2. \A k \in DOMAIN Full(ps) : Full(ps)[k] \in Texts
    BY <1>1, <2>1, ElementOfSeq
  <2>3. \A k \in DOMAIN Full(ps) : ToPair[Full(ps)[k]] = NameValue(Full(ps)[k])
    BY <2>2, Zenon DEF ToPair
  <2>. QED BY <2>3, Zenon DEF Mapped, PairsOf
<1>3. PairsOf(ps) \in Seq(Pairs)
  <2>1. Mapped(ToPair, Full(ps)) \in Seq(Pairs)
    <3>1. Mappable(ToPair, Texts, Pairs, Full(ps))
      BY <1>1, ToKnown, Zenon DEF Mappable
    <3>. QED BY <3>1, MappedIn, MappedLen
  <2>. QED BY <1>2, <2>1, Zenon
<1>4. DOMAIN PairsOf(ps) = 1 .. Len(PairsOf(ps))
  BY <1>3, LenProperties
<1>5. \A k \in DOMAIN PairsOf(ps) : PairsOf(ps)[k] \in Pairs
  BY <1>3, <1>4, ElementOfSeq
<1>6. ItemsOf(ps) = Mapped(ToItem, PairsOf(ps))
  <2>1. \A k \in DOMAIN PairsOf(ps) : ToItem[PairsOf(ps)[k]] = DecodedItem(PairsOf(ps)[k])
    BY <1>5, Zenon DEF ToItem
  <2>. QED BY <2>1, Zenon DEF Mapped, ItemsOf
<1>7. ItemsOf(ps) \in Seq(Pairs)
  <2>1. Mappable(ToItem, Pairs, Pairs, PairsOf(ps))
    BY <1>3, ToKnown, Zenon DEF Mappable
  <2>2. Mapped(ToItem, PairsOf(ps)) \in Seq(Pairs)
    BY <2>1, MappedIn, Zenon
  <2>. QED BY <1>6, <2>2, Zenon
<1>8. ASSUME NEW j \in {1, 2}
      PROVE  /\ Column(ps, j) = Mapped(ToText(j), PairsOf(ps))
             /\ Column(ps, j) \in Seq(Texts)
  <2>1. \A k \in DOMAIN PairsOf(ps) : ToText(j)[PairsOf(ps)[k]] = PairsOf(ps)[k][j]
    BY <1>5, Zenon DEF ToText
  <2>2. Column(ps, j) = Mapped(ToText(j), PairsOf(ps))
    BY <2>1, Zenon DEF Mapped, Column
  <2>3. ToText(j) \in [Pairs -> Texts]
    BY ToKnown
  <2>4. Mappable(ToText(j), Pairs, Texts, PairsOf(ps))
    BY <1>3, <2>3, Zenon DEF Mappable
  <2>5. Mapped(ToText(j), PairsOf(ps)) \in Seq(Texts)
    BY <2>4, MappedIn, Zenon
  <2>. QED BY <2>2, <2>5, Zenon
<1>. QED BY <1>1, <1>2, <1>3, <1>6, <1>7, <1>8

\* 1 if the test holds.
Mark(test) == IF test THEN 1 ELSE 0

\* The length with one more, or none, in front.
LEMMA OneLen ==
  ASSUME NEW A, NEW a \in A, NEW s \in Seq(A), NEW test
  PROVE  Len(One(test, a) \o s) = Mark(test) + Len(s)
<1>1. One(test, a) \in Seq(A)
  BY OneKnown, Zenon
<1>2. Len(One(test, a) \o s) = Len(One(test, a)) + Len(s)
  BY <1>1, ConcatProperties
<1>3. CASE test
  <2>1. One(test, a) = <<a>> /\ Mark(test) = 1
    BY <1>3, Zenon DEF One, Mark
  <2>2. Len(<<a>>) = 1
    OBVIOUS
  <2>. QED BY <1>2, <2>1, <2>2, Zenon
<1>4. CASE ~test
  <2>1. One(test, a) = << >> /\ Mark(test) = 0
    BY <1>4, Zenon DEF One, Mark
  <2>2. Len(<< >>) = 0
    OBVIOUS
  <2>. QED BY <1>2, <2>1, <2>2, Zenon
<1>. QED BY <1>3, <1>4

\* One more that is kept.
LEMMA OnlyYes ==
  ASSUME NEW A, NEW t, NEW a, NEW s, Longer(t, A, a, s), NEW T
  PROVE  a \in T => Longer(Only(t, T), A, a, Only(s, T))
<1>1. Only(t, T) = One(a \in T, a) \o Only(s, T)
  BY OnlyLonger
<1>2. a \in T => One(a \in T, a) = <<a>>
  BY Zenon DEF One
<1>3. a \in A /\ s \in Seq(A)
  BY DEF Longer
<1>4. Only(s, T) \in Seq(A)
  BY <1>3, OnlyKnown, Zenon
<1>5. Longer(<<a>> \o Only(s, T), A, a, Only(s, T))
  BY <1>3, <1>4, LongerMade, Zenon
<1>. QED BY <1>1, <1>2, <1>5, Zenon

\* One more that is not.
LEMMA OnlyNo ==
  ASSUME NEW A, NEW t, NEW a, NEW s, Longer(t, A, a, s), NEW T
  PROVE  a \notin T => Only(t, T) = Only(s, T)
<1>1. Only(t, T) = One(a \in T, a) \o Only(s, T)
  BY OnlyLonger
<1>2. a \notin T => One(a \in T, a) = << >>
  BY Zenon DEF One
<1>3. s \in Seq(A)
  BY DEF Longer
<1>4. Only(s, T) \in Seq(A)
  BY <1>3, OnlyKnown, Zenon
<1>5. << >> \o Only(s, T) = Only(s, T)
  BY <1>4, ConcatEmptySeq
<1>. QED BY <1>1, <1>2, <1>5, Zenon

\* The length with one more.
LEMMA OnlyLen ==
  ASSUME NEW A, NEW t, NEW a, NEW s, Longer(t, A, a, s), NEW T
  PROVE  Len(Only(t, T)) = Mark(a \in T) + Len(Only(s, T))
<1>1. Only(t, T) = One(a \in T, a) \o Only(s, T)
  BY OnlyLonger
<1>2. a \in A /\ s \in Seq(A)
  BY DEF Longer
<1>3. Only(s, T) \in Seq(A)
  BY <1>2, OnlyKnown, Zenon
<1>4. Len(One(a \in T, a) \o Only(s, T)) = Mark(a \in T) + Len(Only(s, T))
  BY <1>2, <1>3, OneLen
<1>. QED BY <1>1, <1>4, Zenon

\* Without pieces there is nothing to read or to report.
LEMMA NoPieces ==
  /\ GoodOf(<< >>) = << >> /\ ItemsOf(<< >>) = << >> /\ Void(<< >>) = << >>
  /\ \A j \in {1, 2} : BadOf(<< >>, j) = << >>
<1>1. << >> \in Seq(Texts)
  BY EmptySeq
<1>2. Full(<< >>) = << >> /\ Void(<< >>) = << >>
  BY OnlyEmpty, Zenon DEF Full, Void
<1>3. PairsOf(<< >>) = << >>
  <2>1. PairsOf(<< >>) = Mapped(ToPair, Full(<< >>))
    BY <1>1, OfKnown, Zenon
  <2>2. Mapped(ToPair, << >>) = << >>
    BY ToKnown, MappedEmpty, Zenon
  <2>. QED BY <1>2, <2>1, <2>2, Zenon
<1>4. ItemsOf(<< >>) = << >>
  <2>1. ItemsOf(<< >>) = Mapped(ToItem, PairsOf(<< >>))
    BY <1>1, OfKnown, Zenon
  <2>2. Mapped(ToItem, << >>) = << >>
    BY ToKnown, MappedEmpty, Zenon
  <2>. QED BY <1>3, <2>1, <2>2, Zenon
<1>5. ASSUME NEW j \in {1, 2}
      PROVE  BadOf(<< >>, j) = << >>
  <2>1. Column(<< >>, j) = Mapped(ToText(j), PairsOf(<< >>))
    BY <1>1, OfKnown, Zenon
  <2>2. Mapped(ToText(j), << >>) = << >>
    BY ToKnown, MappedEmpty, Zenon
  <2>3. Column(<< >>, j) = << >>
    BY <1>3, <2>1, <2>2, Zenon
  <2>. QED BY <2>3, OnlyEmpty, Zenon DEF BadOf
<1>6. GoodOf(<< >>) = << >>
  BY <1>4, OnlyEmpty, Zenon DEF GoodOf
<1>. QED BY <1>2, <1>4, <1>5, <1>6

\* An empty piece in front adds a void one, and nothing else.
LEMMA VoidPiece ==
  ASSUME NEW ps, NEW s, Longer(ps, Texts, << >>, s)
  PROVE  /\ GoodOf(ps) = GoodOf(s) /\ ItemsOf(ps) = ItemsOf(s)
         /\ \A j \in {1, 2} : BadOf(ps, j) = BadOf(s, j)
         /\ Len(Void(ps)) = 1 + Len(Void(s))
<1>1. << >> \notin Texts \ {<< >>} /\ << >> \in {<< >>}
  OBVIOUS
<1>2. Full(ps) = Full(s)
  <2>1. Only(ps, Texts \ {<< >>}) = Only(s, Texts \ {<< >>})
    BY <1>1, OnlyNo
  <2>. QED BY <2>1, Zenon DEF Full
<1>3. PairsOf(ps) = PairsOf(s)
  BY <1>2, Zenon DEF PairsOf
<1>4. ItemsOf(ps) = ItemsOf(s)
  BY <1>3, Zenon DEF ItemsOf
<1>5. \A j \in {1, 2} : BadOf(ps, j) = BadOf(s, j)
  BY <1>3, Zenon DEF BadOf, Column
<1>6. Len(Void(ps)) = Mark(<< >> \in {<< >>}) + Len(Void(s))
  <2>1. Len(Only(ps, {<< >>})) = Mark(<< >> \in {<< >>}) + Len(Only(s, {<< >>}))
    BY OnlyLen
  <2>. QED BY <2>1, Zenon DEF Void
<1>7. Mark(<< >> \in {<< >>}) = 1
  BY <1>1, Zenon DEF Mark
<1>8. GoodOf(ps) = GoodOf(s)
  BY <1>4, Zenon DEF GoodOf
<1>. QED BY <1>4, <1>5, <1>6, <1>7, <1>8, Zenon

\* Another adds its item if that is UTF-8, and what is uncommon in it.
LEMMA FullPiece ==
  ASSUME NEW ps, NEW s, NEW a, a # << >>, Longer(ps, Texts, a, s)
  PROVE  /\ NameValue(a) \in Pairs /\ DecodedItem(NameValue(a)) \in Pairs
         /\ GoodOf(ps) = One(DecodedItem(NameValue(a)) \in GoodUtf8,
                             DecodedItem(NameValue(a))) \o GoodOf(s)
         /\ Len(GoodOf(ps)) = Mark(DecodedItem(NameValue(a)) \in GoodUtf8) + Len(GoodOf(s))
         /\ Len(ItemsOf(ps)) = 1 + Len(ItemsOf(s))
         /\ \A j \in {1, 2} :
              Len(BadOf(ps, j)) = Mark(NameValue(a)[j] \in UncommonTexts) + Len(BadOf(s, j))
         /\ Void(ps) = Void(s)
<1>1. a \in Texts /\ s \in Seq(Texts) /\ ps \in Seq(Texts)
  BY DEF Longer
<1>2. a \in Texts \ {<< >>} /\ a \notin {<< >>}
  BY <1>1
<1>3. Longer(Full(ps), Texts, a, Full(s))
  BY <1>2, OnlyYes, Zenon DEF Full
<1>4. Longer(PairsOf(ps), Pairs, ToPair[a], PairsOf(s))
  <2>1. Longer(Mapped(ToPair, Full(ps)), Pairs, ToPair[a], Mapped(ToPair, Full(s)))
    BY <1>3, ToKnown, MappedLonger, Zenon
  <2>. QED BY <1>1, <2>1, OfKnown, Zenon
<1>. DEFINE nv == ToPair[a]
            d == ToItem[nv]
<1>5. nv \in Pairs /\ d \in Pairs /\ nv = NameValue(a) /\ d = DecodedItem(NameValue(a))
  <2>1. nv = NameValue(a) /\ nv \in Pairs
    BY <1>1, NameValueKnown, Zenon DEF ToPair
  <2>2. d = DecodedItem(nv) /\ d \in Pairs
    BY <2>1, ToKnown DEF ToItem
  <2>. QED BY <2>1, <2>2, Zenon
<1>6. Longer(ItemsOf(ps), Pairs, d, ItemsOf(s))
  <2>1. Longer(Mapped(ToItem, PairsOf(ps)), Pairs, d, Mapped(ToItem, PairsOf(s)))
    BY <1>4, ToKnown, MappedLonger, Zenon
  <2>. QED BY <1>1, <2>1, OfKnown, Zenon
<1>7. ASSUME NEW j \in {1, 2}
      PROVE  Len(BadOf(ps, j)) = Mark(nv[j] \in UncommonTexts) + Len(BadOf(s, j))
  <2>1. Longer(Mapped(ToText(j), PairsOf(ps)), Texts, ToText(j)[nv], Mapped(ToText(j), PairsOf(s)))
    BY <1>4, ToKnown, MappedLonger, Zenon
  <2>2. ToText(j)[nv] = nv[j]
    BY <1>5, Zenon DEF ToText
  <2>3. Longer(Column(ps, j), Texts, nv[j], Column(s, j))
    BY <1>1, <2>1, <2>2, OfKnown, Zenon
  <2>4. Len(Only(Column(ps, j), UncommonTexts))
          = Mark(nv[j] \in UncommonTexts) + Len(Only(Column(s, j), UncommonTexts))
    BY <2>3, OnlyLen, SMTT(20)
  <2>. QED BY <2>4, Zenon DEF BadOf
<1>. HIDE DEF nv, d
<1>8. GoodOf(ps) = One(d \in GoodUtf8, d) \o GoodOf(s)
  <2>1. Only(ItemsOf(ps), GoodUtf8) = One(d \in GoodUtf8, d) \o Only(ItemsOf(s), GoodUtf8)
    BY <1>6, OnlyLonger
  <2>. QED BY <2>1, Zenon DEF GoodOf
<1>9. Len(GoodOf(ps)) = Mark(d \in GoodUtf8) + Len(GoodOf(s))
  <2>1. Len(Only(ItemsOf(ps), GoodUtf8)) = Mark(d \in GoodUtf8) + Len(Only(ItemsOf(s), GoodUtf8))
    BY <1>6, OnlyLen
  <2>. QED BY <2>1, Zenon DEF GoodOf
<1>10. Len(ItemsOf(ps)) = 1 + Len(ItemsOf(s))
  BY <1>6, LongerIs
<1>11. Void(ps) = Void(s)
  <2>1. Only(ps, {<< >>}) = Only(s, {<< >>})
    BY <1>2, OnlyNo
  <2>. QED BY <2>1, Zenon DEF Void
<1>. QED BY <1>5, <1>7, <1>8, <1>9, <1>10, <1>11, Zenon

-----------------------------------------------------------------------------
(*****************************************************************************)
(* The pieces of a query                                                     *)
(*****************************************************************************)

\* The place of the first ch from place i on, or the end of the text.
NextOf(text, ch, i) ==
  First({k \in i .. Len(text) : text[k] = ch} \cup {Len(text) + 1})

\* It is the first: there is no ch in front of it.
LEMMA NextIs ==
  ASSUME NEW text \in Seq(Byte), NEW ch, NEW i \in 1 .. Len(text) + 1
  PROVE  /\ NextOf(text, ch, i) \in i .. Len(text) + 1
         /\ NextOf(text, ch, i) <= Len(text) => text[NextOf(text, ch, i)] = ch
         /\ \A k \in i .. Len(text) : k < NextOf(text, ch, i) => text[k] # ch
<1>. DEFINE n == Len(text)
            T == {k \in i .. n : text[k] = ch} \cup {n + 1}
            e == First(T)
<1>1. n \in Nat
  OBVIOUS
<1>2. T \subseteq 0 .. n + 1 /\ T # {} /\ n + 1 \in Nat /\ T \subseteq i .. n + 1
  BY <1>1
<1>3. e \in T /\ \A k \in T : e <= k
  <2>. HIDE DEF T, n
  <2>. QED BY <1>2, FirstLeast
<1>4. e \in i .. n + 1
  <2>. HIDE DEF T, e
  <2>. QED BY <1>2, <1>3
<1>5. e <= n => text[e] = ch
  <2>. HIDE DEF e, n
  <2>. QED BY <1>1, <1>3
<1>6. \A k \in i .. n : k < e => text[k] # ch
  <2>1. \A k \in i .. n : text[k] = ch => k \in T
    OBVIOUS
  <2>2. \A k \in T : ~(k < e)
    <3>. HIDE DEF T, e, n
    <3>. QED BY <1>1, <1>2, <1>3, <1>4
  <2>. QED BY <2>1, <2>2, Zenon
<1>. QED BY <1>4, <1>5, <1>6, Zenon DEF NextOf

\* P is the recursion of the pieces.
PiecesFrom(text, P) ==
  /\ P \in [1 .. Len(text) + 1 -> Seq(Texts)]
  /\ \A i \in 1 .. Len(text) + 1 :
       P[i] = <<SubSeq(text, i, NextOf(text, Ampersand, i) - 1)>>
              \o IF NextOf(text, Ampersand, i) > Len(text) THEN << >>
                 ELSE P[NextOf(text, Ampersand, i) + 1]

\* The pieces from place i on.
PiecesAt(text, i) ==
  LET P[k \in 1 .. Len(text) + 1] ==
        LET amp == First({l \in k .. Len(text) : text[l] = Ampersand}
                         \cup {Len(text) + 1})
        IN <<SubSeq(text, k, amp - 1)>>
           \o IF amp > Len(text) THEN << >> ELSE P[amp + 1]
  IN P[i]

\* A part of a text is one.
LEMMA PieceText ==
  ASSUME NEW text \in Seq(Byte), NEW i \in 1 .. Len(text) + 1, NEW e \in i .. Len(text) + 1
  PROVE  SubSeq(text, i, e - 1) \in Texts
<1>1. Len(text) \in Nat /\ \A k \in 1 .. Len(text) : text[k] \in Byte
  BY LenProperties, ElementOfSeq
<1>2. i \in Int /\ e - 1 \in Int /\ \A k \in i .. e - 1 : text[k] \in Byte
  BY <1>1
<1>. QED BY <1>2, SubSeqProperties DEF Texts

\* The recursion of the pieces has a solution.
LEMMA PiecesIs ==
  ASSUME NEW text \in Seq(Byte)
  PROVE  \E P : PiecesFrom(text, P) /\ \A i : PiecesAt(text, i) = P[i]
<1>. DEFINE n == Len(text)
            hi == n + 1
            C == Seq(Texts)
            N(i) == NextOf(text, Ampersand, i)
            E(i, f) == <<SubSeq(text, i, N(i) - 1)>>
                       \o IF N(i) > n THEN << >> ELSE f[N(i) + 1]
            I == 1 .. hi
            G == [x \in I \X [I -> C] |-> E(x[1], x[2])]
<1>1. n \in Nat /\ hi \in Nat /\ 1 \in Nat /\ 1 \in I /\ C # {} /\ << >> \in C
  <2>1. n \in Nat
    BY LenProperties
  <2>2. << >> \in C
    BY EmptySeq
  <2>. HIDE DEF n, C
  <2>. QED BY <2>1, <2>2
<1>2. ASSUME NEW i \in I
      PROVE  /\ <<SubSeq(text, i, N(i) - 1)>> \in C
             /\ ~(N(i) > n) => N(i) + 1 \in (i + 1) .. hi
  <2>1. N(i) \in i .. n + 1
    BY NextIs
  <2>2. SubSeq(text, i, N(i) - 1) \in Texts
    <3>. HIDE DEF N
    <3>. QED BY <2>1, PieceText
  <2>3. <<SubSeq(text, i, N(i) - 1)>> \in C
    <3>. DEFINE p == SubSeq(text, i, N(i) - 1)
    <3>1. p \in Texts
      BY <2>2
    <3>. HIDE DEF p
    <3>2. <<p>> \in Seq(Texts)
      BY <3>1
    <3>. QED BY <3>2 DEF p
  <2>. HIDE DEF N, n, C
  <2>. QED BY <1>1, <2>1, <2>3
<1>. HIDE DEF n, hi, N
<1>3. ASSUME NEW i \in I, NEW f, \A j \in (i + 1) .. hi : f[j] \in C
      PROVE  E(i, f) \in C
  <2>. HIDE DEF I, C
  <2>1. CASE N(i) > n
    <3>1. <<SubSeq(text, i, N(i) - 1)>> \in C
      BY <1>2
    <3>2. E(i, f) = <<SubSeq(text, i, N(i) - 1)>> \o << >>
      BY <2>1, Zenon
    <3>. HIDE DEF E
    <3>. QED BY <1>1, <3>1, <3>2, ConcatProperties DEF C
  <2>2. CASE ~(N(i) > n)
    <3>1. <<SubSeq(text, i, N(i) - 1)>> \in C /\ f[N(i) + 1] \in C
      BY <1>2, <1>3, <2>2
    <3>2. E(i, f) = <<SubSeq(text, i, N(i) - 1)>> \o f[N(i) + 1]
      BY <2>2, Zenon
    <3>. HIDE DEF E
    <3>. QED BY <3>1, <3>2, ConcatProperties DEF C
  <2>. QED BY <2>1, <2>2
<1>4. ASSUME NEW i \in I, NEW f, NEW g, \A j \in (i + 1) .. hi : f[j] = g[j]
      PROVE  E(i, f) = E(i, g)
  <2>. HIDE DEF I, C
  <2>1. ~(N(i) > n) => f[N(i) + 1] = g[N(i) + 1]
    BY <1>2, <1>4, Zenon
  <2>. QED BY <2>1, Zenon
<1>5. \A i \in I : \A j \in (i + 1) .. hi : j \in I
  BY <1>1
<1>6. G \in [I \X [I -> C] -> C] /\ \A i \in I : \A f \in [I -> C] : G[<<i, f>>] = E(i, f)
  <2>1. \A i \in I : \A f \in [I -> C] : E(i, f) \in C
    <3>. HIDE DEF I, E, C
    <3>1. ASSUME NEW i \in I, NEW f \in [I -> C]
          PROVE  E(i, f) \in C
      <4>1. \A j \in (i + 1) .. hi : f[j] \in C
        BY <1>5
      <4>. QED BY <1>3, <4>1, Zenon
    <3>. QED BY <3>1
  <2>. HIDE DEF I, E, C
  <2>. QED BY <2>1
<1>. HIDE DEF E, G, C
<1>7. \A i \in I : \A f, g \in [I -> C] :
        (\A j \in (i + 1) .. hi : f[j] = g[j]) => G[<<i, f>>] = G[<<i, g>>]
  <2>. HIDE DEF I
  <2>1. ASSUME NEW i \in I, NEW f \in [I -> C], NEW g \in [I -> C],
               \A j \in (i + 1) .. hi : f[j] = g[j]
        PROVE  G[<<i, f>>] = G[<<i, g>>]
    <3>1. E(i, f) = E(i, g)
      BY <1>4, <2>1, Zenon
    <3>2. G[<<i, f>>] = E(i, f) /\ G[<<i, g>>] = E(i, g)
      BY <1>6, Zenon
    <3>. QED BY <3>1, <3>2, Zenon
  <2>. QED BY <2>1
<1>8. Backward(1, hi, C, G)
  BY <1>1, <1>6, <1>7, Zenon DEF Backward
<1>9. \E f \in [I -> C] : \A i \in I : f[i] = G[<<i, f>>]
  BY <1>8, BackwardExists
<1>10. PICK f \in [I -> C] : \A i \in I : f[i] = E(i, f)
  <2>. HIDE DEF I
  <2>. QED BY <1>6, <1>9, Zenon
<1>11. f = [i \in I |-> E(i, f)]
  <2>. HIDE DEF I
  <2>. QED BY <1>10
<1>12. \E g : g = [i \in I |-> E(i, g)]
  BY <1>11, Zenon
<1>13. PICK g : g = [i \in I |-> E(i, g)] /\ \A i : PiecesAt(text, i) = g[i]
  BY <1>12, Zenon DEF PiecesAt, NextOf, N, E, I, hi, n
<1>14. \A i \in I : g[i] = E(i, g)
  <2>. HIDE DEF I
  <2>. QED BY <1>13
<1>15. \A i \in I : g[i] \in C
  <2>. DEFINE S == {i \in I : g[i] \in C}
  <2>1. ASSUME NEW i \in 1 .. hi, \A j \in (i + 1) .. hi : j \in S
        PROVE  i \in S
    <3>1. E(i, g) \in C
      <4>1. \A j \in (i + 1) .. hi : g[j] \in C
        BY <2>1
      <4>. QED BY <1>3, <4>1, Zenon
    <3>. QED BY <1>14, <3>1
  <2>2. \A i \in 1 .. hi : i \in S
    <3>. HIDE DEF S
    <3>. QED BY <1>1, <2>1, DownFrom
  <2>. QED BY <2>2
<1>16. g \in [I -> C]
  <2>. HIDE DEF I
  <2>. QED BY <1>13, <1>15
<1>17. PiecesFrom(text, g)
  BY <1>14, <1>16, Zenon DEF PiecesFrom, E, I, C, N, hi, n
<1>. QED BY <1>13, <1>17

\* What is left of the pieces at place i.
Left(text, i) == IF i > Len(text) + 1 THEN << >> ELSE PiecesAt(text, i)

\* What is left at a place: the piece there, then what is left behind its end.
LEMMA LeftIs ==
  ASSUME NEW text \in Seq(Byte)
  PROVE  /\ \A i \in 1 .. Len(text) + 2 : Left(text, i) \in Seq(Texts)
         /\ \A i \in 1 .. Len(text) + 1 :
              Longer(Left(text, i), Texts,
                     SubSeq(text, i, NextOf(text, Ampersand, i) - 1),
                     Left(text, NextOf(text, Ampersand, i) + 1))
         /\ Left(text, Len(text) + 2) = << >>
<1>. DEFINE n == Len(text)
<1>1. n \in Nat
  BY LenProperties
<1>2. PICK P : PiecesFrom(text, P) /\ \A i : PiecesAt(text, i) = P[i]
  BY PiecesIs
<1>3. << >> \in Seq(Texts)
  BY EmptySeq
<1>4. ASSUME NEW i \in 1 .. n + 1
      PROVE  Left(text, i) = P[i] /\ P[i] \in Seq(Texts)
  <2>1. ~(i > n + 1)
    BY <1>1
  <2>. QED BY <1>2, <2>1, Zenon DEF Left, PiecesFrom
<1>5. Left(text, n + 2) = << >>
  <2>1. n + 2 > n + 1
    BY <1>1
  <2>. QED BY <2>1, Zenon DEF Left
<1>6. \A i \in 1 .. n + 2 : Left(text, i) \in Seq(Texts)
  <2>1. \A i \in 1 .. n + 2 : i \in 1 .. n + 1 \/ i = n + 2
    BY <1>1
  <2>. QED BY <1>3, <1>4, <1>5, <2>1, Zenon
<1>7. ASSUME NEW i \in 1 .. n + 1
      PROVE  Longer(Left(text, i), Texts,
                    SubSeq(text, i, NextOf(text, Ampersand, i) - 1),
                    Left(text, NextOf(text, Ampersand, i) + 1))
  <2>. DEFINE e == NextOf(text, Ampersand, i)
              a == SubSeq(text, i, e - 1)
  <2>1. e \in i .. n + 1
    BY NextIs
  <2>. HIDE DEF e
  <2>2. a \in Texts
    BY <2>1, PieceText
  <2>3. Left(text, e + 1) = IF e > n THEN << >> ELSE P[e + 1]
    <3>1. CASE e > n
      <4>1. e + 1 = n + 2
        BY <1>1, <2>1, <3>1
      <4>. QED BY <1>5, <3>1, <4>1, Zenon
    <3>2. CASE ~(e > n)
      <4>1. e + 1 \in 1 .. n + 1
        BY <1>1, <2>1, <3>2
      <4>. QED BY <1>4, <3>2, <4>1, Zenon
    <3>. QED BY <3>1, <3>2
  <2>4. P[i] = <<a>> \o IF e > n THEN << >> ELSE P[e + 1]
    BY <1>2, Zenon DEF PiecesFrom, e
  <2>5. Left(text, i) = <<a>> \o Left(text, e + 1)
    BY <1>4, <2>3, <2>4, Zenon
  <2>6. e + 1 \in 1 .. n + 2
    BY <1>1, <2>1
  <2>7. Left(text, e + 1) \in Seq(Texts)
    BY <1>6, <2>6, Zenon
  <2>. HIDE DEF a
  <2>8. Longer(<<a>> \o Left(text, e + 1), Texts, a, Left(text, e + 1))
    BY <2>2, <2>7, LongerMade, Zenon
  <2>. QED BY <2>5, <2>8, Zenon DEF a, e
<1>. QED BY <1>5, <1>6, <1>7

\* A part of a part of a sequence.
LEMMA SubOfSub ==
  ASSUME NEW S, NEW s \in Seq(S), NEW i \in 1 .. Len(s), NEW j \in i .. Len(s),
         NEW a \in 1 .. (j - i + 2), NEW b \in 0 .. (j - i + 1),
         NEW c, NEW d, c = i + a - 1, d = i + b - 1
  PROVE  SubSeq(SubSeq(s, i, j), a, b) = SubSeq(s, c, d)
<1>1. Len(s) \in Nat
  BY LenProperties
<1>2. CASE a <= b
  <2>1. j \in 1 .. Len(s) /\ a \in 1 .. (j - i + 1) /\ b \in 1 .. (j - i + 1)
    BY <1>1, <1>2
  <2>. QED BY <2>1, SubSeqOfSubSeq
<1>3. CASE ~(a <= b)
  <2>1. a \in Int /\ b \in Int /\ b < a /\ c \in Int /\ d \in Int /\ d < c
    BY <1>1, <1>3
  <2>. QED BY <2>1, SubSeqEmpty
<1>. QED BY <1>2, <1>3

\* There is one first place.
LEMMA FirstUnique ==
  ASSUME NEW T, T \subseteq Int, NEW x \in T, \A k \in T : x <= k
  PROVE  First(T) = x
<1>1. \A y \in T : (\A k \in T : y <= k) => y = x
  <2>1. ASSUME NEW y \in T, \A k \in T : y <= k
        PROVE  y = x
    <3>1. y <= x /\ x <= y /\ x \in Int /\ y \in Int
      BY <2>1
    <3>. QED BY <3>1
  <2>. QED BY <2>1
<1>. QED BY <1>1 DEF First

\* The piece at place i, and what the code makes of it.
PieceAt(text, i) == SubSeq(text, i, NextOf(text, Ampersand, i) - 1)
SplitAt(text, i) ==
  LET ev == NextOf(text, Ampersand, i)
      eq == NextOf(text, Equals, i)
  IN IF eq > ev \/ eq > Len(text) THEN <<<< >>, SubSeq(text, i, ev - 1)>>
     ELSE <<SubSeq(text, i, eq - 1), SubSeq(text, eq + 1, ev - 1)>>

\* The code splits a piece as the reference does.
LEMMA SplitIs ==
  ASSUME NEW text \in Seq(Byte), NEW i \in 1 .. Len(text), text[i] # Ampersand
  PROVE  /\ SplitAt(text, i) = NameValue(PieceAt(text, i))
         /\ PieceAt(text, i) \in Texts /\ PieceAt(text, i) # << >>
<1>. DEFINE n == Len(text)
            ev == NextOf(text, Ampersand, i)
            eq == NextOf(text, Equals, i)
            p == SubSeq(text, i, ev - 1)
            m == ev - i
<1>1. n \in Nat /\ i \in 1 .. n + 1 /\ \A k \in 1 .. n : text[k] \in Byte
  BY LenProperties, ElementOfSeq
<1>2. /\ ev \in i .. n + 1 /\ (ev <= n => text[ev] = Ampersand)
      /\ \A k \in i .. n : k < ev => text[k] # Ampersand
  BY <1>1, NextIs, Zenon
<1>3. /\ eq \in i .. n + 1 /\ (eq <= n => text[eq] = Equals)
      /\ \A k \in i .. n : k < eq => text[k] # Equals
  BY <1>1, NextIs, Zenon
<1>. HIDE DEF n, ev, eq
<1>0. n = Len(text)
  BY DEF n
<1>4. ev # i /\ m \in 1 .. n /\ m \in Int /\ ev - 1 \in i .. n /\ i \in 1 .. n
  BY <1>0, <1>1, <1>2
<1>5. p \in Texts
  BY <1>0, <1>1, <1>2, PieceText
<1>6. Len(p) = m /\ \A k \in 1 .. m : p[k] = text[i + k - 1]
  <2>1. /\ i \in Int /\ ev - 1 \in Int /\ i <= ev - 1 /\ (ev - 1) - i + 1 = m
        /\ \A k \in i .. ev - 1 : text[k] \in Byte
    <3>1. \A k \in i .. ev - 1 : k \in 1 .. n
      BY <1>1, <1>2, <1>4
    <3>. QED BY <1>1, <1>2, <1>4, <3>1
  <2>. QED BY <2>1, SubSeqProperties
<1>7. DOMAIN p = 1 .. m
  BY <1>5, <1>6, LenProperties DEF Texts
<1>. DEFINE eqs == {k \in DOMAIN p : p[k] = Equals}
            f == IF eqs = {} THEN 0 ELSE First(eqs)
<1>8. NameValue(p) = <<SubSeq(p, 1, f - 1), SubSeq(p, f + 1, Len(p))>>
  BY Zenon DEF NameValue
<1>. HIDE DEF p
<1>9. \A k \in 1 .. m : p[k] = Equals <=> text[i + k - 1] = Equals
  BY <1>6
<1>10. p # << >>
  <2>1. Len(p) # 0
    BY <1>4, <1>6
  <2>. QED BY <2>1
<1>11. CASE eq > ev \/ eq > n
  <2>1. eqs = {}
    <3>1. ASSUME NEW k \in 1 .. m
          PROVE  p[k] # Equals
      <4>1. i + k - 1 \in i .. n /\ i + k - 1 < eq
        BY <1>1, <1>2, <1>3, <1>4, <1>11
      <4>2. text[i + k - 1] # Equals
        BY <1>3, <4>1
      <4>. QED BY <1>9, <4>2
    <3>. QED BY <1>7, <3>1
  <2>2. f = 0 /\ 0 - 1 < 1 /\ 0 - 1 \in Int /\ 0 + 1 = 1 /\ 1 \in Int
    BY <2>1
  <2>. HIDE DEF f
  <2>3. SubSeq(p, 1, f - 1) = << >>
    BY <2>2, SubSeqEmpty
  <2>4. SubSeq(p, f + 1, Len(p)) = p
    BY <1>5, <2>2, SubSeqFull DEF Texts
  <2>5. NameValue(p) = <<<< >>, p>>
    BY <1>8, <2>3, <2>4, Zenon
  <2>6. SplitAt(text, i) = <<<< >>, p>>
    BY <1>11, Zenon DEF SplitAt, p, ev, eq, n
  <2>. QED BY <1>5, <1>10, <2>5, <2>6, Zenon DEF PieceAt, p, ev
<1>12. CASE ~(eq > ev \/ eq > n)
  <2>1. Ampersand # Equals
    BY DEF Ampersand, Equals
  <2>2. text[eq] = Equals /\ eq # ev
    BY <1>1, <1>2, <1>3, <1>12, <2>1
  <2>. DEFINE g == eq - i + 1
  <2>3. g \in 1 .. m /\ i + g - 1 = eq
    BY <1>1, <1>2, <1>3, <1>12, <2>2
  <2>4. g \in eqs
    BY <1>7, <1>9, <2>2, <2>3
  <2>5. \A k \in eqs : g <= k
    <3>1. ASSUME NEW k \in 1 .. m, p[k] = Equals, ~(g <= k)
          PROVE  FALSE
      <4>1. i + k - 1 \in i .. n /\ i + k - 1 < eq
        BY <1>1, <1>2, <1>3, <1>4, <3>1
      <4>2. text[i + k - 1] # Equals
        BY <1>3, <4>1
      <4>. QED BY <1>9, <3>1, <4>2
    <3>. QED BY <1>7, <3>1
  <2>6. eqs \subseteq Int
    BY <1>7
  <2>7. First(eqs) = g /\ eqs # {}
    <3>. HIDE DEF eqs, g
    <3>. QED BY <2>4, <2>5, <2>6, FirstUnique
  <2>8. f = g
    BY <2>7, Zenon
  <2>. HIDE DEF f, eqs
  <2>. DEFINE a == f - 1
              b == f + 1
              j == ev - 1
              c == eq - 1
              d == eq + 1
  <2>13. /\ j \in i .. n /\ 1 \in 1 .. (j - i + 2) /\ a \in 0 .. (j - i + 1)
         /\ b \in 1 .. (j - i + 2) /\ m \in 0 .. (j - i + 1)
         /\ i = i + 1 - 1 /\ c = i + a - 1 /\ d = i + b - 1 /\ j = i + m - 1
    <3>. HIDE DEF n, ev, eq
    <3>. QED BY <1>1, <1>2, <1>3, <1>4, <2>3, <2>8
  <2>14. p = SubSeq(text, i, j)
    BY Zenon DEF p
  <2>. HIDE DEF a, b, c, d, j, m
  <2>9. SubSeq(p, 1, a) = SubSeq(text, i, c)
    BY <1>0, <1>4, <2>13, <2>14, SubOfSub
  <2>10. SubSeq(p, b, m) = SubSeq(text, d, j)
    BY <1>0, <1>4, <2>13, <2>14, SubOfSub
  <2>11. NameValue(p) = <<SubSeq(text, i, eq - 1), SubSeq(text, eq + 1, ev - 1)>>
    BY <1>6, <1>8, <2>9, <2>10, Zenon DEF a, b, c, d, j
  <2>12. SplitAt(text, i) = <<SubSeq(text, i, eq - 1), SubSeq(text, eq + 1, ev - 1)>>
    BY <1>12, Zenon DEF SplitAt, ev, eq, n
  <2>. QED BY <1>5, <1>10, <2>11, <2>12, Zenon DEF PieceAt, p, ev
<1>. QED BY <1>11, <1>12

-----------------------------------------------------------------------------
(*****************************************************************************)
(* Rules that are raised                                                     *)
(*****************************************************************************)

\* How often r is in s.
Count(s, r) == Cardinality({k \in DOMAIN s : s[k] = r})

\* A count is a number.
LEMMA CountKnown ==
  ASSUME NEW S, NEW s \in Seq(S), NEW r
  PROVE  /\ Count(s, r) \in Nat
         /\ IsFiniteSet({k \in DOMAIN s : s[k] = r})
<1>. DEFINE T == {k \in DOMAIN s : s[k] = r}
<1>1. Len(s) \in Nat /\ DOMAIN s = 1 .. Len(s)
  BY LenProperties
<1>2. T \subseteq 1 .. Len(s)
  BY <1>1
<1>3. IsFiniteSet(1 .. Len(s))
  BY <1>1, FS_Interval
<1>. HIDE DEF T
<1>4. IsFiniteSet(T) /\ Cardinality(T) \in Nat
  BY <1>2, <1>3, FS_Subset, FS_CardinalityType
<1>. QED BY <1>4, Zenon DEF Count, T

\* Nothing is counted in nothing.
LEMMA CountNone ==
  ASSUME NEW r
  PROVE  Count(<< >>, r) = 0
<1>1. {k \in DOMAIN << >> : << >>[k] = r} = {}
  OBVIOUS
<1>. QED BY <1>1, FS_EmptySet, Zenon DEF Count

\* A rule that is raised is counted.
LEMMA CountIf ==
  ASSUME NEW s \in Seq(Int), NEW q \in Int, NEW test
  PROVE  /\ s \o If(test, q) \in Seq(Int)
         /\ \A r : Count(s \o If(test, q), r) = Count(s, r) + Mark(test /\ q = r)
<1>. DEFINE S == Int
<1>. SUFFICES ASSUME NEW r
              PROVE  /\ s \o If(test, q) \in Seq(S)
                     /\ Count(s \o If(test, q), r) = Count(s, r) + Mark(test /\ q = r)
  OBVIOUS
<1>a. s \in Seq(S) /\ q \in S
  OBVIOUS
<1>. HIDE DEF S
<1>0. Count(s, r) \in Nat
  BY <1>a, CountKnown
<1>1. CASE ~test
  <2>1. If(test, q) = << >> /\ Mark(test /\ q = r) = 0
    BY <1>1, Zenon DEF If, Mark
  <2>2. s \o << >> = s
    BY <1>a, ConcatEmptySeq
  <2>3. Count(s, r) = Count(s, r) + 0
    BY <1>0
  <2>. QED BY <1>a, <2>1, <2>2, <2>3, Zenon
<1>2. CASE test
  <2>1. If(test, q) = <<q>>
    BY <1>2, Zenon DEF If
  <2>. DEFINE n == Len(s)
              t == s \o <<q>>
              T == {k \in DOMAIN s : s[k] = r}
              V == {k \in DOMAIN t : t[k] = r}
  <2>2. n \in Nat /\ DOMAIN s = 1 .. n
    BY <1>a, LenProperties
  <2>3. <<q>> \in Seq(S) /\ Len(<<q>>) = 1 /\ <<q>>[1] = q
    BY <1>a
  <2>4. /\ t \in Seq(S) /\ Len(t) = n + 1
        /\ \A i \in 1 .. n + 1 : t[i] = IF i <= n THEN s[i] ELSE <<q>>[i - n]
    BY <1>a, <2>3, ConcatProperties
  <2>5. DOMAIN t = 1 .. n + 1
    BY <2>4, LenProperties
  <2>. HIDE DEF t, n
  <2>6. t[n + 1] = q
    <3>1. n + 1 \in 1 .. n + 1 /\ ~(n + 1 <= n) /\ (n + 1) - n = 1
      BY <2>2
    <3>2. t[n + 1] = <<q>>[(n + 1) - n]
      BY <2>4, <3>1, Zenon
    <3>. QED BY <2>3, <3>1, <3>2, Zenon
  <2>7. \A i \in 1 .. n : t[i] = s[i]
    BY <2>2, <2>4
  <2>8. \A i \in 1 .. n + 1 : i \in 1 .. n \/ i = n + 1
    BY <2>2
  <2>9. IsFiniteSet(T) /\ Count(s, r) = Cardinality(T)
    BY <1>a, CountKnown DEF Count
  <2>10. n + 1 \notin T /\ n + 1 \in 1 .. n + 1
    BY <2>2
  <2>11. CASE q = r
    <3>1. V = T \cup {n + 1}
      BY <2>2, <2>5, <2>6, <2>7, <2>8, <2>11
    <3>2. Cardinality(V) = Cardinality(T) + 1
      <4>. HIDE DEF T, V
      <4>. QED BY <2>9, <2>10, <3>1, FS_AddElement
    <3>3. Mark(test /\ q = r) = 1
      BY <1>2, <2>11, Zenon DEF Mark
    <3>4. Count(t, r) = Cardinality(V)
      BY Zenon DEF Count
    <3>5. Count(t, r) = Count(s, r) + Mark(test /\ q = r)
      BY <2>9, <3>2, <3>3, <3>4, Zenon
    <3>. QED BY <2>1, <2>4, <3>5, Zenon DEF t
  <2>12. CASE q # r
    <3>1. V = T
      BY <2>2, <2>5, <2>6, <2>7, <2>8, <2>12
    <3>2. Mark(test /\ q = r) = 0
      BY <2>12, Zenon DEF Mark
    <3>3. Count(t, r) = Cardinality(V)
      BY Zenon DEF Count
    <3>4. Count(s, r) + 0 = Count(s, r)
      BY <1>0
    <3>5. Count(t, r) = Count(s, r) + Mark(test /\ q = r)
      <4>. HIDE DEF T, V
      <4>. QED BY <2>9, <3>1, <3>2, <3>3, <3>4, Zenon
    <3>. QED BY <2>1, <2>4, <3>5, Zenon DEF t
  <2>. QED BY <2>11, <2>12
<1>. QED BY <1>1, <1>2

\* The types of what is read and reported.
LEMMA OfTyped ==
  ASSUME NEW ps \in Seq(Texts)
  PROVE  /\ GoodOf(ps) \in Seq(Pairs)
         /\ Len(GoodOf(ps)) \in Nat /\ Len(ItemsOf(ps)) \in Nat /\ Len(Void(ps)) \in Nat
         /\ Len(BadOf(ps, 1)) \in Nat /\ Len(BadOf(ps, 2)) \in Nat
<1>1. GoodOf(ps) \in Seq(Pairs)
  BY OfKnown, OnlyKnown, Zenon DEF GoodOf
<1>2. ItemsOf(ps) \in Seq(Pairs)
  BY OfKnown, Zenon
<1>3. Void(ps) \in Seq(Texts)
  BY OnlyKnown, Zenon DEF Void
<1>4. \A j \in {1, 2} : BadOf(ps, j) \in Seq(Texts)
  BY OfKnown, OnlyKnown, Zenon DEF BadOf
<1>5. BadOf(ps, 1) \in Seq(Texts) /\ BadOf(ps, 2) \in Seq(Texts)
  BY <1>4
<1>. QED BY <1>1, <1>2, <1>3, <1>5, LenProperties

-----------------------------------------------------------------------------
(*****************************************************************************)
(* The loop over a query                                                     *)
(*****************************************************************************)

\* 1 if the text ends with an '&', which the code reports once more.
LastAmp(text) == Mark(text # << >> /\ text[Len(text)] = Ampersand)
\* The uncommon names and values.
Bad(ps) == Len(BadOf(ps, 1)) + Len(BadOf(ps, 2))

\* What the loop over the pieces has done of them when it is at place i.
At(text, i) ==
  /\ text \in Seq(Byte)
  /\ i \in 1 .. Len(text) + 2
  /\ i \in 2 .. Len(text) + 1 => text[i - 1] = Ampersand
  /\ i = Len(text) + 2 => Len(text) > 0 /\ text[Len(text)] # Ampersand
\* The items so far, with those of what is left, are all; and so with the rules.
Inspected(P, L, its) == its \in Seq(Pairs) /\ GoodOf(P) = its \o GoodOf(L)
Counted(P, L, E, rs) ==
  /\ rs \in Seq(Int)
  /\ Count(rs, 20) + Len(ItemsOf(L)) + Len(GoodOf(P)) = Len(ItemsOf(P)) + Len(GoodOf(L))
  /\ Count(rs, 10) + Bad(L) - Bad(P) \in {0, 1}
  /\ Count(rs, 12) + Len(Void(L)) = Len(Void(P)) + E
Reading(text, i, its, rs) ==
  /\ At(text, i)
  /\ Inspected(Left(text, 1), Left(text, i), its)
  /\ Counted(Left(text, 1), Left(text, i), LastAmp(text), rs)

\* A mark is 0 or 1.
LEMMA MarkKnown == ASSUME NEW test PROVE Mark(test) \in {0, 1}
BY DEF Mark

\* At the start, all is left.
LEMMA StartReads ==
  ASSUME NEW text \in Seq(Byte), NEW nulls
  PROVE  Reading(text, 1, << >>,
                 If(nulls, 10) \o If(text # << >> /\ text[Len(text)] = Ampersand, 12))
<1>. DEFINE n == Len(text)
            P == Left(text, 1)
            test == text # << >> /\ text[Len(text)] = Ampersand
            one == If(nulls, 10)
            rs == one \o If(test, 12)
<1>1. n \in Nat
  BY LenProperties
<1>2. At(text, 1)
  BY <1>1 DEF At
<1>3. P \in Seq(Texts)
  <2>1. 1 \in 1 .. n + 2
    BY <1>1
  <2>. QED BY <2>1, LeftIs, Zenon
<1>4. Inspected(P, P, << >>)
  <2>1. GoodOf(P) \in Seq(Pairs)
    BY <1>3, OfTyped, Zenon
  <2>2. << >> \in Seq(Pairs) /\ GoodOf(P) = << >> \o GoodOf(P)
    BY <2>1, ConcatEmptySeq, EmptySeq
  <2>. QED BY <2>2, Zenon DEF Inspected
<1>5. << >> \in Seq(Int) /\ 10 \in Int /\ 12 \in Int
  BY EmptySeq
<1>6. one \in Seq(Int) /\ \A r : Count(one, r) = 0 + Mark(nulls /\ 10 = r)
  <2>1. << >> \o one \in Seq(Int)
        /\ \A r : Count(<< >> \o one, r) = Count(<< >>, r) + Mark(nulls /\ 10 = r)
    <3>. DEFINE e == << >>
    <3>1. e \in Seq(Int)
      BY <1>5
    <3>. HIDE DEF e
    <3>2. /\ e \o If(nulls, 10) \in Seq(Int)
          /\ \A r : Count(e \o If(nulls, 10), r) = Count(e, r) + Mark(nulls /\ 10 = r)
      BY <1>5, <3>1, CountIf
    <3>. QED BY <3>2 DEF e
  <2>2. << >> \o one = one
    BY ConcatEmptySeq, OneKnown, <1>5 DEF If
  <2>. QED BY <2>1, <2>2, CountNone
<1>. HIDE DEF one, test
<1>7. rs \in Seq(Int) /\ \A r : Count(rs, r) = Count(one, r) + Mark(test /\ 12 = r)
  BY <1>5, <1>6, CountIf
<1>. HIDE DEF rs
<1>8. Count(rs, 20) = 0 /\ Count(rs, 10) \in {0, 1} /\ Count(rs, 12) = Mark(test)
  <2>1. /\ Count(rs, 20) = (0 + Mark(nulls /\ 10 = 20)) + Mark(test /\ 12 = 20)
        /\ Count(rs, 10) = (0 + Mark(nulls /\ 10 = 10)) + Mark(test /\ 12 = 10)
        /\ Count(rs, 12) = (0 + Mark(nulls /\ 10 = 12)) + Mark(test /\ 12 = 12)
    BY <1>6, <1>7
  <2>. QED BY <2>1 DEF Mark
<1>9. Counted(P, P, Mark(test), rs)
  <2>. HIDE DEF P
  <2>1. /\ Len(GoodOf(P)) \in Nat /\ Len(ItemsOf(P)) \in Nat /\ Len(Void(P)) \in Nat
        /\ Bad(P) \in Nat
    BY <1>3, OfTyped DEF Bad
  <2>2. Mark(test) \in Nat
    BY MarkKnown
  <2>. QED BY <1>7, <1>8, <2>1, <2>2 DEF Counted
<1>. QED BY <1>2, <1>4, <1>9, Zenon DEF Reading, LastAmp, P, rs, one, test

\* At an '&', an empty piece is reported, and nothing else.
LEMMA EmptyReads ==
  ASSUME NEW text, NEW i, NEW its, NEW rs, Reading(text, i, its, rs),
         i <= Len(text), text[i] = Ampersand
  PROVE  Reading(text, i + 1, its, Append(rs, 12))
<1>. DEFINE n == Len(text)
            P == Left(text, 1)
            L == Left(text, i)
            M == Left(text, i + 1)
            E == LastAmp(text)
<1>1. At(text, i) /\ Inspected(P, L, its) /\ Counted(P, L, E, rs)
  BY Zenon DEF Reading
<1>2. text \in Seq(Byte) /\ i \in 1 .. n + 2
  BY <1>1 DEF At
<1>3. n \in Nat
  BY <1>2, LenProperties
<1>. HIDE DEF n
<1>0. n = Len(text)
  BY DEF n
<1>4. i \in 1 .. n /\ i \in 1 .. n + 1 /\ i + 1 \in 1 .. n + 2 /\ i + 1 # n + 2
      /\ (i + 1) - 1 = i /\ 1 \in 1 .. n + 2
  BY <1>0, <1>2, <1>3
<1>5. At(text, i + 1)
  BY <1>0, <1>2, <1>4, Zenon DEF At
<1>6. NextOf(text, Ampersand, i) = i
  <2>. DEFINE e == NextOf(text, Ampersand, i)
  <2>1. e \in i .. n + 1 /\ \A k \in i .. n : k < e => text[k] # Ampersand
    BY <1>0, <1>2, <1>4, NextIs, Zenon
  <2>. HIDE DEF e
  <2>2. i \in i .. n
    BY <1>4
  <2>3. ~(i < e)
    BY <2>1, <2>2, Zenon
  <2>4. e = i
    BY <1>4, <2>1, <2>3
  <2>. QED BY <2>4 DEF e
<1>7. SubSeq(text, i, i - 1) = << >>
  <2>1. i \in Int /\ i - 1 \in Int /\ i - 1 < i
    BY <1>4
  <2>. QED BY <2>1, SubSeqEmpty
<1>8. Longer(L, Texts, << >>, M) /\ P \in Seq(Texts) /\ L \in Seq(Texts) /\ M \in Seq(Texts)
  BY <1>0, <1>2, <1>4, <1>6, <1>7, LeftIs, Zenon
<1>. HIDE DEF P, L, M, E
<1>9. /\ GoodOf(L) = GoodOf(M) /\ ItemsOf(L) = ItemsOf(M)
      /\ BadOf(L, 1) = BadOf(M, 1) /\ BadOf(L, 2) = BadOf(M, 2)
      /\ Len(Void(L)) = 1 + Len(Void(M))
  <2>1. 1 \in {1, 2} /\ 2 \in {1, 2}
    OBVIOUS
  <2>. QED BY <1>8, <2>1, VoidPiece, Zenon
<1>10. Inspected(P, M, its)
  BY <1>1, <1>9, Zenon DEF Inspected
<1>11. Bad(M) = Bad(L)
  BY <1>9, Zenon DEF Bad
<1>12. /\ Append(rs, 12) \in Seq(Int)
       /\ \A r : Count(Append(rs, 12), r) = Count(rs, r) + Mark(12 = r)
       /\ \A r : Count(rs, r) \in Nat
  <2>1. rs \in Seq(Int) /\ 12 \in Int
    BY <1>1 DEF Counted
  <2>2. Append(rs, 12) = rs \o If(TRUE, 12)
    <3>1. Append(rs, 12) = rs \o <<12>>
      BY <2>1
    <3>. QED BY <3>1, Zenon DEF If
  <2>3. /\ rs \o If(TRUE, 12) \in Seq(Int)
        /\ \A r : Count(rs \o If(TRUE, 12), r) = Count(rs, r) + Mark(TRUE /\ 12 = r)
    BY <2>1, CountIf
  <2>4. \A r : Mark(TRUE /\ 12 = r) = Mark(12 = r)
    BY DEF Mark
  <2>5. \A r : Count(rs, r) \in Nat
    BY <2>1, CountKnown
  <2>. QED BY <2>2, <2>3, <2>4, <2>5
<1>. DEFINE rs2 == Append(rs, 12)
<1>13. /\ Count(rs2, 20) = Count(rs, 20) /\ Count(rs2, 10) = Count(rs, 10)
       /\ Count(rs2, 12) = Count(rs, 12) + 1
  <2>. HIDE DEF rs2
  <2>1. /\ Count(rs2, 20) = Count(rs, 20) + Mark(12 = 20)
        /\ Count(rs2, 10) = Count(rs, 10) + Mark(12 = 10)
        /\ Count(rs2, 12) = Count(rs, 12) + Mark(12 = 12)
        /\ Count(rs, 20) \in Nat /\ Count(rs, 10) \in Nat
    BY <1>12 DEF rs2
  <2>. QED BY <2>1 DEF Mark
<1>14. Counted(P, M, E, rs2)
  <2>1. Len(Void(M)) \in Nat /\ Len(Void(P)) \in Nat /\ E \in Nat
        /\ Count(rs, 12) \in Nat
    <3>1. E \in {0, 1}
      BY MarkKnown DEF E, LastAmp
    <3>2. E \in Nat
      BY <3>1
    <3>3. Len(Void(M)) \in Nat /\ Len(Void(P)) \in Nat
      BY <1>8, OfTyped, Zenon
    <3>. QED BY <1>12, <3>2, <3>3, Zenon
  <2>2. Count(rs2, 12) + Len(Void(M)) = Len(Void(P)) + E
    <3>1. Count(rs, 12) + Len(Void(L)) = Len(Void(P)) + E
      BY <1>1, Zenon DEF Counted
    <3>. HIDE DEF rs2
    <3>. QED BY <1>9, <1>13, <2>1, <3>1
  <2>. HIDE DEF rs2
  <2>3. rs2 \in Seq(Int)
    BY <1>12 DEF rs2
  <2>. QED BY <1>1, <1>9, <1>11, <1>13, <2>2, <2>3, Zenon DEF Counted
<1>. QED BY <1>5, <1>10, <1>14, Zenon DEF Reading, P, M, E

\* What the code makes of a pair, and what the references say of it.
LEMMA PairReads ==
  ASSUME NEW v \in Pairs
  PROVE  /\ DecodedItem(v) = <<naxsi_unescape(v[1]).text, naxsi_unescape(v[2]).text>>
         /\ \/ utf8_check(naxsi_unescape(v[1]).text)
               /\ utf8_check(naxsi_unescape(v[2]).text) /\ DecodedItem(v) \in GoodUtf8
            \/ ~(utf8_check(naxsi_unescape(v[1]).text)
                 /\ utf8_check(naxsi_unescape(v[2]).text)) /\ DecodedItem(v) \notin GoodUtf8
         /\ naxsi_unescape(v[1]).count > 0 <=> v[1] \in UncommonTexts
         /\ naxsi_unescape(v[2]).count > 0 <=> v[2] \in UncommonTexts
<1>1. v[1] \in Texts /\ v[2] \in Texts
  BY DEF Pairs
<1>. DEFINE a == Decoded(v[1])
            b == Decoded(v[2])
<1>2. naxsi_unescape(v[1]).text = a /\ naxsi_unescape(v[2]).text = b
  BY <1>1, Unescaped, Zenon DEF Texts
<1>3. a \in Texts /\ b \in Texts
  BY <1>1, DecodedKnown, Zenon DEF Texts
<1>4. DecodedItem(v) = <<a, b>>
  BY Zenon DEF DecodedItem
<1>. HIDE DEF a, b
<1>5. (utf8_check(a) <=> IsUtf8(a)) /\ (utf8_check(b) <=> IsUtf8(b))
  BY <1>3, Utf8Checked, Zenon DEF Texts
<1>6. <<a, b>> \in Texts \X Texts /\ <<a, b>>[1] = a /\ <<a, b>>[2] = b
  BY <1>3
<1>7. <<a, b>> \in GoodUtf8 <=> IsUtf8(a) /\ IsUtf8(b)
  <2>. DEFINE w == <<a, b>>
  <2>1. w \in Texts \X Texts /\ w[1] = a /\ w[2] = b
    BY <1>6
  <2>. HIDE DEF w
  <2>2. w \in GoodUtf8 <=> IsUtf8(w[1]) /\ IsUtf8(w[2])
    BY <2>1, Zenon DEF GoodUtf8
  <2>3. w \in GoodUtf8 <=> IsUtf8(a) /\ IsUtf8(b)
    BY <2>1, <2>2, Zenon
  <2>. QED BY <2>3 DEF w
<1>8. ASSUME NEW t \in Texts
      PROVE  naxsi_unescape(t).count > 0 <=> t \in UncommonTexts
  <2>1. naxsi_unescape(t).count > 0 <=> Uncommon(t)
    BY Unescaped, Zenon DEF Texts
  <2>. QED BY <2>1, Zenon DEF UncommonTexts
<1>9. /\ naxsi_unescape(v[1]).count > 0 <=> v[1] \in UncommonTexts
      /\ naxsi_unescape(v[2]).count > 0 <=> v[2] \in UncommonTexts
  BY <1>1, <1>8, Zenon
<1>. QED BY <1>2, <1>4, <1>5, <1>7, <1>9, Zenon

\* The rules a piece raises are counted.
Three(rs, a, b, c, rs2) ==
  rs \in Seq(Int) /\ rs2 = rs \o If(a, 10) \o If(b, 10) \o If(c, 20)
\* What is counted then.
ThreeAdded(rs, a, b, c, rs2) ==
  /\ rs2 \in Seq(Int)
  /\ Count(rs, 10) \in Nat /\ Count(rs, 12) \in Nat /\ Count(rs, 20) \in Nat
  /\ Count(rs2, 10) = Count(rs, 10) + Mark(a) + Mark(b)
  /\ Count(rs2, 12) = Count(rs, 12)
  /\ Count(rs2, 20) = Count(rs, 20) + Mark(c)

\* They are counted.
LEMMA ThreeCounted ==
  ASSUME NEW rs, NEW a, NEW b, NEW c, NEW rs2, Three(rs, a, b, c, rs2)
  PROVE  ThreeAdded(rs, a, b, c, rs2)
<1>0. rs \in Seq(Int) /\ rs2 = rs \o If(a, 10) \o If(b, 10) \o If(c, 20)
  BY Zenon DEF Three
<1>. DEFINE x == rs \o If(a, 10)
            y == x \o If(b, 10)
            z == y \o If(c, 20)
<1>1. x \in Seq(Int) /\ \A r : Count(x, r) = Count(rs, r) + Mark(a /\ 10 = r)
  BY <1>0, CountIf
<1>. HIDE DEF x
<1>2. y \in Seq(Int) /\ \A r : Count(y, r) = Count(x, r) + Mark(b /\ 10 = r)
  BY <1>1, CountIf
<1>. HIDE DEF y
<1>3. z \in Seq(Int) /\ \A r : Count(z, r) = Count(y, r) + Mark(c /\ 20 = r)
  BY <1>2, CountIf
<1>. HIDE DEF z
<1>4. Count(rs, 10) \in Nat /\ Count(rs, 12) \in Nat /\ Count(rs, 20) \in Nat
  BY <1>0, CountKnown
<1>5. /\ Count(z, 10) = ((Count(rs, 10) + Mark(a /\ 10 = 10)) + Mark(b /\ 10 = 10)) + Mark(c /\ 20 = 10)
      /\ Count(z, 12) = ((Count(rs, 12) + Mark(a /\ 10 = 12)) + Mark(b /\ 10 = 12)) + Mark(c /\ 20 = 12)
      /\ Count(z, 20) = ((Count(rs, 20) + Mark(a /\ 10 = 20)) + Mark(b /\ 10 = 20)) + Mark(c /\ 20 = 20)
  BY <1>1, <1>2, <1>3
<1>6. /\ Count(z, 10) = Count(rs, 10) + Mark(a) + Mark(b)
      /\ Count(z, 12) = Count(rs, 12)
      /\ Count(z, 20) = Count(rs, 20) + Mark(c)
  BY <1>4, <1>5 DEF Mark
<1>7. rs2 = z
  BY <1>0, Zenon DEF x, y, z
<1>. QED BY <1>3, <1>4, <1>6, <1>7, Zenon DEF ThreeAdded

\* Concatenation is associative, for items.
LEMMA PairAssoc ==
  ASSUME NEW s \in Seq(Pairs), NEW t \in Seq(Pairs), NEW x \in Seq(Pairs)
  PROVE  (s \o t) \o x = s \o (t \o x)
BY SeqAssoc

\* An item is appended.
LEMMA PairAppend ==
  ASSUME NEW s \in Seq(Pairs), NEW x \in Pairs
  PROVE  Append(s, x) = s \o <<x>>
OBVIOUS

\* At another byte, the piece is read or reported.
LEMMA PieceReads ==
  ASSUME NEW text, NEW i, NEW its, NEW rs, Reading(text, i, its, rs),
         i <= Len(text), text[i] # Ampersand, NEW v, v = SplitAt(text, i), NEW utf8,
         utf8 \in BOOLEAN,
         utf8 <=> utf8_check(naxsi_unescape(v[1]).text)
                  /\ utf8_check(naxsi_unescape(v[2]).text)
  PROVE  Reading(text, NextOf(text, Ampersand, i) + 1,
                 IF utf8
                 THEN Append(its, <<naxsi_unescape(v[1]).text, naxsi_unescape(v[2]).text>>)
                 ELSE its,
                 rs \o If(naxsi_unescape(v[1]).count > 0, 10)
                    \o If(naxsi_unescape(v[2]).count > 0, 10) \o If(~utf8, 20))
<1>. DEFINE n == Len(text)
            e == NextOf(text, Ampersand, i)
            p == PieceAt(text, i)
            P == Left(text, 1)
            L == Left(text, i)
            M == Left(text, e + 1)
            E == LastAmp(text)
            a == naxsi_unescape(v[1]).count > 0
            b == naxsi_unescape(v[2]).count > 0
            d == <<naxsi_unescape(v[1]).text, naxsi_unescape(v[2]).text>>
            its2 == IF utf8 THEN Append(its, d) ELSE its
            rs2 == rs \o If(a, 10) \o If(b, 10) \o If(~utf8, 20)
<1>1. At(text, i) /\ Inspected(P, L, its) /\ Counted(P, L, E, rs)
  BY Zenon DEF Reading
<1>2. text \in Seq(Byte) /\ i \in 1 .. n + 2
  BY <1>1 DEF At
<1>3. n \in Nat
  BY <1>2, LenProperties
<1>4. i \in 1 .. n /\ i \in 1 .. n + 1 /\ 1 \in 1 .. n + 2
  BY <1>2, <1>3
<1>5. /\ e \in i .. n + 1 /\ (e <= n => text[e] = Ampersand)
      /\ \A k \in i .. n : k < e => text[k] # Ampersand
  BY <1>2, <1>4, NextIs, Zenon
<1>6. v = NameValue(p) /\ p \in Texts /\ p # << >>
  BY <1>2, <1>4, SplitIs, Zenon
<1>7. v \in Pairs
  BY <1>6, NameValueKnown, Zenon
<1>8. /\ DecodedItem(v) = d /\ (utf8 <=> d \in GoodUtf8)
      /\ (a <=> v[1] \in UncommonTexts) /\ (b <=> v[2] \in UncommonTexts)
  BY <1>7, PairReads, Zenon
<1>9. At(text, e + 1)
  <2>. HIDE DEF n, e
  <2>1. e + 1 \in 1 .. n + 2 /\ (e + 1) - 1 = e
    BY <1>3, <1>4, <1>5
  <2>2. e + 1 \in 2 .. n + 1 => text[(e + 1) - 1] = Ampersand
    <3>1. e + 1 \in 2 .. n + 1 => e <= n
      BY <1>3, <1>4, <1>5
    <3>. QED BY <1>5, <2>1, <3>1, Zenon
  <2>3. e + 1 = n + 2 => n > 0 /\ text[n] # Ampersand
    <3>1. ASSUME e + 1 = n + 2
          PROVE  n > 0 /\ n \in i .. n /\ n < e
      BY <1>3, <1>4, <1>5, <3>1
    <3>. QED BY <1>5, <3>1
  <2>. QED BY <1>2, <2>1, <2>2, <2>3, Zenon DEF At, n
<1>10. Longer(L, Texts, p, M) /\ P \in Seq(Texts) /\ L \in Seq(Texts) /\ M \in Seq(Texts)
  <2>1. e + 1 \in 1 .. n + 2
    <3>. HIDE DEF n, e
    <3>. QED BY <1>3, <1>4, <1>5
  <2>. QED BY <1>2, <1>4, <2>1, LeftIs, Zenon DEF PieceAt
<1>. HIDE DEF n, e, p, P, L, M, E, a, b, d, its2, rs2
<1>11. /\ d \in Pairs
       /\ GoodOf(L) = One(utf8, d) \o GoodOf(M)
       /\ Len(GoodOf(L)) = Mark(utf8) + Len(GoodOf(M))
       /\ Len(ItemsOf(L)) = 1 + Len(ItemsOf(M))
       /\ Len(BadOf(L, 1)) = Mark(a) + Len(BadOf(M, 1))
       /\ Len(BadOf(L, 2)) = Mark(b) + Len(BadOf(M, 2))
       /\ Void(L) = Void(M)
  <2>1. 1 \in {1, 2} /\ 2 \in {1, 2}
    OBVIOUS
  <2>2. /\ d \in Pairs
        /\ GoodOf(L) = One(d \in GoodUtf8, d) \o GoodOf(M)
        /\ Len(GoodOf(L)) = Mark(d \in GoodUtf8) + Len(GoodOf(M))
        /\ Len(ItemsOf(L)) = 1 + Len(ItemsOf(M))
        /\ Len(BadOf(L, 1)) = Mark(v[1] \in UncommonTexts) + Len(BadOf(M, 1))
        /\ Len(BadOf(L, 2)) = Mark(v[2] \in UncommonTexts) + Len(BadOf(M, 2))
        /\ Void(L) = Void(M)
    <3>1. /\ DecodedItem(NameValue(p)) \in Pairs
          /\ GoodOf(L) = One(DecodedItem(NameValue(p)) \in GoodUtf8,
                             DecodedItem(NameValue(p))) \o GoodOf(M)
          /\ Len(GoodOf(L)) = Mark(DecodedItem(NameValue(p)) \in GoodUtf8) + Len(GoodOf(M))
          /\ Len(ItemsOf(L)) = 1 + Len(ItemsOf(M))
          /\ Len(BadOf(L, 1)) = Mark(NameValue(p)[1] \in UncommonTexts) + Len(BadOf(M, 1))
          /\ Len(BadOf(L, 2)) = Mark(NameValue(p)[2] \in UncommonTexts) + Len(BadOf(M, 2))
          /\ Void(L) = Void(M)
      BY <1>6, <1>10, <2>1, FullPiece, ZenonT(60)
    <3>2. DecodedItem(NameValue(p)) = d /\ NameValue(p) = v
      BY <1>6, <1>8, Zenon
    <3>. QED BY <3>1, <3>2, Zenon
  <2>3. /\ One(d \in GoodUtf8, d) = One(utf8, d) /\ Mark(d \in GoodUtf8) = Mark(utf8)
        /\ Mark(v[1] \in UncommonTexts) = Mark(a) /\ Mark(v[2] \in UncommonTexts) = Mark(b)
    BY <1>8, Zenon DEF One, Mark
  <2>. QED BY <2>2, <2>3, Zenon
<1>12. /\ its \in Seq(Pairs) /\ GoodOf(P) = its \o GoodOf(L) /\ rs \in Seq(Int)
       /\ Count(rs, 20) + Len(ItemsOf(L)) + Len(GoodOf(P)) = Len(ItemsOf(P)) + Len(GoodOf(L))
       /\ Count(rs, 10) + Bad(L) - Bad(P) \in {0, 1}
       /\ Count(rs, 12) + Len(Void(L)) = Len(Void(P)) + E
  BY <1>1, Zenon DEF Inspected, Counted
<1>13. Inspected(P, M, its2)
  <2>1. its2 = its \o One(utf8, d)
    <3>1. CASE utf8
      <4>1. Append(its, d) = its \o <<d>>
        BY <1>11, <1>12, PairAppend, Zenon
      <4>. QED BY <3>1, <4>1, Zenon DEF its2, One
    <3>2. CASE ~utf8
      <4>1. its \o << >> = its
        BY <1>12, ConcatEmptySeq
      <4>. QED BY <3>2, <4>1, Zenon DEF its2, One
    <3>. QED BY <3>1, <3>2
  <2>2. One(utf8, d) \in Seq(Pairs) /\ GoodOf(M) \in Seq(Pairs)
    BY <1>10, <1>11, OneKnown, OfTyped, Zenon
  <2>3. its \o One(utf8, d) \in Seq(Pairs)
    BY <1>12, <2>2, ConcatProperties
  <2>4. (its \o One(utf8, d)) \o GoodOf(M) = its \o (One(utf8, d) \o GoodOf(M))
    <3>. DEFINE o == One(utf8, d)
                g == GoodOf(M)
    <3>. HIDE DEF o, g
    <3>1. o \in Seq(Pairs) /\ g \in Seq(Pairs)
      BY <2>2 DEF o, g
    <3>2. (its \o o) \o g = its \o (o \o g)
      BY <1>12, <3>1, PairAssoc, Zenon
    <3>. QED BY <3>2 DEF o, g
  <2>. QED BY <1>11, <1>12, <2>1, <2>3, <2>4, Zenon DEF Inspected
<1>14. /\ rs2 \in Seq(Int)
       /\ Count(rs, 10) \in Nat /\ Count(rs, 12) \in Nat /\ Count(rs, 20) \in Nat
       /\ Count(rs2, 10) = Count(rs, 10) + Mark(a) + Mark(b)
       /\ Count(rs2, 12) = Count(rs, 12)
       /\ Count(rs2, 20) = Count(rs, 20) + Mark(~utf8)
  <2>1. Three(rs, a, b, ~utf8, rs2)
    BY <1>12, Zenon DEF rs2, Three
  <2>2. ThreeAdded(rs, a, b, ~utf8, rs2)
    BY <2>1, ThreeCounted, Zenon
  <2>. QED BY <2>2, Zenon DEF ThreeAdded
<1>15. /\ Mark(a) \in {0, 1} /\ Mark(b) \in {0, 1} /\ Mark(utf8) \in {0, 1}
       /\ Mark(~utf8) = 1 - Mark(utf8)
  BY DEF Mark
<1>16. /\ Len(GoodOf(P)) \in Nat /\ Len(ItemsOf(P)) \in Nat
       /\ Len(BadOf(P, 1)) \in Nat /\ Len(BadOf(P, 2)) \in Nat
       /\ Len(GoodOf(M)) \in Nat /\ Len(ItemsOf(M)) \in Nat
       /\ Len(BadOf(M, 1)) \in Nat /\ Len(BadOf(M, 2)) \in Nat
  BY <1>10, OfTyped, Zenon
<1>. DEFINE ma == Mark(a)
            mb == Mark(b)
            mu == Mark(utf8)
            mn == Mark(~utf8)
<1>22. /\ ma \in {0, 1} /\ mb \in {0, 1} /\ mu \in {0, 1} /\ mn = 1 - mu
       /\ Len(GoodOf(L)) = mu + Len(GoodOf(M)) /\ Len(ItemsOf(L)) = 1 + Len(ItemsOf(M))
       /\ Len(BadOf(L, 1)) = ma + Len(BadOf(M, 1))
       /\ Len(BadOf(L, 2)) = mb + Len(BadOf(M, 2))
       /\ Count(rs2, 10) = Count(rs, 10) + ma + mb
       /\ Count(rs2, 20) = Count(rs, 20) + mn
       /\ Count(rs, 10) \in Nat /\ Count(rs, 20) \in Nat
  BY <1>11, <1>14, <1>15, Zenon
<1>23. /\ Count(rs, 20) + Len(ItemsOf(L)) + Len(GoodOf(P)) = Len(ItemsOf(P)) + Len(GoodOf(L))
       /\ Count(rs, 10) + Bad(L) - Bad(P) \in {0, 1}
  BY <1>12, Zenon
<1>. HIDE DEF ma, mb, mu, mn
<1>17. Count(rs2, 20) + Len(ItemsOf(M)) + Len(GoodOf(P)) = Len(ItemsOf(P)) + Len(GoodOf(M))
  <2>. DEFINE c == Count(rs, 20)
              c2 == Count(rs2, 20)
              gp == Len(GoodOf(P))
              ip == Len(ItemsOf(P))
              gm == Len(GoodOf(M))
              im == Len(ItemsOf(M))
              gl == Len(GoodOf(L))
              il == Len(ItemsOf(L))
  <2>1. /\ c \in Nat /\ gp \in Nat /\ ip \in Nat /\ gm \in Nat /\ im \in Nat
        /\ mu \in {0, 1} /\ mn = 1 - mu /\ c2 = c + mn
        /\ gl = mu + gm /\ il = 1 + im /\ c + il + gp = ip + gl
    BY <1>16, <1>22, <1>23, Zenon
  <2>. HIDE DEF c, c2, gp, ip, gm, im, gl, il
  <2>2. c2 + im + gp = ip + gm
    BY <2>1
  <2>. QED BY <2>2, Zenon DEF c2, im, gp, ip, gm
<1>18. Count(rs2, 10) + Bad(M) - Bad(P) \in {0, 1}
  <2>. DEFINE c == Count(rs, 10)
              c2 == Count(rs2, 10)
              p1 == Len(BadOf(P, 1))
              p2 == Len(BadOf(P, 2))
              m1 == Len(BadOf(M, 1))
              m2 == Len(BadOf(M, 2))
              l1 == Len(BadOf(L, 1))
              l2 == Len(BadOf(L, 2))
  <2>1. /\ c \in Nat /\ p1 \in Nat /\ p2 \in Nat /\ m1 \in Nat /\ m2 \in Nat
        /\ ma \in {0, 1} /\ mb \in {0, 1} /\ c2 = c + ma + mb
        /\ l1 = ma + m1 /\ l2 = mb + m2
    BY <1>16, <1>22, Zenon
  <2>2. c + (l1 + l2) - (p1 + p2) \in {0, 1}
    BY <1>23, Zenon DEF Bad
  <2>. HIDE DEF c, c2, p1, p2, m1, m2, l1, l2
  <2>3. c2 + (m1 + m2) - (p1 + p2) = c + (l1 + l2) - (p1 + p2)
    BY <2>1
  <2>4. c2 + (m1 + m2) - (p1 + p2) \in {0, 1}
    BY <2>2, <2>3, Zenon
  <2>. QED BY <2>4, Zenon DEF c2, m1, m2, p1, p2, Bad
<1>19. Count(rs2, 12) + Len(Void(M)) = Len(Void(P)) + E
  BY <1>11, <1>12, <1>14, Zenon
<1>20. Counted(P, M, E, rs2)
  BY <1>14, <1>17, <1>18, <1>19, Zenon DEF Counted
<1>21. Reading(text, e + 1, its2, rs2)
  BY <1>9, <1>13, <1>20, Zenon DEF Reading, P, M, E
<1>. QED BY <1>21, Zenon DEF e, its2, rs2, d, a, b

\* What the loop has done when it is at the end.
LEMMA EndReads ==
  ASSUME NEW text, NEW i, NEW its, NEW rs, Reading(text, i, its, rs), i > Len(text),
         NEW P, P = Left(text, 1)
  PROVE  /\ its = GoodOf(P)
         /\ Count(rs, 20) = Len(ItemsOf(P)) - Len(its)
         /\ Count(rs, 10) - Bad(P) \in {0, 1}
         /\ Count(rs, 12) = IF text = << >> THEN 0 ELSE Len(Void(P))
<1>. DEFINE n == Len(text)
            L == Left(text, i)
            E == LastAmp(text)
<1>1. At(text, i) /\ Inspected(P, L, its) /\ Counted(P, L, E, rs)
  BY Zenon DEF Reading
<1>2. text \in Seq(Byte) /\ i \in 1 .. n + 2
  BY <1>1 DEF At
<1>3. n \in Nat
  BY <1>2, LenProperties
<1>4. 1 \in 1 .. n + 2 /\ P \in Seq(Texts)
  <2>1. 1 \in 1 .. n + 2
    BY <1>3
  <2>. QED BY <1>2, <2>1, LeftIs, Zenon
<1>5. /\ its \in Seq(Pairs) /\ GoodOf(P) = its \o GoodOf(L) /\ rs \in Seq(Int)
      /\ Count(rs, 20) + Len(ItemsOf(L)) + Len(GoodOf(P)) = Len(ItemsOf(P)) + Len(GoodOf(L))
      /\ Count(rs, 10) + Bad(L) - Bad(P) \in {0, 1}
      /\ Count(rs, 12) + Len(Void(L)) = Len(Void(P)) + E
  BY <1>1, Zenon DEF Inspected, Counted
<1>6. /\ Len(GoodOf(P)) \in Nat /\ Len(ItemsOf(P)) \in Nat /\ Bad(P) \in Nat
      /\ Len(Void(P)) \in Nat /\ Count(rs, 12) \in Nat /\ Count(rs, 20) \in Nat
      /\ Count(rs, 10) \in Nat
  <2>1. /\ Len(GoodOf(P)) \in Nat /\ Len(ItemsOf(P)) \in Nat /\ Len(Void(P)) \in Nat
        /\ Len(BadOf(P, 1)) \in Nat /\ Len(BadOf(P, 2)) \in Nat
    BY <1>4, OfTyped, Zenon
  <2>2. Count(rs, 12) \in Nat /\ Count(rs, 20) \in Nat /\ Count(rs, 10) \in Nat
    BY <1>5, CountKnown
  <2>. QED BY <2>1, <2>2 DEF Bad
<1>7. Len(<< >>) = 0
  OBVIOUS
<1>8. i = n + 1 \/ i = n + 2
  BY <1>2, <1>3
<1>9. /\ GoodOf(L) = << >> /\ Len(GoodOf(L)) = 0 /\ Len(ItemsOf(L)) = 0 /\ Bad(L) = 0
      /\ Len(Void(L)) = IF i = n + 1 THEN 1 ELSE 0
  <2>. DEFINE z == << >>
  <2>1. /\ GoodOf(z) = << >> /\ Len(ItemsOf(z)) = 0 /\ Len(Void(z)) = 0
        /\ Len(BadOf(z, 1)) = 0 /\ Len(BadOf(z, 2)) = 0
    <3>1. 1 \in {1, 2} /\ 2 \in {1, 2}
      OBVIOUS
    <3>. QED BY <1>7, <3>1, NoPieces, Zenon
  <2>2. Left(text, n + 2) = z
    BY <1>2, LeftIs, Zenon
  <2>3. CASE i = n + 2
    <3>1. L = z /\ i # n + 1
      BY <1>3, <2>2, <2>3
    <3>2. Bad(L) = 0 + 0
      BY <2>1, <3>1, Zenon DEF Bad
    <3>3. Bad(L) = 0
      BY <3>2
    <3>. QED BY <1>7, <2>1, <3>1, <3>3, Zenon
  <2>4. CASE i = n + 1
    <3>. DEFINE e == NextOf(text, Ampersand, i)
    <3>1. e \in i .. n + 1 /\ i \in 1 .. n + 1
      <4>1. i \in 1 .. n + 1
        BY <1>3, <2>4
      <4>. QED BY <1>2, <4>1, NextIs, Zenon
    <3>2. e = i /\ e + 1 = n + 2
      <4>. HIDE DEF e, n
      <4>. QED BY <1>3, <2>4, <3>1
    <3>3. SubSeq(text, i, i - 1) = << >>
      <4>1. i \in Int /\ i - 1 \in Int /\ i - 1 < i
        BY <1>3, <2>4
      <4>. QED BY <4>1, SubSeqEmpty
    <3>4. Longer(L, Texts, << >>, z)
      BY <1>2, <2>2, <3>1, <3>2, <3>3, LeftIs, Zenon
    <3>. HIDE DEF z, L
    <3>5. /\ GoodOf(L) = GoodOf(z) /\ ItemsOf(L) = ItemsOf(z)
          /\ BadOf(L, 1) = BadOf(z, 1) /\ BadOf(L, 2) = BadOf(z, 2)
          /\ Len(Void(L)) = 1 + Len(Void(z))
      <4>1. 1 \in {1, 2} /\ 2 \in {1, 2}
        OBVIOUS
      <4>. QED BY <3>4, <4>1, VoidPiece, Zenon
    <3>6. Bad(L) = 0 + 0 /\ Len(Void(L)) = 1 + 0
      BY <2>1, <3>5, Zenon DEF Bad
    <3>7. Bad(L) = 0 /\ Len(Void(L)) = 1
      BY <3>6
    <3>. QED BY <1>7, <2>1, <2>4, <3>5, <3>7, Zenon
  <2>. QED BY <1>8, <2>3, <2>4
<1>10. GoodOf(P) = its
  <2>1. its \o << >> = its
    BY <1>5, ConcatEmptySeq
  <2>. QED BY <1>5, <1>9, <2>1, Zenon
<1>. HIDE DEF L, E, n
<1>11. Count(rs, 20) = Len(ItemsOf(P)) - Len(its)
  <2>1. Count(rs, 20) + Len(ItemsOf(L)) + Len(GoodOf(P)) = Len(ItemsOf(P)) + Len(GoodOf(L))
    BY <1>5, Zenon
  <2>2. Count(rs, 20) + 0 + Len(its) = Len(ItemsOf(P)) + 0 /\ Len(its) \in Nat
    BY <1>6, <1>9, <1>10, <2>1, Zenon
  <2>. QED BY <1>6, <2>2
<1>12. Count(rs, 10) - Bad(P) \in {0, 1}
  BY <1>5, <1>6, <1>9
<1>13. Count(rs, 12) = IF text = << >> THEN 0 ELSE Len(Void(P))
  <2>1. text = << >> <=> n = 0
    BY <1>2, <1>3 DEF n
  <2>2. CASE i = n + 2
    <3>1. n > 0 /\ text[n] # Ampersand
      BY <1>1, <2>2 DEF At, n
    <3>2. E = 0
      BY <3>1, Zenon DEF E, LastAmp, Mark, n
    <3>3. i # n + 1
      BY <1>3, <2>2
    <3>. QED BY <1>3, <1>5, <1>6, <1>9, <2>1, <3>1, <3>2, <3>3
  <2>3. CASE i = n + 1 /\ n # 0
    <3>1. i \in 2 .. n + 1 /\ i - 1 = n
      BY <1>3, <2>3
    <3>2. text[n] = Ampersand
      BY <1>1, <3>1, Zenon DEF At, n
    <3>3. E = 1
      BY <2>1, <2>3, <3>2, Zenon DEF E, LastAmp, Mark, n
    <3>. QED BY <1>3, <1>5, <1>6, <1>9, <2>1, <2>3, <3>3, SMTT(30)
  <2>4. CASE i = n + 1 /\ n = 0
    <3>1. E = 0 /\ text = << >>
      BY <2>1, <2>4, Zenon DEF E, LastAmp, Mark
    <3>2. Len(Void(P)) = 1
      <4>1. i = 1
        BY <2>4
      <4>2. P = L
        BY <4>1, Zenon DEF L
      <4>3. Len(Void(L)) = 1
        BY <1>9, <2>4
      <4>. QED BY <4>2, <4>3, Zenon
    <3>3. Count(rs, 12) + 1 = 1 + 0
      <4>1. Count(rs, 12) + Len(Void(L)) = Len(Void(P)) + E /\ Len(Void(L)) = 1
        BY <1>5, <1>9, <2>4
      <4>. QED BY <3>1, <3>2, <4>1, Zenon
    <3>4. Count(rs, 12) = 0
      BY <1>6, <3>3
    <3>. QED BY <3>1, <3>4, Zenon
  <2>. QED BY <1>8, <2>2, <2>3, <2>4
<1>. QED BY <1>10, <1>11, <1>12, <1>13

\* What a query's loop keeps: the pieces in front of the place were inspected
\* and reported, those behind it are left.
QueryRead ==
  kind = "query" =>
    IF pc = "start" THEN body \in Seq(Byte) /\ idx = 1 /\ items = << >>
    ELSE Reading(body, idx, items, raised) /\ (pc = "done" => idx > Len(body))

\* It holds at the start of the loop.
LEMMA QueryReadStarts == Init => QueryRead
<1>. SUFFICES ASSUME Init, kind = "query" PROVE QueryRead
  BY Zenon DEF QueryRead
<1>1. body \in Queries
  BY DEF Init
<1>2. body \in Seq(Byte)
  BY <1>1, ItemsAssumption
<1>. QED BY <1>2, Zenon DEF Init, QueryRead

\* Every step keeps it.
LEMMA QueryReadStays ==
  ASSUME QueryRead, [Next]_vars
  PROVE  QueryRead'
<1>1. CASE UNCHANGED vars
  BY <1>1, Zenon DEF vars, QueryRead
<1>2. CASE Multipart
  <2>1. kind' # "query"
    BY <1>2 DEF Multipart, MultipartStart, MultipartTop, MultipartHeader, MultipartData,
                multipart
  <2>. QED BY <2>1, Zenon DEF QueryRead
<1>3. CASE QueryStart
  <2>1. body \in Seq(Byte) /\ idx = 1 /\ items = << >>
    BY <1>3, Zenon DEF QueryStart, QueryRead
  <2>2. body' = escape_nullbytes(body) /\ idx' = 1 /\ items' = << >> /\ pc' = "piece"
    BY <1>3, <2>1, Zenon DEF QueryStart
  <2>3. body' \in Seq(Byte)
    BY <2>1, <2>2, EscapedKnown, Zenon
  <2>4. raised' = If(Nulls(body) # {}, 10)
                  \o If(body # << >> /\ body[Len(body)] = Ampersand, 12)
    BY <1>3, Zenon DEF QueryStart
  <2>5. (body # << >> /\ body[Len(body)] = Ampersand)
        <=> (body' # << >> /\ body'[Len(body')] = Ampersand)
    <3>1. /\ Len(body) \in Nat /\ DOMAIN body = 1 .. Len(body)
          /\ Len(body') \in Nat /\ DOMAIN body' = 1 .. Len(body')
      BY <2>1, <2>3, LenProperties
    <3>3. Len(body') = Len(body)
      BY <2>1, <2>2, EscapedKnown
    <3>4. body = << >> <=> Len(body) = 0
      BY <2>1
    <3>5. body' = << >> <=> Len(body') = 0
      BY <2>3
    <3>6. CASE body = << >>
      BY <3>3, <3>4, <3>5, <3>6
    <3>7. CASE body # << >>
      <4>1. body' # << >> /\ Len(body) \in DOMAIN body
        BY <3>1, <3>3, <3>4, <3>5, <3>7
      <4>2. body'[Len(body)] = IF body[Len(body)] = 0 THEN Zero ELSE body[Len(body)]
        BY <2>2, <4>1, Zenon DEF escape_nullbytes
      <4>3. body'[Len(body)] = Ampersand <=> body[Len(body)] = Ampersand
        <5>1. Zero # Ampersand /\ 0 # Ampersand
          BY DEF Zero, Ampersand
        <5>. QED BY <4>2, <5>1, Zenon
      <4>. QED BY <3>3, <3>7, <4>1, <4>3, Zenon
    <3>. QED BY <3>6, <3>7
  <2>6. raised' = If(Nulls(body) # {}, 10)
                  \o If(body' # << >> /\ body'[Len(body')] = Ampersand, 12)
    BY <2>4, <2>5, Zenon DEF If
  <2>7. Reading(body', 1, << >>, raised')
    <3>. DEFINE nulls == Nulls(body) # {}
    <3>1. raised' = If(nulls, 10) \o If(body' # << >> /\ body'[Len(body')] = Ampersand, 12)
      BY <2>6, Zenon
    <3>. HIDE DEF nulls
    <3>2. Reading(body', 1, << >>, If(nulls, 10)
                                   \o If(body' # << >> /\ body'[Len(body')] = Ampersand, 12))
      BY <2>3, StartReads, Zenon
    <3>. QED BY <3>1, <3>2, Zenon
  <2>. QED BY <2>2, <2>7 DEF QueryRead
<1>4. CASE QueryEmpty
  <2>1. /\ kind = "query" /\ pc = "piece" /\ pc' = "piece" /\ idx <= Len(body)
        /\ body[idx] = Ampersand /\ body' = body /\ idx' = idx + 1 /\ items' = items
        /\ raised' = Append(raised, 12)
    BY <1>4, Zenon DEF QueryEmpty, AtPiece
  <2>2. pc # "start" /\ pc' # "start" /\ pc' # "done"
    BY <2>1
  <2>3. Reading(body, idx, items, raised)
    BY <2>1, <2>2, Zenon DEF QueryRead
  <2>4. Reading(body, idx + 1, items, Append(raised, 12))
    BY <2>1, <2>3, EmptyReads, Zenon
  <2>. QED BY <2>1, <2>2, <2>4, Zenon DEF QueryRead
<1>5. CASE QueryPiece
  <2>. DEFINE v == Split
              x == naxsi_unescape(v[1])
              y == naxsi_unescape(v[2])
              utf8 == utf8_check(x.text) /\ utf8_check(y.text)
  <2>1. /\ kind = "query" /\ pc = "piece" /\ pc' = "piece" /\ idx <= Len(body)
        /\ body[idx] # Ampersand /\ body' = body
        /\ idx' = Find(Ampersand) + 1
    BY <1>5, Zenon DEF QueryPiece, AtPiece
  <2>2. /\ raised' = raised \o If(x.count > 0, 10) \o If(y.count > 0, 10) \o If(~utf8, 20)
        /\ items' = IF utf8 THEN Append(items, <<x.text, y.text>>) ELSE items
    BY <1>5, Zenon DEF QueryPiece
  <2>3. pc # "start" /\ pc' # "start" /\ pc' # "done"
    BY <2>1
  <2>4. Reading(body, idx, items, raised)
    BY <2>1, <2>3, Zenon DEF QueryRead
  <2>5. v = SplitAt(body, idx) /\ Find(Ampersand) = NextOf(body, Ampersand, idx)
    BY Zenon DEF Split, SplitAt, Find, NextOf
  <2>. DEFINE w == utf8
  <2>6. w \in BOOLEAN /\ (w <=> utf8_check(naxsi_unescape(v[1]).text)
                                /\ utf8_check(naxsi_unescape(v[2]).text))
    BY Zenon
  <2>7. /\ raised' = raised \o If(naxsi_unescape(v[1]).count > 0, 10)
                            \o If(naxsi_unescape(v[2]).count > 0, 10) \o If(~w, 20)
        /\ items' = IF w THEN Append(items, <<naxsi_unescape(v[1]).text, naxsi_unescape(v[2]).text>>)
                    ELSE items
    BY <2>2, Zenon
  <2>. HIDE DEF v, w
  <2>8. Reading(body, NextOf(body, Ampersand, idx) + 1,
                IF w THEN Append(items, <<naxsi_unescape(v[1]).text, naxsi_unescape(v[2]).text>>)
                ELSE items,
                raised \o If(naxsi_unescape(v[1]).count > 0, 10)
                       \o If(naxsi_unescape(v[2]).count > 0, 10) \o If(~w, 20))
    BY <2>1, <2>4, <2>5, <2>6, PieceReads, Zenon
  <2>9. Reading(body', idx', items', raised')
    BY <2>1, <2>5, <2>7, <2>8, Zenon
  <2>. QED BY <2>3, <2>9, Zenon DEF QueryRead
<1>6. CASE QueryEnd
  <2>1. /\ kind = "query" /\ pc = "piece" /\ pc' = "done" /\ idx > Len(body)
        /\ body' = body /\ idx' = idx /\ items' = items /\ raised' = raised
    BY <1>6, Zenon DEF QueryEnd, End
  <2>2. pc # "start" /\ pc' # "start"
    BY <2>1
  <2>3. Reading(body, idx, items, raised)
    BY <2>1, <2>2, Zenon DEF QueryRead
  <2>. QED BY <2>1, <2>2, <2>3, Zenon DEF QueryRead
<1>. QED BY <1>1, <1>2, <1>3, <1>4, <1>5, <1>6, Zenon DEF Next, Query

\* At the end, what was read is what the references give.
LEMMA QueryEnds ==
  ASSUME QueryRead, QueryDone
  PROVE  QueryInspected /\ QueryReported
<1>1. kind = "query" /\ pc = "done" /\ pc # "start"
  BY DEF QueryDone
<1>2. Reading(body, idx, items, raised) /\ idx > Len(body)
  BY <1>1, Zenon DEF QueryRead
<1>3. Pieces = Left(body, 1)
  <2>1. body \in Seq(Byte)
    BY <1>2, Zenon DEF Reading, At
  <2>2. ~(1 > Len(body) + 1)
    BY <2>1
  <2>3. Pieces = PiecesAt(body, 1)
    BY Zenon DEF Pieces, PiecesAt
  <2>. QED BY <2>2, <2>3, Zenon DEF Left
<1>. DEFINE P == Pieces
<1>4. /\ items = GoodOf(P)
      /\ Count(raised, 20) = Len(ItemsOf(P)) - Len(items)
      /\ Count(raised, 10) - Bad(P) \in {0, 1}
      /\ Count(raised, 12) = IF body = << >> THEN 0 ELSE Len(Void(P))
  <2>. HIDE DEF P
  <2>1. P = Left(body, 1)
    BY <1>3 DEF P
  <2>. QED BY <1>2, <2>1, EndReads
<1>5. NonEmpty = PairsOf(P)
  BY Zenon DEF NonEmpty, PairsOf, Full
<1>6. [k \in DOMAIN NonEmpty |-> DecodedItem(NonEmpty[k])] = ItemsOf(P)
  BY <1>5, Zenon DEF ItemsOf
<1>7. /\ Only([k \in DOMAIN NonEmpty |-> NonEmpty[k][1]], UncommonTexts) = BadOf(P, 1)
      /\ Only([k \in DOMAIN NonEmpty |-> NonEmpty[k][2]], UncommonTexts) = BadOf(P, 2)
  BY <1>5, Zenon DEF BadOf, Column
<1>8. \A r : Times(r) = Count(raised, r)
  BY Zenon DEF Times, Count
<1>9. QueryInspected
  BY <1>4, <1>6, <1>8, Zenon DEF QueryInspected, GoodOf
<1>10. QueryReported
  BY <1>4, <1>7, <1>8, Zenon DEF QueryReported, Bad, Void
<1>. QED BY <1>9, <1>10

\* Everything between the '&' of a query is inspected, once and in order, as
\* percent-decoding gives it, or reported for its UTF-8.
THEOREM QueryInspectedHolds == Spec => []QueryInspected
<1>1. QueryRead => QueryInspected
  <2>1. ~QueryDone => QueryInspected
    BY Zenon DEF QueryInspected
  <2>. QED BY <2>1, QueryEnds
<1>. QED BY <1>1, QueryReadStarts, QueryReadStays, PTL DEF Spec

\* Rule 10 is raised for each name or value that is uncommon, rule 12 for each
\* empty piece.
THEOREM QueryReportedHolds == Spec => []QueryReported
<1>1. QueryRead => QueryReported
  <2>1. ~QueryDone => QueryReported
    BY Zenon DEF QueryReported
  <2>. QED BY <2>1, QueryEnds
<1>. QED BY <1>1, QueryReadStarts, QueryReadStays, PTL DEF Spec

-----------------------------------------------------------------------------
(***************************************************************************)
(* Tokens                                                                  *)
(***************************************************************************)

\* The tokens of a multipart body.
Tokens == Marks \cup Params

\* Tokens are read at a place if they are there, one by one.
LEMMA ReadsIs ==
  ASSUME NEW S, body \in Seq(S), NEW i \in Nat \ {0}, NEW u \in Seq(S), u # << >>
  PROVE  Reads(i, u) <=> /\ i + Len(u) - 1 <= Len(body)
                         /\ \A k \in 1 .. Len(u) : body[i + k - 1] = u[k]
<1>. DEFINE n == Len(body)
            m == Len(u)
            s == SubSeq(body, i, n)
            v == SubSeq(s, 1, m)
            w == SubSeq(u, 1, m)
<1>1. n \in Nat /\ m \in Nat /\ m >= 1
  BY EmptySeq, LenProperties
<1>2. \A k \in i .. n : body[k] \in S
  <2>1. \A k \in 1 .. n : body[k] \in S
    BY ElementOfSeq
  <2>. HIDE DEF n
  <2>. QED BY <2>1, <1>1
<1>3. /\ s \in Seq(S) /\ Len(s) = IF i <= n THEN n - i + 1 ELSE 0
      /\ \A k \in 1 .. n - i + 1 : s[k] = body[i + k - 1]
  BY <1>1, <1>2, SubSeqProperties
<1>4. w \in Seq(S) /\ Len(w) = m /\ \A k \in 1 .. m : w[k] = u[k]
  <2>1. \A k \in 1 .. m : u[k] \in S
    BY ElementOfSeq
  <2>2. /\ w \in Seq(S) /\ Len(w) = IF 1 <= m THEN m - 1 + 1 ELSE 0
        /\ \A k \in 1 .. m - 1 + 1 : w[k] = u[1 + k - 1]
    BY <1>1, <2>1, SubSeqProperties
  <2>. HIDE DEF m, w
  <2>. QED BY <1>1, <2>2
<1>5. Reads(i, u) <=> m <= Len(s) /\ w = v
  BY Zenon DEF Reads, Seqs!IsPrefix
<1>6. m <= Len(s) <=> i + m - 1 <= n
  <2>. HIDE DEF n, m, s
  <2>. QED BY <1>1, <1>3
<1>7. ASSUME m <= Len(s)
      PROVE  v \in Seq(S) /\ Len(v) = m /\ \A k \in 1 .. m : v[k] = body[i + k - 1]
  <2>1. Len(s) \in Nat
    BY <1>3, LenProperties
  <2>2. \A k \in 1 .. Len(s) : s[k] \in S
    BY <1>3, ElementOfSeq
  <2>3. \A k \in 1 .. m : s[k] \in S
    <3>. HIDE DEF m, s
    <3>. QED BY <1>1, <1>7, <2>1, <2>2
  <2>4. /\ v \in Seq(S) /\ Len(v) = IF 1 <= m THEN m - 1 + 1 ELSE 0
        /\ \A k \in 1 .. m - 1 + 1 : v[k] = s[1 + k - 1]
    <3>1. 1 \in Int /\ m \in Int
      BY <1>1
    <3>. HIDE DEF m, s
    <3>. QED BY <2>3, <3>1, SubSeqProperties
  <2>. HIDE DEF n, m, s, v
  <2>5. \A k \in 1 .. m : k \in 1 .. n - i + 1 /\ k \in 1 .. m - 1 + 1 /\ 1 + k - 1 = k
    BY <1>1, <1>3, <1>7
  <2>6. m - 1 + 1 = m
    BY <1>1
  <2>. QED BY <1>1, <1>3, <2>4, <2>5, <2>6
<1>. HIDE DEF n, m, s, v, w
<1>8. CASE m <= Len(s)
  <2>1. w = v <=> \A k \in 1 .. m : w[k] = v[k]
    <3>1. w = v => \A k \in 1 .. m : w[k] = v[k]
      OBVIOUS
    <3>2. (\A k \in 1 .. m : w[k] = v[k]) => w = v
      BY <1>4, <1>7, <1>8, SeqEqual
    <3>. QED BY <3>1, <3>2
  <2>2. (\A k \in 1 .. m : w[k] = v[k]) <=> \A k \in 1 .. m : body[i + k - 1] = u[k]
    BY <1>4, <1>7, <1>8, Zenon
  <2>. QED BY <1>5, <1>6, <1>8, <2>1, <2>2, Zenon DEF m, n
<1>9. CASE ~(m <= Len(s))
  BY <1>5, <1>6, <1>9, Zenon DEF m, n
<1>. QED BY <1>8, <1>9, Zenon

\* One token, two, three or four.
LEMMA ReadsAre ==
  ASSUME body \in Seq(Tokens), NEW i \in Nat \ {0},
         NEW a \in Tokens, NEW b \in Tokens, NEW c \in Tokens, NEW d \in Tokens
  PROVE  /\ Reads(i, <<a>>) <=> i <= Len(body) /\ body[i] = a
         /\ Reads(i, <<a, b>>) <=> i + 1 <= Len(body) /\ body[i] = a /\ body[i + 1] = b
         /\ Reads(i, <<a, b, c>>) <=>
              i + 2 <= Len(body) /\ body[i] = a /\ body[i + 1] = b /\ body[i + 2] = c
         /\ Reads(i, <<a, b, c, d>>) <=>
              /\ i + 3 <= Len(body) /\ body[i] = a /\ body[i + 1] = b
              /\ body[i + 2] = c /\ body[i + 3] = d
<1>0. Len(body) \in Nat
  BY LenProperties
<1>1. /\ i + 1 - 1 = i /\ i + 2 - 1 = i + 1 /\ i + 3 - 1 = i + 2 /\ i + 4 - 1 = i + 3
  OBVIOUS
<1>2. Reads(i, <<a>>) <=> i <= Len(body) /\ body[i] = a
  <2>. DEFINE u == <<a>>
  <2>1. u \in Seq(Tokens) /\ Len(u) = 1 /\ u[1] = a /\ u # << >> /\ 1 .. Len(u) = {1}
    OBVIOUS
  <2>. HIDE DEF u
  <2>2. Reads(i, u) <=> i + 1 - 1 <= Len(body) /\ \A k \in {1} : body[i + k - 1] = u[k]
    <3>1. Reads(i, u) <=> /\ i + Len(u) - 1 <= Len(body)
                          /\ \A k \in 1 .. Len(u) : body[i + k - 1] = u[k]
      <4>1. u \in Seq(Tokens) /\ u # << >>
        BY <2>1, Zenon
      <4>. QED BY <4>1, ReadsIs
    <3>. QED BY <2>1, <3>1, Zenon
  <2>. QED BY <1>1, <2>1, <2>2, Zenon DEF u
<1>3. Reads(i, <<a, b>>) <=> i + 1 <= Len(body) /\ body[i] = a /\ body[i + 1] = b
  <2>. DEFINE u == <<a, b>>
  <2>1. u \in Seq(Tokens) /\ Len(u) = 2 /\ u[1] = a /\ u[2] = b /\ u # << >> /\ 1 .. Len(u) = {1, 2}
    OBVIOUS
  <2>. HIDE DEF u
  <2>2. Reads(i, u) <=> i + 2 - 1 <= Len(body) /\ \A k \in {1, 2} : body[i + k - 1] = u[k]
    <3>1. Reads(i, u) <=> /\ i + Len(u) - 1 <= Len(body)
                          /\ \A k \in 1 .. Len(u) : body[i + k - 1] = u[k]
      <4>1. u \in Seq(Tokens) /\ u # << >>
        BY <2>1, Zenon
      <4>. QED BY <4>1, ReadsIs
    <3>. QED BY <2>1, <3>1, Zenon
  <2>. QED BY <1>1, <2>1, <2>2, Zenon DEF u
<1>4. Reads(i, <<a, b, c>>) <=>
        i + 2 <= Len(body) /\ body[i] = a /\ body[i + 1] = b /\ body[i + 2] = c
  <2>. DEFINE u == <<a, b, c>>
  <2>1. /\ u \in Seq(Tokens) /\ Len(u) = 3 /\ u[1] = a /\ u[2] = b /\ u[3] = c
        /\ u # << >> /\ 1 .. Len(u) = {1, 2, 3}
    OBVIOUS
  <2>. HIDE DEF u
  <2>2. Reads(i, u) <=> i + 3 - 1 <= Len(body) /\ \A k \in {1, 2, 3} : body[i + k - 1] = u[k]
    <3>1. Reads(i, u) <=> /\ i + Len(u) - 1 <= Len(body)
                          /\ \A k \in 1 .. Len(u) : body[i + k - 1] = u[k]
      <4>1. u \in Seq(Tokens) /\ u # << >>
        BY <2>1, Zenon
      <4>. QED BY <4>1, ReadsIs
    <3>. QED BY <2>1, <3>1, Zenon
  <2>. QED BY <1>1, <2>1, <2>2, Zenon DEF u
<1>5. Reads(i, <<a, b, c, d>>) <=>
        /\ i + 3 <= Len(body) /\ body[i] = a /\ body[i + 1] = b
        /\ body[i + 2] = c /\ body[i + 3] = d
  <2>. DEFINE u == <<a, b, c, d>>
  <2>1. /\ u \in Seq(Tokens) /\ Len(u) = 4 /\ u[1] = a /\ u[2] = b /\ u[3] = c /\ u[4] = d
        /\ u # << >> /\ 1 .. Len(u) = {1, 2, 3, 4}
    OBVIOUS
  <2>. HIDE DEF u
  <2>2. Reads(i, u) <=> i + 4 - 1 <= Len(body) /\ \A k \in {1, 2, 3, 4} : body[i + k - 1] = u[k]
    <3>1. Reads(i, u) <=> /\ i + Len(u) - 1 <= Len(body)
                          /\ \A k \in 1 .. Len(u) : body[i + k - 1] = u[k]
      <4>1. u \in Seq(Tokens) /\ u # << >>
        BY <2>1, Zenon
      <4>. QED BY <4>1, ReadsIs
    <3>. QED BY <2>1, <3>1, Zenon
  <2>. QED BY <1>1, <2>1, <2>2, Zenon DEF u
<1>. QED BY <1>2, <1>3, <1>4, <1>5

-----------------------------------------------------------------------------
\* A line from place i on ends at place e.
LineOf(t, i, e) ==
  /\ e \in i .. Len(t) /\ t[e] \in {"crlf", "lf"}
  /\ \A k \in i .. e - 1 : t[k] \notin {"crlf", "lf", "nul"}

\* The line end that the code finds is the end of the line, if there is one.
LEMMA LineEndIs ==
  ASSUME Len(body) \in Nat, NEW i \in Nat \ {0}, NEW e
  PROVE  LineOf(body, i, e) <=> e = LineEnd(i) /\ LineEnd(i) # 0
<1>. DEFINE n == Len(body)
            T == {j \in i .. n : body[j] \in {"crlf", "lf", "nul"}}
            f == First(T)
<1>1. T \subseteq 0 .. n /\ T \subseteq i .. n
  OBVIOUS
<1>2. LineEnd(i) = IF T = {} \/ body[f] = "nul" THEN 0 ELSE f
  BY DEF LineEnd
<1>3. T # {} => f \in T /\ \A k \in T : f <= k
  <2>. HIDE DEF T, n
  <2>. QED BY <1>1, FirstLeast DEF n
<1>4. ASSUME LineOf(body, i, e) PROVE e = LineEnd(i) /\ LineEnd(i) # 0
  <2>1. e \in T /\ body[e] # "nul" /\ e # 0
    BY <1>4 DEF LineOf
  <2>2. f \in T /\ f <= e
    BY <1>3, <2>1
  <2>3. f \in i .. n /\ e \in i .. n /\ body[f] \in {"crlf", "lf", "nul"}
    BY <2>1, <2>2
  <2>. HIDE DEF T, f
  <2>4. f \notin i .. e - 1
    BY <1>4, <2>3, Zenon DEF LineOf
  <2>5. f = e
    BY <2>2, <2>3, <2>4
  <2>. QED BY <1>2, <2>1, <2>5
<1>5. ASSUME LineEnd(i) # 0 PROVE LineOf(body, i, LineEnd(i))
  <2>1. T # {} /\ body[f] # "nul" /\ LineEnd(i) = f
    BY <1>2, <1>5, Zenon
  <2>2. f \in i .. n /\ body[f] \in {"crlf", "lf", "nul"} /\ \A k \in T : f <= k
    BY <1>3, <2>1
  <2>3. \A k \in i .. f - 1 : k \in i .. n /\ ~(f <= k)
    BY <2>2
  <2>4. \A k \in i .. f - 1 : body[k] \notin {"crlf", "lf", "nul"}
    BY <2>2, <2>3
  <2>. HIDE DEF T, f
  <2>5. body[f] \in {"crlf", "lf"}
    BY <2>1, <2>2
  <2>. QED BY <2>1, <2>2, <2>4, <2>5, Zenon DEF LineOf, n
<1>. QED BY <1>4, <1>5, Zenon

-----------------------------------------------------------------------------
(***************************************************************************)
(* Header lines                                                            *)
(***************************************************************************)

\* What may be said on a line of a header, up to place k: the places of the
\* tokens in T, none twice of the names nor of the files, and a parameter
\* between two ';'.
NameTokens == Names \cup {"name="}
Words(t, i, k, T) == {j \in i .. k : t[j] \in T}
Once(S) == \A a, b \in S : a = b
GoodWords(t, i, k) ==
  /\ \A j \in i .. k : t[j] \in Params \cup {"semi", "sp"}
  /\ Once(Words(t, i, k, NameTokens)) /\ Once(Words(t, i, k, Files))
  /\ \A a, b \in Words(t, i, k, {"semi"}) :
       a < b => \E m \in Words(t, i, k, Params) : a < m /\ m < b

\* A ';' waits for its parameter.
Pending(t, i, k) ==
  \E a \in Words(t, i, k, {"semi"}) : \A m \in Words(t, i, k, Params) : m < a

\* The tokens of a header are different from each other.
LEMMA WordsDiffer ==
  /\ "sp" \notin Params /\ "semi" \notin Params /\ "sp" # "semi" /\ "disp" \notin Params
  /\ Params = NameTokens \cup Files
  /\ \A x \in Files : x \notin NameTokens
  /\ "none" \notin NameTokens /\ "none" \notin Files /\ "none" \notin Names
  /\ \A x \in Params : x \notin {"crlf", "lf", "nul", "--", "bnd", "semi", "sp", "x", "open"}
  /\ "name=" \notin Names
  BY ItemsAssumption DEF Params, NameTokens, Marks

\* One place more.
LEMMA OneMore ==
  ASSUME NEW i \in Nat, NEW k \in Nat, i <= k
  PROVE  i .. k = (i .. k - 1) \cup {k} /\ \A j \in i .. k - 1 : j < k /\ j \in Nat
  OBVIOUS

\* One place more has its token, and the places before it those they had.
LEMMA WordsGrow ==
  ASSUME NEW t, NEW i \in Nat, NEW k \in Nat, i <= k
  PROVE  /\ \A T : t[k] \notin T => Words(t, i, k, T) = Words(t, i, k - 1, T)
         /\ \A T : t[k] \in T => Words(t, i, k, T) = Words(t, i, k - 1, T) \cup {k}
         /\ \A T : \A j \in Words(t, i, k - 1, T) : j < k /\ j \in Nat
         /\ \A T : \A j \in Words(t, i, k - 1, T) : t[j] \in T
<1>1. i .. k = (i .. k - 1) \cup {k} /\ \A j \in i .. k - 1 : j < k /\ j \in Nat
  BY OneMore
<1>2. \A T : \A j : j \in Words(t, i, k, T) <=> j \in i .. k /\ t[j] \in T
  BY DEF Words
<1>3. \A T : \A j : j \in Words(t, i, k - 1, T) <=> j \in i .. k - 1 /\ t[j] \in T
  BY DEF Words
<1>4. ASSUME NEW T, t[k] \notin T PROVE Words(t, i, k, T) = Words(t, i, k - 1, T)
  BY <1>1, <1>2, <1>3, <1>4
<1>5. ASSUME NEW T, t[k] \in T PROVE Words(t, i, k, T) = Words(t, i, k - 1, T) \cup {k}
  BY <1>1, <1>2, <1>3, <1>5
<1>. QED BY <1>1, <1>3, <1>4, <1>5, Zenon

\* A space changes nothing.
LEMMA SpaceRead ==
  ASSUME NEW t, NEW i \in Nat, NEW k \in Nat, i <= k, t[k] = "sp"
  PROVE  /\ GoodWords(t, i, k) <=> GoodWords(t, i, k - 1)
         /\ Pending(t, i, k) <=> Pending(t, i, k - 1)
         /\ Words(t, i, k, NameTokens) = Words(t, i, k - 1, NameTokens)
         /\ Words(t, i, k, Files) = Words(t, i, k - 1, Files)
<1>1. /\ Words(t, i, k, NameTokens) = Words(t, i, k - 1, NameTokens)
      /\ Words(t, i, k, Files) = Words(t, i, k - 1, Files)
      /\ Words(t, i, k, Params) = Words(t, i, k - 1, Params)
      /\ Words(t, i, k, {"semi"}) = Words(t, i, k - 1, {"semi"})
  <2>1. t[k] \notin NameTokens /\ t[k] \notin Files /\ t[k] \notin Params /\ t[k] \notin {"semi"}
    BY WordsDiffer
  <2>2. \A T : t[k] \notin T => Words(t, i, k, T) = Words(t, i, k - 1, T)
    BY WordsGrow
  <2>. QED BY <2>1, <2>2, Zenon
<1>2. (\A j \in i .. k : t[j] \in Params \cup {"semi", "sp"})
        <=> \A j \in i .. k - 1 : t[j] \in Params \cup {"semi", "sp"}
  <2>1. i .. k = (i .. k - 1) \cup {k}
    BY OneMore
  <2>. QED BY <2>1
<1>. QED BY <1>1, <1>2, Zenon DEF GoodWords, Pending

\* A ';' needs a parameter in front of it if there is another.
LEMMA SemiRead ==
  ASSUME NEW t, NEW i \in Nat, NEW k \in Nat, i <= k, t[k] = "semi"
  PROVE  /\ GoodWords(t, i, k) <=> GoodWords(t, i, k - 1) /\ ~Pending(t, i, k - 1)
         /\ Pending(t, i, k)
         /\ Words(t, i, k, NameTokens) = Words(t, i, k - 1, NameTokens)
         /\ Words(t, i, k, Files) = Words(t, i, k - 1, Files)
<1>. DEFINE S == Words(t, i, k - 1, {"semi"})
            P == Words(t, i, k - 1, Params)
<1>1. /\ Words(t, i, k, NameTokens) = Words(t, i, k - 1, NameTokens)
      /\ Words(t, i, k, Files) = Words(t, i, k - 1, Files)
      /\ Words(t, i, k, Params) = P
      /\ Words(t, i, k, {"semi"}) = S \cup {k}
  <2>1. t[k] \notin NameTokens /\ t[k] \notin Files /\ t[k] \notin Params /\ t[k] \in {"semi"}
    BY WordsDiffer
  <2>2. \A T : t[k] \notin T => Words(t, i, k, T) = Words(t, i, k - 1, T)
    BY WordsGrow
  <2>3. Words(t, i, k, {"semi"}) = S \cup {k}
    BY <2>1, WordsGrow
  <2>. QED BY <2>1, <2>2, <2>3, Zenon
<1>2. (\A j \in i .. k : t[j] \in Params \cup {"semi", "sp"})
        <=> \A j \in i .. k - 1 : t[j] \in Params \cup {"semi", "sp"}
  <2>1. i .. k = (i .. k - 1) \cup {k}
    BY OneMore
  <2>. QED BY <2>1
<1>3. (\A a \in S : a < k /\ a \in Nat) /\ \A m \in P : m < k /\ m \in Nat
  BY WordsGrow
<1>4. \A a \in S, m \in P : a # m
  <2>1. (\A a \in S : t[a] \in {"semi"}) /\ \A m \in P : t[m] \in Params
    BY WordsGrow
  <2>. HIDE DEF S, P
  <2>. QED BY <2>1, WordsDiffer
<1>5. Pending(t, i, k - 1) <=> \E a \in S : \A m \in P : m < a
  BY DEF Pending
<1>. DEFINE Apart(Z) == \A a, b \in Z : a < b => \E m \in P : a < m /\ m < b
<1>6. Apart(S \cup {k}) <=> Apart(S) /\ \A a \in S : \E m \in P : a < m
  <2>. HIDE DEF S, P
  <2>1. k \in Nat
    OBVIOUS
  <2>. QED BY <1>3, <2>1
<1>7. (\A a \in S : \E m \in P : a < m) <=> ~Pending(t, i, k - 1)
  <2>. HIDE DEF S, P
  <2>. QED BY <1>3, <1>4, <1>5
<1>8. Pending(t, i, k)
  <2>1. k \in Words(t, i, k, {"semi"}) /\ \A m \in Words(t, i, k, Params) : m < k
    BY <1>1, <1>3
  <2>. QED BY <2>1, Zenon DEF Pending
<1>9. GoodWords(t, i, k) <=> /\ \A j \in i .. k : t[j] \in Params \cup {"semi", "sp"}
                             /\ Once(Words(t, i, k - 1, NameTokens))
                             /\ Once(Words(t, i, k - 1, Files)) /\ Apart(S \cup {k})
  BY <1>1, Zenon DEF GoodWords
<1>10. GoodWords(t, i, k - 1) <=> /\ \A j \in i .. k - 1 : t[j] \in Params \cup {"semi", "sp"}
                                  /\ Once(Words(t, i, k - 1, NameTokens))
                                  /\ Once(Words(t, i, k - 1, Files)) /\ Apart(S)
  BY Zenon DEF GoodWords
<1>. HIDE DEF Apart
<1>. QED BY <1>1, <1>2, <1>6, <1>7, <1>8, <1>9, <1>10, Zenon

\* A parameter needs to be the first of its kind.
LEMMA WordRead ==
  ASSUME NEW t, NEW i \in Nat, NEW k \in Nat, i <= k, t[k] \in Params,
         NEW K, NEW O, {K, O} = {NameTokens, Files}, t[k] \in K
  PROVE  /\ GoodWords(t, i, k) <=> GoodWords(t, i, k - 1) /\ Words(t, i, k - 1, K) = {}
         /\ ~Pending(t, i, k)
         /\ k \in Words(t, i, k, K)
         /\ Words(t, i, k, O) = Words(t, i, k - 1, O)
<1>. DEFINE S == Words(t, i, k - 1, {"semi"})
            P == Words(t, i, k - 1, Params)
            W == Words(t, i, k - 1, K)
<1>1. /\ Words(t, i, k, K) = W \cup {k}
      /\ Words(t, i, k, O) = Words(t, i, k - 1, O)
      /\ Words(t, i, k, Params) = P \cup {k}
      /\ Words(t, i, k, {"semi"}) = S
  <2>1. (K = NameTokens /\ O = Files) \/ (K = Files /\ O = NameTokens)
    <3>1. K \in {NameTokens, Files} /\ O \in {NameTokens, Files}
          /\ NameTokens \in {K, O} /\ Files \in {K, O}
      BY Zenon
    <3>. QED BY <3>1
  <2>2. t[k] \notin {"semi"} /\ t[k] \notin O
    BY <2>1, WordsDiffer
  <2>3. \A T : t[k] \notin T => Words(t, i, k, T) = Words(t, i, k - 1, T)
    BY WordsGrow
  <2>4. \A T : t[k] \in T => Words(t, i, k, T) = Words(t, i, k - 1, T) \cup {k}
    BY WordsGrow
  <2>. QED BY <2>2, <2>3, <2>4, Zenon
<1>2. (\A j \in i .. k : t[j] \in Params \cup {"semi", "sp"})
        <=> \A j \in i .. k - 1 : t[j] \in Params \cup {"semi", "sp"}
  <2>1. i .. k = (i .. k - 1) \cup {k}
    BY OneMore
  <2>. QED BY <2>1
<1>3. /\ \A a \in S : a < k /\ a \in Nat
      /\ \A m \in P : m < k /\ m \in Nat
      /\ \A m \in W : m < k /\ m \in Nat
  <2>1. \A T : \A m \in Words(t, i, k - 1, T) : m < k /\ m \in Nat
    BY WordsGrow
  <2>. QED BY <2>1, Zenon
<1>. DEFINE Apart(Z) == \A a, b \in S : a < b => \E m \in Z : a < m /\ m < b
<1>4. Apart(P \cup {k}) <=> Apart(P)
  <2>. HIDE DEF S, P
  <2>. QED BY <1>3
<1>5. Once(W \cup {k}) <=> W = {}
  <2>1. k \notin W
    <3>. HIDE DEF W
    <3>. QED BY <1>3
  <2>. HIDE DEF W
  <2>. QED BY <2>1 DEF Once
<1>6. W = {} => Once(W)
  BY DEF Once
<1>7. ~Pending(t, i, k)
  <2>1. \A a \in S : ~(k < a)
    <3>. HIDE DEF S
    <3>. QED BY <1>3
  <2>2. k \in Words(t, i, k, Params) /\ Words(t, i, k, {"semi"}) = S
    BY <1>1
  <2>. QED BY <2>1, <2>2, Zenon DEF Pending
<1>8. GoodWords(t, i, k) <=> /\ \A j \in i .. k : t[j] \in Params \cup {"semi", "sp"}
                             /\ Once(W \cup {k}) /\ Once(Words(t, i, k - 1, O))
                             /\ Apart(P \cup {k})
  <2>1. Once(Words(t, i, k, NameTokens)) /\ Once(Words(t, i, k, Files))
          <=> Once(W \cup {k}) /\ Once(Words(t, i, k - 1, O))
    <3>1. (K = NameTokens /\ O = Files) \/ (K = Files /\ O = NameTokens)
      <4>1. K \in {NameTokens, Files} /\ O \in {NameTokens, Files}
            /\ NameTokens \in {K, O} /\ Files \in {K, O}
        BY Zenon
      <4>. QED BY <4>1
    <3>2. Words(t, i, k, K) = W \cup {k} /\ Words(t, i, k, O) = Words(t, i, k - 1, O)
      BY <1>1
    <3>. HIDE DEF W
    <3>. QED BY <3>1, <3>2, Zenon
  <2>2. Words(t, i, k, Params) = P \cup {k} /\ Words(t, i, k, {"semi"}) = S
    BY <1>1
  <2>. QED BY <2>1, <2>2, Zenon DEF GoodWords
<1>9. GoodWords(t, i, k - 1) <=> /\ \A j \in i .. k - 1 : t[j] \in Params \cup {"semi", "sp"}
                                 /\ Once(W) /\ Once(Words(t, i, k - 1, O)) /\ Apart(P)
  <2>1. Once(Words(t, i, k - 1, NameTokens)) /\ Once(Words(t, i, k - 1, Files))
          <=> Once(W) /\ Once(Words(t, i, k - 1, O))
    <3>1. (K = NameTokens /\ O = Files) \/ (K = Files /\ O = NameTokens)
      <4>1. K \in {NameTokens, Files} /\ O \in {NameTokens, Files}
            /\ NameTokens \in {K, O} /\ Files \in {K, O}
        BY Zenon
      <4>. QED BY <4>1
    <3>. QED BY <3>1, Zenon
  <2>. QED BY <2>1, Zenon DEF GoodWords
<1>10. k \in Words(t, i, k, K)
  BY <1>1
<1>. HIDE DEF Apart
<1>. QED BY <1>1, <1>2, <1>4, <1>5, <1>6, <1>7, <1>8, <1>9, <1>10, Zenon

\* What the parser knows of a line.
WordStates == [name : {"none"} \cup NameTokens, file : {"none"} \cup Files,
               semi : BOOLEAN, ok : BOOLEAN]

\* What is known of the tokens of a kind.
Said(t, i, k, T, x) ==
  \/ x = "none" /\ Words(t, i, k, T) = {}
  \/ x # "none" /\ \E j \in Words(t, i, k, T) : x = t[j]

\* It knows what the line says, unless it refuses it.
WordsRead(t, i, k, st) ==
  /\ st.ok <=> GoodWords(t, i, k)
  /\ st.ok => /\ Said(t, i, k, NameTokens, st.name) /\ Said(t, i, k, Files, st.file)
              /\ st.semi <=> Pending(t, i, k)

\* The cases of Parameter.
LEMMA ParameterIs ==
  ASSUME NEW st \in WordStates, NEW x
  PROVE  /\ x = "sp" => Parameter(st, x) = st
         /\ x = "semi" /\ ~st.semi => Parameter(st, x) = [st EXCEPT !.semi = TRUE]
         /\ x \in NameTokens /\ st.name = "none" =>
              Parameter(st, x) = [st EXCEPT !.name = x, !.semi = FALSE]
         /\ x \in Files /\ st.file = "none" =>
              Parameter(st, x) = [st EXCEPT !.file = x, !.semi = FALSE]
         /\ x \notin Params \cup {"sp", "semi"} => Parameter(st, x) = [st EXCEPT !.ok = FALSE]
         /\ x = "semi" /\ st.semi => Parameter(st, x) = [st EXCEPT !.ok = FALSE]
         /\ x \in NameTokens /\ st.name # "none" => Parameter(st, x) = [st EXCEPT !.ok = FALSE]
         /\ x \in Files /\ st.file # "none" => Parameter(st, x) = [st EXCEPT !.ok = FALSE]
<1>1. /\ "sp" \notin NameTokens /\ "semi" \notin NameTokens /\ "sp" \notin Files
      /\ "semi" \notin Files /\ "sp" # "semi" /\ \A y \in Files : y \notin NameTokens
      /\ Params = NameTokens \cup Files
  BY WordsDiffer
<1>. QED BY <1>1 DEF Parameter, NameTokens

\* What a state is after a token: the ';' is seen, the line is refused, the
\* name or the file is known.
LEMMA FieldsAre ==
  ASSUME NEW st \in WordStates, NEW r
  PROVE  /\ st.name \in {"none"} \cup NameTokens /\ st.file \in {"none"} \cup Files
         /\ r = [st EXCEPT !.semi = TRUE] =>
              r \in WordStates /\ r.name = st.name /\ r.file = st.file /\ r.semi /\ (r.ok <=> st.ok)
         /\ r = [st EXCEPT !.ok = FALSE] => r \in WordStates /\ ~r.ok
         /\ \A x \in NameTokens : r = [st EXCEPT !.name = x, !.semi = FALSE] =>
              r \in WordStates /\ r.name = x /\ r.file = st.file /\ ~r.semi /\ (r.ok <=> st.ok)
         /\ \A x \in Files : r = [st EXCEPT !.file = x, !.semi = FALSE] =>
              r \in WordStates /\ r.name = st.name /\ r.file = x /\ ~r.semi /\ (r.ok <=> st.ok)
<1>1. st.name \in {"none"} \cup NameTokens /\ st.file \in {"none"} \cup Files
  BY DEF WordStates
<1>2. ASSUME r = [st EXCEPT !.semi = TRUE]
      PROVE  r \in WordStates /\ r.name = st.name /\ r.file = st.file /\ r.semi /\ (r.ok <=> st.ok)
  <2>1. r \in WordStates
    BY <1>2 DEF WordStates
  <2>2. r.name = st.name /\ r.file = st.file
    BY <1>2 DEF WordStates
  <2>3. r.semi
    BY <1>2 DEF WordStates
  <2>4. r.ok <=> st.ok
    BY <1>2 DEF WordStates
  <2>. QED BY <2>1, <2>2, <2>3, <2>4, Zenon
<1>3. ASSUME r = [st EXCEPT !.ok = FALSE] PROVE r \in WordStates /\ ~r.ok
  <2>1. r \in WordStates
    BY <1>3 DEF WordStates
  <2>2. ~r.ok
    BY <1>3 DEF WordStates
  <2>. QED BY <2>1, <2>2, Zenon
<1>4. ASSUME NEW x \in NameTokens, r = [st EXCEPT !.name = x, !.semi = FALSE]
      PROVE  r \in WordStates /\ r.name = x /\ r.file = st.file /\ ~r.semi /\ (r.ok <=> st.ok)
  <2>1. r \in WordStates
    BY <1>4 DEF WordStates
  <2>2. r.name = x /\ r.file = st.file
    BY <1>4 DEF WordStates
  <2>3. ~r.semi
    BY <1>4 DEF WordStates
  <2>4. r.ok <=> st.ok
    BY <1>4 DEF WordStates
  <2>. QED BY <2>1, <2>2, <2>3, <2>4, Zenon
<1>5. ASSUME NEW x \in Files, r = [st EXCEPT !.file = x, !.semi = FALSE]
      PROVE  r \in WordStates /\ r.name = st.name /\ r.file = x /\ ~r.semi /\ (r.ok <=> st.ok)
  <2>1. r \in WordStates
    BY <1>5 DEF WordStates
  <2>2. r.name = st.name /\ r.file = x
    BY <1>5 DEF WordStates
  <2>3. ~r.semi
    BY <1>5 DEF WordStates
  <2>4. r.ok <=> st.ok
    BY <1>5 DEF WordStates
  <2>. QED BY <2>1, <2>2, <2>3, <2>4, Zenon
<1>. QED BY <1>1, <1>2, <1>3, <1>4, <1>5, Zenon

\* One token more is read.
LEMMA ParameterReads ==
  ASSUME NEW t, NEW i \in Nat, NEW k \in Nat, i <= k, NEW st \in WordStates,
         WordsRead(t, i, k - 1, st), NEW r, r = Parameter(st, t[k])
  PROVE  r \in WordStates /\ WordsRead(t, i, k, r)
<1>. DEFINE x == t[k]
<1>0. /\ Params = NameTokens \cup Files /\ "none" \notin NameTokens /\ "none" \notin Files
      /\ "sp" \notin Params /\ "semi" \notin Params
  BY WordsDiffer
<1>1. CASE x = "sp"
  <2>1. r = st
    BY <1>1, ParameterIs
  <2>2. /\ GoodWords(t, i, k) <=> GoodWords(t, i, k - 1)
        /\ Pending(t, i, k) <=> Pending(t, i, k - 1)
        /\ Words(t, i, k, NameTokens) = Words(t, i, k - 1, NameTokens)
        /\ Words(t, i, k, Files) = Words(t, i, k - 1, Files)
    BY <1>1, SpaceRead
  <2>. QED BY <2>1, <2>2, Zenon DEF WordsRead, Said
<1>2. CASE x = "semi"
  <2>1. /\ GoodWords(t, i, k) <=> GoodWords(t, i, k - 1) /\ ~Pending(t, i, k - 1)
        /\ Pending(t, i, k)
        /\ Words(t, i, k, NameTokens) = Words(t, i, k - 1, NameTokens)
        /\ Words(t, i, k, Files) = Words(t, i, k - 1, Files)
    BY <1>2, SemiRead
  <2>2. CASE st.semi
    <3>1. r = [st EXCEPT !.ok = FALSE]
      BY <1>2, <2>2, ParameterIs, Zenon
    <3>2. r \in WordStates /\ ~r.ok
      BY <3>1, FieldsAre, Zenon
    <3>3. ~GoodWords(t, i, k)
      BY <2>1, <2>2, Zenon DEF WordsRead
    <3>. QED BY <3>2, <3>3, Zenon DEF WordsRead
  <2>3. CASE ~st.semi
    <3>1. r = [st EXCEPT !.semi = TRUE]
      BY <1>2, <2>3, ParameterIs
    <3>2. r \in WordStates /\ r.name = st.name /\ r.file = st.file /\ r.semi /\ (r.ok <=> st.ok)
      BY <3>1, FieldsAre, Zenon
    <3>. QED BY <2>1, <2>3, <3>2, Zenon DEF WordsRead, Said
  <2>. QED BY <2>2, <2>3, Zenon
<1>3. CASE x \in NameTokens
  <2>0. x \in Params /\ x # "none"
    BY <1>0, <1>3
  <2>1. /\ GoodWords(t, i, k) <=> GoodWords(t, i, k - 1) /\ Words(t, i, k - 1, NameTokens) = {}
        /\ ~Pending(t, i, k) /\ k \in Words(t, i, k, NameTokens)
        /\ Words(t, i, k, Files) = Words(t, i, k - 1, Files)
    BY <1>3, <2>0, WordRead
  <2>2. st.ok => (st.name = "none" <=> Words(t, i, k - 1, NameTokens) = {})
    BY Zenon DEF WordsRead, Said
  <2>3. CASE st.name = "none"
    <3>1. r = [st EXCEPT !.name = x, !.semi = FALSE]
      BY <1>3, <2>3, ParameterIs
    <3>2. r \in WordStates /\ r.name = x /\ r.file = st.file /\ ~r.semi /\ (r.ok <=> st.ok)
      BY <1>3, <3>1, FieldsAre, Zenon
    <3>3. r.ok <=> GoodWords(t, i, k)
      BY <2>1, <2>2, <2>3, <3>2, Zenon DEF WordsRead
    <3>4. Said(t, i, k, NameTokens, r.name)
      BY <2>0, <2>1, <3>2, Zenon DEF Said
    <3>5. st.ok => Said(t, i, k, Files, r.file)
      BY <2>1, <3>2, Zenon DEF WordsRead, Said
    <3>. QED BY <2>1, <3>2, <3>3, <3>4, <3>5, Zenon DEF WordsRead
  <2>4. CASE st.name # "none"
    <3>1. r = [st EXCEPT !.ok = FALSE]
      BY <1>3, <2>4, ParameterIs, Zenon
    <3>2. r \in WordStates /\ ~r.ok
      BY <3>1, FieldsAre, Zenon
    <3>3. ~GoodWords(t, i, k)
      BY <2>1, <2>2, <2>4, Zenon DEF WordsRead
    <3>. QED BY <3>2, <3>3, Zenon DEF WordsRead
  <2>. QED BY <2>3, <2>4, Zenon
<1>4. CASE x \in Files
  <2>0. x \in Params /\ x # "none"
    BY <1>0, <1>4
  <2>1. /\ GoodWords(t, i, k) <=> GoodWords(t, i, k - 1) /\ Words(t, i, k - 1, Files) = {}
        /\ ~Pending(t, i, k) /\ k \in Words(t, i, k, Files)
        /\ Words(t, i, k, NameTokens) = Words(t, i, k - 1, NameTokens)
    BY <1>4, <2>0, WordRead
  <2>2. st.ok => (st.file = "none" <=> Words(t, i, k - 1, Files) = {})
    BY Zenon DEF WordsRead, Said
  <2>3. CASE st.file = "none"
    <3>1. r = [st EXCEPT !.file = x, !.semi = FALSE]
      BY <1>4, <2>3, ParameterIs
    <3>2. r \in WordStates /\ r.name = st.name /\ r.file = x /\ ~r.semi /\ (r.ok <=> st.ok)
      BY <1>4, <3>1, FieldsAre, Zenon
    <3>3. r.ok <=> GoodWords(t, i, k)
      BY <2>1, <2>2, <2>3, <3>2, Zenon DEF WordsRead
    <3>4. Said(t, i, k, Files, r.file)
      BY <2>0, <2>1, <3>2, Zenon DEF Said
    <3>5. st.ok => Said(t, i, k, NameTokens, r.name)
      BY <2>1, <3>2, Zenon DEF WordsRead, Said
    <3>. QED BY <2>1, <3>2, <3>3, <3>4, <3>5, Zenon DEF WordsRead
  <2>4. CASE st.file # "none"
    <3>1. r = [st EXCEPT !.ok = FALSE]
      BY <1>4, <2>4, ParameterIs, Zenon
    <3>2. r \in WordStates /\ ~r.ok
      BY <3>1, FieldsAre, Zenon
    <3>3. ~GoodWords(t, i, k)
      BY <2>1, <2>2, <2>4, Zenon DEF WordsRead
    <3>. QED BY <3>2, <3>3, Zenon DEF WordsRead
  <2>. QED BY <2>3, <2>4, Zenon
<1>5. CASE x \notin Params \cup {"sp", "semi"}
  <2>1. r = [st EXCEPT !.ok = FALSE]
    BY <1>5, ParameterIs, Zenon
  <2>2. r \in WordStates /\ ~r.ok
    BY <2>1, FieldsAre, Zenon
  <2>3. ~GoodWords(t, i, k)
    <3>1. k \in i .. k
      OBVIOUS
    <3>2. x \notin Params \cup {"semi", "sp"}
      BY <1>5
    <3>. QED BY <3>1, <3>2, Zenon DEF GoodWords
  <2>. QED BY <2>2, <2>3, Zenon DEF WordsRead
<1>6. x \in Params \cup {"sp", "semi"} => x = "sp" \/ x = "semi" \/ x \in NameTokens \/ x \in Files
  BY <1>0
<1>. QED BY <1>1, <1>2, <1>3, <1>4, <1>5, <1>6, Zenon

-----------------------------------------------------------------------------
(***************************************************************************)
(* The header line parser                                                  *)
(***************************************************************************)

\* What is known of a line is always of that form.
LEMMA ParameterKnown ==
  ASSUME NEW st \in WordStates, NEW x
  PROVE  Parameter(st, x) \in WordStates
<1>. DEFINE r == Parameter(st, x)
<1>1. /\ \A y \in NameTokens : r = [st EXCEPT !.name = y, !.semi = FALSE] => r \in WordStates
      /\ \A y \in Files : r = [st EXCEPT !.file = y, !.semi = FALSE] => r \in WordStates
      /\ r = [st EXCEPT !.semi = TRUE] => r \in WordStates
      /\ r = [st EXCEPT !.ok = FALSE] => r \in WordStates
  <2>1. \A z : /\ \A y \in NameTokens : z = [st EXCEPT !.name = y, !.semi = FALSE] => z \in WordStates
               /\ \A y \in Files : z = [st EXCEPT !.file = y, !.semi = FALSE] => z \in WordStates
               /\ z = [st EXCEPT !.semi = TRUE] => z \in WordStates
               /\ z = [st EXCEPT !.ok = FALSE] => z \in WordStates
    BY FieldsAre, Zenon
  <2>. HIDE DEF r
  <2>. QED BY <2>1, Zenon
<1>2. x \in Params => x \in NameTokens \/ x \in Files
  BY WordsDiffer
<1>3. x \notin Params \cup {"sp", "semi"} => r = [st EXCEPT !.ok = FALSE]
  BY ParameterIs, Zenon
<1>4. x \in Params \cup {"sp", "semi"} => x \in Params \/ x = "sp" \/ x = "semi"
  OBVIOUS
<1>5. x = "sp" => r = st
  BY ParameterIs, Zenon
<1>6. x = "semi" => r \in {[st EXCEPT !.semi = TRUE], [st EXCEPT !.ok = FALSE]}
  BY ParameterIs, Zenon
<1>7. x \in NameTokens => r \in {[st EXCEPT !.name = x, !.semi = FALSE], [st EXCEPT !.ok = FALSE]}
  BY ParameterIs, Zenon
<1>8. x \in Files => r \in {[st EXCEPT !.file = x, !.semi = FALSE], [st EXCEPT !.ok = FALSE]}
  BY ParameterIs, Zenon
<1>. HIDE DEF r
<1>. QED BY <1>1, <1>2, <1>3, <1>4, <1>5, <1>6, <1>7, <1>8, Zenon DEF r

\* The last place of a line that is looked at: i is its first place, e its end.
Short == {"lf", "semi", "sp", "nul", "x"}
LastOf(t, i, e) ==
  IF t[e] = "lf" /\ e > i /\ t[e - 1] \in Short THEN e - 2 ELSE e - 1

\* Nothing is read in front of the first place.
LEMMA NothingRead ==
  ASSUME NEW t, NEW i \in Nat
  PROVE  NoWord \in WordStates /\ WordsRead(t, i, i - 1, NoWord)
<1>1. /\ NoWord \in WordStates /\ NoWord.name = "none" /\ NoWord.file = "none"
      /\ ~NoWord.semi /\ NoWord.ok
  <2>1. NoWord \in WordStates
    BY DEF NoWord, WordStates
  <2>2. NoWord.name = "none" /\ NoWord.file = "none"
    BY DEF NoWord
  <2>3. ~NoWord.semi
    BY DEF NoWord
  <2>4. NoWord.ok
    BY DEF NoWord
  <2>. QED BY <2>1, <2>2, <2>3, <2>4, Zenon
<1>2. \A j : j \notin i .. i - 1
  OBVIOUS
<1>3. \A T : Words(t, i, i - 1, T) = {}
  BY <1>2, Zenon DEF Words
<1>4. GoodWords(t, i, i - 1)
  BY <1>2, <1>3, Zenon DEF GoodWords, Once
<1>5. ~Pending(t, i, i - 1)
  BY <1>3, Zenon DEF Pending
<1>. QED BY <1>1, <1>3, <1>4, <1>5, Zenon DEF WordsRead, Said

\* R is the recursion of the parser over a line.
LineRead(t, i, R) ==
  /\ R \in [0 .. Len(t) -> WordStates]
  /\ \A k \in 0 .. Len(t) : R[k] = IF k < i THEN NoWord ELSE Parameter(R[k - 1], t[k])

\* The recursion has a solution.
LEMMA LineReads ==
  ASSUME NEW t, Len(t) \in Nat, NEW i \in Nat \ {0}
  PROVE  \E R : LineRead(t, i, R)
<1>. DEFINE n == Len(t)
            G == [p \in WordStates \X (1 .. n) |->
                    IF p[2] < i THEN NoWord ELSE Parameter(p[1], t[p[2]])]
<1>1. NoWord \in WordStates
  BY NothingRead
<1>2. /\ G \in [WordStates \X (1 .. n) -> WordStates]
      /\ \A st \in WordStates : \A k \in 1 .. n :
           G[<<st, k>>] = IF k < i THEN NoWord ELSE Parameter(st, t[k])
  <2>. DEFINE P(st, k) == IF k < i THEN NoWord ELSE Parameter(st, t[k])
  <2>1. \A st \in WordStates : \A k \in 1 .. n : P(st, k) \in WordStates
    BY <1>1, ParameterKnown, Zenon
  <2>2. G = [p \in WordStates \X (1 .. n) |-> P(p[1], p[2])]
    BY Zenon
  <2>. HIDE DEF P, G
  <2>3. G \in [WordStates \X (1 .. n) -> WordStates]
        /\ \A st \in WordStates : \A k \in 1 .. n : G[<<st, k>>] = P(st, k)
    BY <2>1, <2>2
  <2>. QED BY <2>3, Zenon DEF P
<1>. HIDE DEF G
<1>3. PICK F \in [0 .. n -> WordStates] : Course(F, G, NoWord, n)
  <2>1. n \in Nat
    OBVIOUS
  <2>. HIDE DEF n
  <2>. QED BY <1>1, <1>2, <2>1, LoopExists
<1>4. \A k \in 0 .. n : F[k] = IF k < i THEN NoWord ELSE Parameter(F[k - 1], t[k])
  <2>1. ASSUME NEW k \in 0 .. n
        PROVE  F[k] = IF k < i THEN NoWord ELSE Parameter(F[k - 1], t[k])
    <3>1. CASE k = 0
      <4>1. F[0] = NoWord
        BY <1>3, Zenon DEF Course
      <4>2. k < i
        BY <3>1
      <4>. QED BY <3>1, <4>1, <4>2, Zenon
    <3>2. CASE k # 0
      <4>1. k \in 1 .. n /\ k - 1 \in 0 .. n
        BY <3>2
      <4>2. F[k] = G[<<F[k - 1], k>>]
        BY <1>3, <4>1, Zenon DEF Course
      <4>3. F[k - 1] \in WordStates
        BY <4>1
      <4>. QED BY <1>2, <4>1, <4>2, <4>3, Zenon
    <3>. QED BY <3>1, <3>2, Zenon
  <2>. QED BY <2>1
<1>. QED BY <1>3, <1>4, Zenon DEF LineRead

\* It knows what the line says.
LEMMA LineReadIs ==
  ASSUME NEW t, Len(t) \in Nat, NEW i \in Nat \ {0}, NEW R, LineRead(t, i, R),
         NEW k \in i - 1 .. Len(t)
  PROVE  R[k] \in WordStates /\ WordsRead(t, i, k, R[k])
<1>. DEFINE n == Len(t)
            S == {m \in 0 .. n : m < i - 1 \/ (R[m] \in WordStates /\ WordsRead(t, i, m, R[m]))}
<1>1. ASSUME NEW m \in 0 .. n, m = i - 1
      PROVE  R[m] \in WordStates /\ WordsRead(t, i, m, R[m])
  <2>1. m < i
    BY <1>1
  <2>2. R[m] = NoWord
    BY <2>1, Zenon DEF LineRead
  <2>. QED BY <1>1, <2>2, NothingRead
<1>2. 0 \in S
  <2>1. 0 \in 0 .. n /\ (0 < i - 1 \/ 0 = i - 1)
    OBVIOUS
  <2>. QED BY <1>1, <2>1, Zenon
<1>3. ASSUME NEW m \in 1 .. n, m - 1 \in S
      PROVE  m \in S
  <2>1. m \in 0 .. n /\ (m < i - 1 \/ m = i - 1 \/ (m >= i /\ i <= m /\ ~(m < i) /\ ~(m - 1 < i - 1)))
    OBVIOUS
  <2>2. CASE m < i - 1 \/ m = i - 1
    BY <1>1, <2>1, <2>2, Zenon
  <2>3. CASE m >= i /\ i <= m /\ ~(m < i) /\ ~(m - 1 < i - 1)
    <3>1. R[m - 1] \in WordStates /\ WordsRead(t, i, m - 1, R[m - 1])
      BY <1>3, <2>3, Zenon
    <3>2. R[m] = Parameter(R[m - 1], t[m])
      BY <2>1, <2>3, Zenon DEF LineRead
    <3>3. m \in Nat /\ i \in Nat /\ i <= m
      BY <2>3
    <3>4. R[m] \in WordStates /\ WordsRead(t, i, m, R[m])
      BY <3>1, <3>2, <3>3, ParameterReads, Zenon
    <3>. QED BY <2>1, <3>4
  <2>. QED BY <2>1, <2>2, <2>3, Zenon
<1>4. \A m \in 0 .. n : m \in S
  <2>. HIDE DEF S
  <2>. QED BY <1>2, <1>3, UpTo
<1>5. k \in 0 .. n /\ ~(k < i - 1)
  OBVIOUS
<1>6. k \in S
  BY <1>4, <1>5, Zenon
<1>. QED BY <1>5, <1>6, Zenon

\* The widths that the parser of a line compares.
LEMMA ShortIs ==
  ASSUME boundary_len \in 3 .. 70, NEW x \in Tokens
  PROVE  /\ Width(x) = 1 <=> x \in Short
         /\ Width(x) \in Nat /\ Width(x) >= 1
         /\ Width(x) = 2 <=> x \in {"--", "crlf"}
         /\ x = "bnd" => Width(x) = boundary_len
         /\ x = "disp" => Width(x) = 31
<1>1. \A y \in Params : y \notin {"crlf", "lf", "nul", "--", "bnd", "semi", "sp", "x", "open", "disp"}
  BY WordsDiffer
<1>2. CASE x \in Params
  <2>1. x \notin {"--", "crlf"} /\ x # "bnd" /\ x # "disp" /\ x # "open" /\ x \notin Short
    BY <1>1, <1>2 DEF Short
  <2>2. Width(x) = 9
    BY <1>2, <2>1 DEF Width
  <2>. QED BY <2>1, <2>2
<1>3. CASE x \notin Params
  <2>1. x \in {"--", "bnd", "crlf", "lf", "disp", "semi", "sp", "open", "nul", "x"}
    BY <1>3 DEF Tokens, Marks, Params
  <2>2. x \in {"--", "crlf"} => Width(x) = 2
    BY <1>3 DEF Width
  <2>3. x = "bnd" => Width(x) = boundary_len
    BY <1>3 DEF Width
  <2>4. x = "disp" => Width(x) = 31
    BY <1>3 DEF Width
  <2>5. x = "open" => Width(x) = 8
    BY <1>3 DEF Width
  <2>6. x \in Short => Width(x) = 1
    BY <1>3 DEF Width, Short
  <2>7. /\ x \in {"--", "crlf"} \/ x = "bnd" \/ x = "disp" \/ x = "open" \/ x \in Short
        /\ x \in {"--", "crlf"} => x \notin Short /\ x # "bnd" /\ x # "disp"
        /\ x = "bnd" => x \notin Short /\ x \notin {"--", "crlf"} /\ x # "disp"
        /\ x = "disp" => x \notin Short /\ x \notin {"--", "crlf"} /\ x # "bnd"
        /\ x = "open" => x \notin Short /\ x \notin {"--", "crlf"} /\ x # "bnd" /\ x # "disp"
        /\ x \in Short => x \notin {"--", "crlf"} /\ x # "bnd" /\ x # "disp"
    BY <2>1 DEF Short
  <2>8. boundary_len \in Nat /\ boundary_len >= 3
    OBVIOUS
  <2>. QED BY <2>2, <2>3, <2>4, <2>5, <2>6, <2>7, <2>8
<1>. QED BY <1>2, <1>3

\* The parser knows what the line from i to its end e says.
LEMMA SaidIs ==
  ASSUME body \in Seq(Tokens), boundary_len \in 3 .. 70,
         NEW i \in Nat \ {0}, NEW e \in i .. Len(body),
         NEW r, r = content_disposition_parse(i, e)
  PROVE  r \in WordStates /\ WordsRead(body, i, LastOf(body, i, e), r)
<1>. DEFINE n == Len(body)
            last == IF body[e] = "lf" /\ e > i /\ Width(body[e - 1]) = 1
                    THEN e - 2 ELSE e - 1
            Rule(R) == R = [k \in 0 .. Len(body) |->
                              IF k < i THEN NoWord ELSE Parameter(R[k - 1], body[k])]
            W == CHOOSE R : Rule(R)
<1>0. n \in Nat /\ \A k \in 1 .. n : body[k] \in Tokens
  BY LenProperties, ElementOfSeq
<1>1. \E R : Rule(R)
  <2>1. PICK R : LineRead(body, i, R)
    BY <1>0, LineReads
  <2>2. R = [k \in 0 .. Len(body) |-> R[k]]
    BY <2>1 DEF LineRead
  <2>. DEFINE E(k) == IF k < i THEN NoWord ELSE Parameter(R[k - 1], body[k])
  <2>3. \A k \in 0 .. Len(body) : R[k] = E(k)
    BY <2>1, Zenon DEF LineRead
  <2>4. R = [k \in 0 .. Len(body) |-> E(k)]
    <3>. HIDE DEF E
    <3>. QED BY <2>2, <2>3
  <2>. QED BY <2>4
<1>2. Rule(W)
  BY <1>1, Zenon
<1>3. r = W[last]
  BY Zenon DEF content_disposition_parse
<1>. HIDE DEF W
<1>4. LineRead(body, i, W)
  <2>. DEFINE E(k) == IF k < i THEN NoWord ELSE Parameter(W[k - 1], body[k])
              S == {k \in 0 .. n : W[k] \in WordStates}
  <2>1. W = [k \in 0 .. n |-> E(k)]
    BY <1>2
  <2>2. \A k \in 0 .. n : W[k] = E(k)
    <3>. HIDE DEF E, n
    <3>. QED BY <2>1
  <2>3. \A k \in 0 .. n : k \in S
    <3>1. 0 \in S
      <4>1. 0 \in 0 .. n /\ 0 < i
        BY <1>0
      <4>. QED BY <2>2, <4>1, NothingRead, Zenon
    <3>2. ASSUME NEW k \in 1 .. n, k - 1 \in S PROVE k \in S
      <4>1. k \in 0 .. n
        OBVIOUS
      <4>2. E(k) \in WordStates
        BY <3>2, NothingRead, ParameterKnown, Zenon
      <4>. QED BY <2>2, <4>1, <4>2, Zenon
    <3>. HIDE DEF S
    <3>. QED BY <1>0, <3>1, <3>2, UpTo
  <2>4. W \in [0 .. n -> WordStates]
    <3>1. \A k \in 0 .. n : E(k) \in WordStates
      BY <2>2, <2>3, Zenon
    <3>. HIDE DEF E, n
    <3>. QED BY <2>1, <3>1
  <2>. QED BY <2>2, <2>4, Zenon DEF LineRead
<1>5. last = LastOf(body, i, e)
  <2>1. e > i => Width(body[e - 1]) = 1 <=> body[e - 1] \in Short
    <3>1. SUFFICES ASSUME e > i PROVE Width(body[e - 1]) = 1 <=> body[e - 1] \in Short
      BY Zenon
    <3>2. e - 1 \in 1 .. n
      BY <1>0, <3>1
    <3>. QED BY <1>0, <3>2, ShortIs
  <2>. QED BY <2>1, Zenon DEF LastOf
<1>6. last \in i - 1 .. n
  BY <1>0
<1>. HIDE DEF last
<1>7. W[last] \in WordStates /\ WordsRead(body, i, last, W[last])
  BY <1>0, <1>4, <1>6, LineReadIs
<1>. QED BY <1>3, <1>5, <1>7, Zenon

-----------------------------------------------------------------------------
(***************************************************************************)
(* Headers                                                                 *)
(***************************************************************************)

\* The header of a part at place i: its line ends at e, it ends at h, which a
\* blank line follows; it says the name m and the file f.
HeaderOf(t, i, e, h, m, f) ==
  /\ t[i] = "disp" /\ LineOf(t, i + 1, e)
  /\ GoodWords(t, i + 1, LastOf(t, i + 1, e))
  /\ m \in Names /\ f \in {"none"} \cup Files
  /\ Said(t, i + 1, LastOf(t, i + 1, e), NameTokens, m)
  /\ Said(t, i + 1, LastOf(t, i + 1, e), Files, f)
  /\ IF f = "none" THEN h = e ELSE LineOf(t, e + 1, h)
  /\ h + 1 <= Len(t) /\ t[h + 1] = "crlf"

\* What is said once is one thing.
LEMMA SaidOnce ==
  ASSUME NEW t, NEW i, NEW k, NEW T, Once(Words(t, i, k, T)),
         NEW x, Said(t, i, k, T, x), NEW y, Said(t, i, k, T, y)
  PROVE  x = y
<1>1. CASE Words(t, i, k, T) = {}
  BY <1>1, Zenon DEF Said
<1>2. CASE Words(t, i, k, T) # {}
  <2>1. PICK a \in Words(t, i, k, T) : x = t[a]
    BY <1>2, Zenon DEF Said
  <2>2. PICK b \in Words(t, i, k, T) : y = t[b]
    BY <1>2, Zenon DEF Said
  <2>3. a = b
    BY Zenon DEF Once
  <2>. QED BY <2>1, <2>2, <2>3, Zenon
<1>. QED BY <1>1, <1>2, Zenon

\* The header that the parser accepts is the one that is there, if any.
LEMMA HeaderIs ==
  ASSUME body \in Seq(Tokens), boundary_len \in 3 .. 70, idx \in Nat \ {0}
  PROVE  /\ Header.ending = "none" =>
              \E e : HeaderOf(body, idx, e, Header.data - 2, Header.part.name, Header.part.file)
         /\ Header.ending = "none" =>
              /\ Header.data \in Nat
              /\ Header.part = [name |-> Header.part.name, file |-> Header.part.file]
         /\ \A e, h, m, f : HeaderOf(body, idx, e, h, m, f) =>
              /\ Header.ending = "none" /\ Header.data = h + 2
              /\ Header.part.name = m /\ Header.part.file = f
<1>. DEFINE line_end == LineEnd(idx + 1)
            said == content_disposition_parse(idx + 1, line_end)
            header_end == HeaderEnd(line_end, said.file)
            malformed(e) == [ending |-> e]
            part_of == [ending |-> "none",
                        part |-> [name |-> said.name, file |-> said.file],
                        data |-> header_end + 2]
            last == LastOf(body, idx + 1, line_end)
<1>1. Len(body) \in Nat /\ idx + 1 \in Nat \ {0}
  BY LenProperties
<1>2. Header = IF body[idx] # "disp" \/ line_end = 0 THEN malformed("format")
               ELSE IF ~said.ok THEN malformed("disposition")
               ELSE IF ~Named(said) \/ header_end = 0 THEN malformed("format")
               ELSE IF ~Reads(header_end + 1, <<"crlf">>)
                    THEN malformed("format")
               ELSE part_of
  BY DEF Header
<1>3. /\ part_of.ending = "none" /\ part_of.data = header_end + 2
      /\ part_of.part.name = said.name /\ part_of.part.file = said.file
      /\ part_of.part = [name |-> said.name, file |-> said.file]
      /\ malformed("format").ending # "none" /\ malformed("disposition").ending # "none"
  OBVIOUS
<1>4. \A e : LineOf(body, idx + 1, e) <=> e = line_end /\ line_end # 0
  BY <1>1, LineEndIs
<1>5. line_end # 0 => line_end \in idx + 1 .. Len(body)
  BY <1>1, LineEndKnown
<1>6. ASSUME line_end # 0
      PROVE  said \in WordStates /\ WordsRead(body, idx + 1, last, said)
  <2>. HIDE DEF line_end, said
  <2>. QED BY <1>1, <1>5, <1>6, SaidIs DEF said
<1>7. ASSUME line_end # 0
      PROVE  /\ said.file = "none" => header_end = line_end
             /\ said.file # "none" => \A h : LineOf(body, line_end + 1, h)
                                               <=> h = header_end /\ header_end # 0
             /\ header_end = 0 \/ header_end \in Nat \ {0}
  <2>1. line_end + 1 \in Nat \ {0} /\ line_end \in Nat \ {0}
    <3>. HIDE DEF line_end
    <3>. QED BY <1>1, <1>5, <1>7
  <2>. HIDE DEF line_end, said
  <2>2. said.file # "none" => header_end = LineEnd(line_end + 1)
    BY DEF HeaderEnd
  <2>3. said.file = "none" => header_end = line_end
    BY DEF HeaderEnd
  <2>4. \A h : LineOf(body, line_end + 1, h)
                 <=> h = LineEnd(line_end + 1) /\ LineEnd(line_end + 1) # 0
    BY <1>1, <2>1, LineEndIs
  <2>5. LineEnd(line_end + 1) = 0 \/ LineEnd(line_end + 1) \in Nat \ {0}
    <3>1. LineEnd(line_end + 1) = 0 \/ LineEnd(line_end + 1) \in line_end + 1 .. Len(body)
      BY <1>1, <2>1, LineEndKnown
    <3>. HIDE DEF line_end
    <3>. QED BY <2>1, <3>1
  <2>. HIDE DEF header_end
  <2>. QED BY <2>1, <2>2, <2>3, <2>4, <2>5, Zenon
<1>8. ASSUME header_end \in Nat \ {0}
      PROVE  Reads(header_end + 1, <<"crlf">>)
               <=> header_end + 1 <= Len(body) /\ body[header_end + 1] = "crlf"
  <2>1. header_end + 1 \in Nat \ {0}
    BY <1>8
  <2>2. "crlf" \in Tokens
    BY DEF Tokens, Marks
  <2>. HIDE DEF header_end
  <2>. QED BY <2>1, <2>2, ReadsAre
<1>. DEFINE hd == Header
<1>9. ASSUME hd.ending = "none"
      PROVE  /\ hd = part_of /\ header_end \in Nat \ {0}
             /\ HeaderOf(body, idx, line_end, header_end, said.name, said.file)
  <2>1. /\ body[idx] = "disp" /\ line_end # 0 /\ said.ok /\ Named(said) /\ header_end # 0
        /\ Reads(header_end + 1, <<"crlf">>) /\ hd = part_of
    <3>. HIDE DEF line_end, said, header_end, malformed, part_of
    <3>. QED BY <1>2, <1>3, <1>9, Zenon
  <2>. HIDE DEF line_end, said, header_end, part_of, hd
  <2>2. header_end \in Nat \ {0}
    BY <1>7, <2>1, Zenon
  <2>3. LineOf(body, idx + 1, line_end)
    BY <1>4, <2>1, Zenon
  <2>4. /\ GoodWords(body, idx + 1, last)
        /\ Said(body, idx + 1, last, NameTokens, said.name)
        /\ Said(body, idx + 1, last, Files, said.file)
    BY <1>6, <2>1, Zenon DEF WordsRead
  <2>5. said.name \in Names
    BY <2>1, Zenon DEF Named
  <2>6. said.file \in {"none"} \cup Files
    BY <1>6, <2>1, FieldsAre, Zenon
  <2>7. IF said.file = "none" THEN header_end = line_end
        ELSE LineOf(body, line_end + 1, header_end)
    BY <1>7, <2>1, Zenon
  <2>8. header_end + 1 <= Len(body) /\ body[header_end + 1] = "crlf"
    BY <1>8, <2>1, <2>2, Zenon
  <2>. QED BY <2>1, <2>2, <2>3, <2>4, <2>5, <2>6, <2>7, <2>8, Zenon DEF HeaderOf
<1>10. ASSUME NEW e, NEW h, NEW m, NEW f, HeaderOf(body, idx, e, h, m, f)
       PROVE  hd = part_of /\ header_end = h /\ said.name = m /\ said.file = f
  <2>. HIDE DEF line_end, said, header_end, malformed, part_of, hd
  <2>1. e = line_end /\ line_end # 0
    BY <1>4, <1>10, Zenon DEF HeaderOf
  <2>2. /\ body[idx] = "disp" /\ GoodWords(body, idx + 1, last)
        /\ Said(body, idx + 1, last, NameTokens, m) /\ Said(body, idx + 1, last, Files, f)
        /\ m \in Names
    BY <1>10, <2>1, Zenon DEF HeaderOf
  <2>3. /\ said.ok
        /\ Said(body, idx + 1, last, NameTokens, said.name)
        /\ Said(body, idx + 1, last, Files, said.file)
    BY <1>6, <2>1, <2>2, Zenon DEF WordsRead
  <2>. HIDE DEF last
  <2>4. Once(Words(body, idx + 1, last, NameTokens)) /\ Once(Words(body, idx + 1, last, Files))
    BY <2>2, Zenon DEF GoodWords
  <2>5. said.name = m
    BY <2>2, <2>3, <2>4, SaidOnce, Zenon
  <2>6. said.file = f
    BY <2>2, <2>3, <2>4, SaidOnce, Zenon
  <2>7. header_end = h /\ header_end # 0
    <3>1. CASE f = "none"
      <4>1. h = e
        BY <1>10, <3>1, Zenon DEF HeaderOf
      <4>. QED BY <1>7, <2>1, <2>6, <3>1, <4>1, Zenon
    <3>2. CASE f # "none"
      <4>1. LineOf(body, line_end + 1, h)
        BY <1>10, <2>1, <3>2, Zenon DEF HeaderOf
      <4>. QED BY <1>7, <2>1, <2>6, <3>2, <4>1, Zenon
    <3>. QED BY <3>1, <3>2, Zenon
  <2>8. Reads(header_end + 1, <<"crlf">>)
    <3>1. header_end \in Nat \ {0}
      BY <1>7, <2>1, <2>7, Zenon
    <3>. QED BY <1>8, <1>10, <2>7, <3>1, Zenon DEF HeaderOf
  <2>9. Named(said)
    BY <2>2, <2>5, Zenon DEF Named
  <2>. QED BY <1>2, <2>1, <2>2, <2>3, <2>5, <2>6, <2>7, <2>8, <2>9, Zenon DEF hd
<1>11. ASSUME hd.ending = "none"
       PROVE  /\ HeaderOf(body, idx, line_end, hd.data - 2, hd.part.name, hd.part.file)
              /\ hd.data \in Nat
              /\ hd.part = [name |-> hd.part.name, file |-> hd.part.file]
  <2>. HIDE DEF line_end, said, header_end, malformed, part_of, hd
  <2>1. /\ hd.data = header_end + 2 /\ hd.part.name = said.name /\ hd.part.file = said.file
        /\ hd.part = [name |-> said.name, file |-> said.file]
    BY <1>3, <1>9, <1>11, Zenon
  <2>2. header_end \in Nat \ {0}
    BY <1>9, <1>11
  <2>3. hd.data - 2 = header_end /\ hd.data \in Nat
    BY <2>1, <2>2
  <2>. QED BY <1>9, <1>11, <2>1, <2>3, Zenon
<1>12. ASSUME NEW e, NEW h, NEW m, NEW f, HeaderOf(body, idx, e, h, m, f)
       PROVE  hd.ending = "none" /\ hd.data = h + 2 /\ hd.part.name = m /\ hd.part.file = f
  <2>. HIDE DEF line_end, said, header_end, malformed, part_of, hd
  <2>. QED BY <1>3, <1>10, <1>12, Zenon
<1>. HIDE DEF line_end
<1>. QED BY <1>11, <1>12, Zenon DEF hd

\* At most one place is one place.
LEMMA OnceIs ==
  ASSUME NEW S, IsFiniteSet(S)
  PROVE  Cardinality(S) <= 1 <=> Once(S)
<1>1. Cardinality(S) \in Nat
  BY FS_CardinalityType
<1>2. Cardinality(S) = 0 <=> S = {}
  BY FS_EmptySet
<1>3. Cardinality(S) = 1 <=> \E x : S = {x}
  BY FS_Singleton
<1>4. Once(S) <=> S = {} \/ \E x : S = {x}
  BY DEF Once
<1>. HIDE DEF Once
<1>. QED BY <1>1, <1>2, <1>3, <1>4

\* What follows the last place looked at is no parameter.
LEMMA TailIs ==
  ASSUME NEW t, NEW i \in Nat, NEW e \in Nat, i <= e, LineOf(t, i, e),
         NEW last, last = LastOf(t, i, e)
  PROVE  /\ last \in Int /\ last < e /\ last >= i - 1
         /\ \A k \in i .. e : k \in i .. last \/ t[k] \notin Params
<1>1. t[e] \in {"crlf", "lf"}
  BY DEF LineOf
<1>2. t[e] \notin Params
  BY <1>1, WordsDiffer
<1>3. t[e - 1] \in Short => t[e - 1] \notin Params
  BY WordsDiffer DEF Short
<1>4. \/ last = e - 1
      \/ last = e - 2 /\ e > i /\ t[e - 1] \in Short
  BY DEF LastOf
<1>5. CASE last = e - 1
  <2>1. \A k \in i .. e : k \in i .. last \/ k = e
    BY <1>5
  <2>. QED BY <1>2, <1>5, <2>1
<1>6. CASE last = e - 2 /\ e > i /\ t[e - 1] \in Short
  <2>1. \A k \in i .. e : k \in i .. last \/ k = e - 1 \/ k = e
    BY <1>6
  <2>2. last \in Int /\ last < e /\ last >= i - 1
    BY <1>6
  <2>. QED BY <1>2, <1>3, <1>6, <2>1, <2>2, Zenon
<1>. QED BY <1>4, <1>5, <1>6

SaidOf(t, i, e) == {t[k] : k \in i .. e}
SaidAsSet(t, i, e, m, f) ==
  /\ Said(t, i, LastOf(t, i, e), NameTokens, m) <=> SaidOf(t, i, e) \cap Names = {m}
  /\ Said(t, i, LastOf(t, i, e), Files, f)
       <=> SaidOf(t, i, e) \cap Files = {f} \ {"none"}

\* What a line says of the names and of the files, as a set.
LEMMA SaidSet ==
  ASSUME NEW t, NEW i \in Nat, NEW e \in Nat, i <= e, LineOf(t, i, e),
         GoodWords(t, i, LastOf(t, i, e)),
         NEW m \in Names, NEW f \in {"none"} \cup Files
  PROVE  SaidAsSet(t, i, e, m, f)
<1>. DEFINE last == LastOf(t, i, e)
            W == SaidOf(t, i, e)
<1>0. Once(Words(t, i, last, NameTokens)) /\ Once(Words(t, i, last, Files))
  BY Zenon DEF GoodWords
<1>1. /\ last \in Int /\ last < e
      /\ \A k \in i .. e : k \in i .. last \/ t[k] \notin Params
  BY TailIs
<1>. HIDE DEF last
<1>2. \A k \in i .. last : k \in i .. e
  BY <1>1
<1>3. /\ Names \subseteq NameTokens /\ NameTokens \subseteq Params /\ Files \subseteq Params
      /\ "none" \notin Names /\ "none" \notin Files
  BY WordsDiffer DEF NameTokens
<1>4. \A T : \A k : k \in Words(t, i, last, T) <=> k \in i .. last /\ t[k] \in T
  BY DEF Words
<1>5. \A y : y \in W <=> \E k \in i .. e : y = t[k]
  BY DEF SaidOf
<1>. HIDE DEF W
<1>6. \A y : y \in W /\ y \in Params <=> \E k \in i .. last : y = t[k] /\ y \in Params
  BY <1>1, <1>2, <1>5, Zenon
<1>7. ASSUME Said(t, i, last, NameTokens, m) PROVE W \cap Names = {m}
  <2>1. PICK j \in Words(t, i, last, NameTokens) : m = t[j]
    BY <1>3, <1>7, Zenon DEF Said
  <2>2. m \in W
    BY <1>2, <1>4, <1>5, <2>1, Zenon
  <2>3. ASSUME NEW y \in W, y \in Names PROVE y = m
    <3>1. PICK k \in i .. last : y = t[k]
      BY <1>3, <1>6, <2>3, Zenon
    <3>2. k \in Words(t, i, last, NameTokens)
      BY <1>3, <1>4, <2>3, <3>1, Zenon
    <3>. QED BY <2>1, <3>1, <3>2, <1>0, Zenon DEF Once
  <2>. QED BY <2>2, <2>3
<1>8. ASSUME W \cap Names = {m} PROVE Said(t, i, last, NameTokens, m)
  <2>1. m \in W
    BY <1>8
  <2>2. PICK k \in i .. last : m = t[k]
    BY <1>3, <1>6, <2>1
  <2>. QED BY <1>3, <1>4, <2>2, Zenon DEF Said
<1>9. ASSUME Said(t, i, last, Files, f) PROVE W \cap Files = {f} \ {"none"}
  <2>1. CASE f = "none"
    <3>1. Words(t, i, last, Files) = {}
      BY <2>1, <1>9, Zenon DEF Said
    <3>2. \A y \in Files : y \notin W
      <4>1. \A y \in Files : y \in Params
        BY <1>3
      <4>. QED BY <1>4, <1>6, <3>1, <4>1
    <3>. QED BY <2>1, <3>2
  <2>2. CASE f # "none"
    <3>1. PICK j \in Words(t, i, last, Files) : f = t[j]
      BY <2>2, <1>9, Zenon DEF Said
    <3>2. f \in W /\ f \in Files
      BY <1>2, <1>4, <1>5, <3>1, Zenon
    <3>3. ASSUME NEW y \in W, y \in Files PROVE y = f
      <4>1. y \in Params
        BY <1>3, <3>3
      <4>2. PICK k \in i .. last : y = t[k]
        BY <1>6, <4>1, Zenon
      <4>3. k \in Words(t, i, last, Files)
        BY <1>4, <3>3, <4>2, Zenon
      <4>. QED BY <3>1, <4>2, <4>3, <1>0, Zenon DEF Once
    <3>. QED BY <2>2, <3>2, <3>3
  <2>. QED BY <2>1, <2>2
<1>10. ASSUME W \cap Files = {f} \ {"none"} PROVE Said(t, i, last, Files, f)
  <2>1. CASE f = "none"
    <3>1. \A y \in Files : y \notin W
      BY <1>10, <2>1
    <3>2. Words(t, i, last, Files) = {}
      BY <1>2, <1>4, <1>5, <3>1, Zenon
    <3>. QED BY <2>1, <3>2, Zenon DEF Said
  <2>2. CASE f # "none"
    <3>1. f \in W /\ f \in Files
      BY <1>10, <2>2
    <3>2. f \in Params
      BY <1>3, <3>1
    <3>3. PICK k \in i .. last : f = t[k]
      BY <1>6, <3>1, <3>2, Zenon
    <3>. QED BY <1>4, <2>2, <3>1, <3>3, Zenon DEF Said
  <2>. QED BY <2>1, <2>2
<1>. QED BY <1>7, <1>8, <1>9, <1>10, Zenon DEF SaidAsSet, last, W

\* The grammar of a line is what the parser accepts.
LEMMA GoodLineIs ==
  ASSUME body \in Seq(Tokens), boundary_len \in 3 .. 70, NEW i \in Nat, i >= 2,
         body[i - 1] = "disp", NEW e \in i .. Len(body)
  PROVE  GoodLine(i, e) <=> GoodWords(body, i, LastOf(body, i, e))
<1>. DEFINE last == IF body[e] = "lf" /\ Width(body[e - 1]) = 1 THEN e - 2 ELSE e - 1
            at(set) == {k \in i .. last : body[k] \in set}
<1>1. Len(body) \in Nat /\ \A k \in 1 .. Len(body) : body[k] \in Tokens
  BY LenProperties, ElementOfSeq
<1>2. last = LastOf(body, i, e)
  <2>1. e - 1 \in 1 .. Len(body)
    BY <1>1
  <2>2. Width(body[e - 1]) = 1 <=> body[e - 1] \in Short
    BY <1>1, <2>1, ShortIs
  <2>3. body[e - 1] \in Short => e > i
    <3>1. SUFFICES ASSUME body[e - 1] \in Short, ~(e > i) PROVE FALSE
      BY Zenon
    <3>2. e = i
      BY <1>1, <3>1
    <3>. QED BY <3>1, <3>2 DEF Short
  <2>. QED BY <2>2, <2>3, Zenon DEF LastOf
<1>3. last \in Int
  BY <1>1
<1>4. \A set : at(set) = Words(body, i, last, set)
  BY DEF Words
<1>5. GoodLine(i, e) <=>
        /\ i .. last = at(Params \cup {"semi", "sp"})
        /\ Cardinality(at(NameTokens)) <= 1 /\ Cardinality(at(Files)) <= 1
        /\ \A j, k \in at({"semi"}) : j < k => \E n \in at(Params) : j < n /\ n < k
  BY Zenon DEF GoodLine, NameTokens
<1>6. i .. last = at(Params \cup {"semi", "sp"})
        <=> \A j \in i .. last : body[j] \in Params \cup {"semi", "sp"}
  <2>. HIDE DEF last
  <2>. QED OBVIOUS
<1>7. \A set : IsFiniteSet(at(set))
  <2>1. IsFiniteSet(i .. last)
    <3>. HIDE DEF last
    <3>. QED BY <1>3, FS_Interval
  <2>2. \A set : at(set) \in SUBSET (i .. last)
    OBVIOUS
  <2>. HIDE DEF last, at
  <2>. QED BY <2>1, <2>2, FS_Subset
<1>. HIDE DEF last, at
<1>8. \A set : Cardinality(at(set)) <= 1 <=> Once(at(set))
  BY <1>7, OnceIs
<1>. QED BY <1>2, <1>4, <1>5, <1>6, <1>8, Zenon DEF GoodWords

-----------------------------------------------------------------------------
(***************************************************************************)
(* Boundaries                                                              *)
(***************************************************************************)

\* The next boundary from place d on, at place j.
Bound(t, d, j) ==
  /\ j \in d .. Len(t) /\ j + 2 <= Len(t)
  /\ t[j] = "crlf" /\ t[j + 1] = "--" /\ t[j + 2] = "bnd"
  /\ \A k \in d .. j - 1 : ~(k + 1 <= Len(t) /\ t[k] = "crlf" /\ t[k + 1] = "--")

\* The tokens of a boundary.
LEMMA TokensAre == "--" \in Tokens /\ "bnd" \in Tokens /\ "crlf" \in Tokens /\ "disp" \in Tokens
  BY DEF Tokens, Marks

\* The end of the data that the parser finds is the next boundary, if any.
LEMMA DataEndIs ==
  ASSUME body \in Seq(Tokens), idx \in Nat \ {0}
  PROVE  \A j : Bound(body, idx, j) <=> j = DataEnd /\ DataEnd # 0
<1>. DEFINE n == Len(body)
            T == {j \in idx .. n : Reads(j, <<"crlf", "--">>)}
            f == First(T)
<1>1. n \in Nat
  BY LenProperties
<1>2. \A j \in Nat \ {0} : Reads(j, <<"crlf", "--">>)
                             <=> j + 1 <= n /\ body[j] = "crlf" /\ body[j + 1] = "--"
  BY TokensAre, ReadsAre
<1>3. \A j \in Nat \ {0} : Delimits(j) <=> j + 2 <= n /\ body[j + 2] = "bnd"
  <2>1. ASSUME NEW j \in Nat \ {0}
        PROVE  Delimits(j) <=> j + 2 <= n /\ body[j + 2] = "bnd"
    <3>1. j + 2 \in Nat \ {0}
      OBVIOUS
    <3>2. Reads(j + 2, <<"bnd">>) <=> j + 2 <= n /\ body[j + 2] = "bnd"
      BY <3>1, TokensAre, ReadsAre
    <3>. QED BY <3>2, Zenon DEF Delimits
  <2>. QED BY <2>1
<1>4. T \subseteq 0 .. n /\ \A j \in T : j \in Nat \ {0} /\ j \in idx .. n
  BY <1>1
<1>5. DataEnd = IF T # {} /\ Delimits(f) THEN f ELSE 0
  BY DEF DataEnd
<1>6. T # {} => f \in T /\ \A k \in T : f <= k
  <2>. HIDE DEF T, n
  <2>. QED BY <1>1, <1>4, FirstLeast
<1>7. \A k \in idx .. n : k \in T <=> k + 1 <= n /\ body[k] = "crlf" /\ body[k + 1] = "--"
  <2>1. \A k \in idx .. n : k \in Nat \ {0}
    BY <1>1
  <2>. QED BY <1>2, <2>1
<1>. HIDE DEF T, n, f
<1>8. ASSUME DataEnd # 0 PROVE Bound(body, idx, DataEnd)
  <2>1. T # {} /\ Delimits(f) /\ DataEnd = f /\ f \in T /\ \A k \in T : f <= k
    BY <1>5, <1>6, <1>8, Zenon
  <2>2. f \in idx .. n /\ f \in Nat \ {0}
    BY <1>4, <2>1
  <2>3. f + 2 <= n /\ body[f] = "crlf" /\ body[f + 1] = "--" /\ body[f + 2] = "bnd"
    BY <1>3, <1>7, <2>1, <2>2, Zenon
  <2>4. \A k \in idx .. f - 1 : k \in idx .. n /\ ~(f <= k)
    BY <1>1, <2>2
  <2>5. \A k \in idx .. f - 1 : ~(k + 1 <= n /\ body[k] = "crlf" /\ body[k + 1] = "--")
    BY <1>7, <2>1, <2>4, Zenon
  <2>. QED BY <2>1, <2>2, <2>3, <2>5, Zenon DEF Bound, n
<1>9. ASSUME NEW j, Bound(body, idx, j) PROVE j = DataEnd /\ DataEnd # 0
  <2>1. /\ j \in idx .. n /\ j + 2 <= n
        /\ body[j] = "crlf" /\ body[j + 1] = "--" /\ body[j + 2] = "bnd"
        /\ \A k \in idx .. j - 1 : ~(k + 1 <= n /\ body[k] = "crlf" /\ body[k + 1] = "--")
    BY <1>9, Zenon DEF Bound, n
  <2>2. j + 1 <= n /\ j \in Nat \ {0}
    BY <1>1, <2>1
  <2>3. j \in T
    BY <1>7, <2>1, <2>2, Zenon
  <2>4. f \in T /\ f <= j /\ f \in idx .. n
    BY <1>4, <1>6, <2>3
  <2>5. f \notin idx .. j - 1
    BY <1>7, <2>1, <2>4, Zenon
  <2>6. f = j
    BY <1>1, <2>1, <2>4, <2>5
  <2>7. Delimits(f)
    BY <1>3, <2>1, <2>2, <2>6, Zenon
  <2>. QED BY <1>5, <2>2, <2>3, <2>6, <2>7
<1>. QED BY <1>8, <1>9, Zenon

\* The cuts of the grammar.
LineEnds == {k \in DOMAIN body : body[k] \in {"crlf", "lf"}}
CutsAre == [e : LineEnds, h : {k \in LineEnds : Reads(k + 1, <<"crlf">>)},
            j : {k \in LineEnds : Reads(k, <<"crlf", "--", "bnd">>)},
            n : Names, f : {"none"} \cup Files]

\* A part of the grammar is a header, and data up to the next boundary.
LEMMA PartIs ==
  ASSUME body \in Seq(Tokens), boundary_len \in 3 .. 70, NEW i \in Nat \ {0},
         body[i + 3] = "disp"
  PROVE  /\ \A p \in CutsAre : IsPart(i, p) =>
              HeaderOf(body, i + 3, p.e, p.h, p.n, p.f) /\ Bound(body, p.h + 2, p.j)
         /\ \A e, h, j, m, f : HeaderOf(body, i + 3, e, h, m, f) /\ Bound(body, h + 2, j) =>
              \E p \in CutsAre : /\ IsPart(i, p)
                                 /\ p.e = e /\ p.h = h /\ p.j = j /\ p.n = m /\ p.f = f
<1>. DEFINE n == Len(body)
<1>1. n \in Nat /\ DOMAIN body = 1 .. n
  BY LenProperties
<1>2. \A j \in Nat \ {0} :
        /\ Reads(j, <<"crlf", "--">>) <=> j + 1 <= n /\ body[j] = "crlf" /\ body[j + 1] = "--"
        /\ Reads(j, <<"crlf", "--", "bnd">>)
             <=> j + 2 <= n /\ body[j] = "crlf" /\ body[j + 1] = "--" /\ body[j + 2] = "bnd"
        /\ Reads(j, <<"crlf">>) <=> j <= n /\ body[j] = "crlf"
  BY TokensAre, ReadsAre
<1>3. \A a, e : LineAt(a, e) <=> LineOf(body, a, e)
  BY Zenon DEF LineAt, LineOf
<1>4. i + 4 \in Nat /\ i + 4 >= 2 /\ i + 4 - 1 = i + 3 /\ i + 3 + 1 = i + 4 /\ i + 4 \in Nat \ {0}
  OBVIOUS
\* The header of a cut.
<1>. DEFINE W(e) == {body[k] : k \in i + 4 .. e}
            Starts(e, h, m, f) ==
              /\ IF f = "none" THEN h = e ELSE LineAt(e + 1, h)
              /\ LineAt(i + 4, e) /\ GoodLine(i + 4, e)
              /\ W(e) \cap Names = {m} /\ W(e) \cap Files = {f} \ {"none"}
<1>5. ASSUME NEW e, LineOf(body, i + 4, e)
      PROVE  /\ e \in Nat /\ i + 4 <= e /\ e \in i + 4 .. n
             /\ GoodLine(i + 4, e) <=> GoodWords(body, i + 4, LastOf(body, i + 4, e))
  <2>1. e \in i + 4 .. Len(body)
    BY <1>5, Zenon DEF LineOf
  <2>2. e \in Nat /\ i + 4 <= e
    BY <1>1, <2>1
  <2>3. body[i + 4 - 1] = "disp"
    BY <1>4
  <2>4. GoodLine(i + 4, e) <=> GoodWords(body, i + 4, LastOf(body, i + 4, e))
    BY <1>4, <2>1, <2>3, GoodLineIs
  <2>. QED BY <2>1, <2>2, <2>4
<1>6. ASSUME NEW e, NEW h, NEW m \in Names, NEW f \in {"none"} \cup Files
      PROVE  HeaderOf(body, i + 3, e, h, m, f)
               <=> Starts(e, h, m, f) /\ h + 1 <= n /\ body[h + 1] = "crlf"
  <2>. DEFINE last == LastOf(body, i + 4, e)
  <2>1. HeaderOf(body, i + 3, e, h, m, f) <=>
          /\ LineOf(body, i + 4, e) /\ GoodWords(body, i + 4, last)
          /\ Said(body, i + 4, last, NameTokens, m) /\ Said(body, i + 4, last, Files, f)
          /\ IF f = "none" THEN h = e ELSE LineOf(body, e + 1, h)
          /\ h + 1 <= n /\ body[h + 1] = "crlf"
    BY <1>4, Zenon DEF HeaderOf
  <2>2. ASSUME LineOf(body, i + 4, e), GoodWords(body, i + 4, last)
        PROVE  /\ Said(body, i + 4, last, NameTokens, m) <=> W(e) \cap Names = {m}
               /\ Said(body, i + 4, last, Files, f) <=> W(e) \cap Files = {f} \ {"none"}
    <3>1. e \in Nat /\ i + 4 <= e
      BY <1>5, <2>2, Zenon
    <3>2. W(e) = SaidOf(body, i + 4, e)
      BY DEF SaidOf
    <3>. HIDE DEF W
    <3>3. /\ Said(body, i + 4, last, NameTokens, m) <=> SaidOf(body, i + 4, e) \cap Names = {m}
          /\ Said(body, i + 4, last, Files, f)
               <=> SaidOf(body, i + 4, e) \cap Files = {f} \ {"none"}
      <4>1. SaidAsSet(body, i + 4, e, m, f)
        BY <1>4, <2>2, <3>1, SaidSet, Zenon
      <4>. QED BY <4>1, Zenon DEF SaidAsSet
    <3>. HIDE DEF last
    <3>. QED BY <3>2, <3>3, Zenon
  <2>. HIDE DEF last, W, n
  <2>3. LineAt(i + 4, e) <=> LineOf(body, i + 4, e)
    BY <1>3, Zenon
  <2>4. LineAt(e + 1, h) <=> LineOf(body, e + 1, h)
    BY <1>3, Zenon
  <2>5. LineOf(body, i + 4, e) => (GoodLine(i + 4, e) <=> GoodWords(body, i + 4, last))
    BY <1>5, Zenon DEF last
  <2>. QED BY <2>1, <2>2, <2>3, <2>4, <2>5, Zenon
<1>7. \A p : IsPart(i, p) <=> /\ p.j > p.h + 1 /\ Starts(p.e, p.h, p.n, p.f)
                              /\ \A k \in p.h + 2 .. p.j - 1 : ~Reads(k, <<"crlf", "--">>)
  BY Zenon DEF IsPart
<1>8. \A h \in Nat, j \in Nat : \A k \in h + 2 .. j - 1 : k \in Nat \ {0}
  OBVIOUS
<1>9. ASSUME NEW h \in Nat \ {0}, NEW j \in Nat \ {0}
      PROVE  Bound(body, h + 2, j) <=>
               /\ j > h + 1 /\ Reads(j, <<"crlf", "--", "bnd">>)
               /\ \A k \in h + 2 .. j - 1 : ~Reads(k, <<"crlf", "--">>)
  <2>1. (\A k \in h + 2 .. j - 1 : ~Reads(k, <<"crlf", "--">>))
          <=> \A k \in h + 2 .. j - 1 : ~(k + 1 <= n /\ body[k] = "crlf" /\ body[k + 1] = "--")
    BY <1>2, <1>8, Zenon
  <2>2. j + 2 <= n => (j > h + 1 <=> j \in h + 2 .. n)
    BY <1>1
  <2>3. Reads(j, <<"crlf", "--", "bnd">>)
          <=> j + 2 <= n /\ body[j] = "crlf" /\ body[j + 1] = "--" /\ body[j + 2] = "bnd"
    BY <1>2, Zenon
  <2>. QED BY <2>1, <2>2, <2>3, Zenon DEF Bound
<1>. HIDE DEF Starts
<1>10. ASSUME NEW p \in CutsAre, IsPart(i, p)
       PROVE  HeaderOf(body, i + 3, p.e, p.h, p.n, p.f) /\ Bound(body, p.h + 2, p.j)
  <2>1. /\ p.e \in LineEnds /\ p.h \in LineEnds /\ Reads(p.h + 1, <<"crlf">>)
        /\ p.j \in LineEnds /\ Reads(p.j, <<"crlf", "--", "bnd">>)
        /\ p.n \in Names /\ p.f \in {"none"} \cup Files
    <3>1. p \in [e : LineEnds, h : {k \in LineEnds : Reads(k + 1, <<"crlf">>)},
                 j : {k \in LineEnds : Reads(k, <<"crlf", "--", "bnd">>)},
                 n : Names, f : {"none"} \cup Files]
      BY Zenon DEF CutsAre
    <3>. DEFINE H == {k \in LineEnds : Reads(k + 1, <<"crlf">>)}
                J == {k \in LineEnds : Reads(k, <<"crlf", "--", "bnd">>)}
    <3>2. p \in [e : LineEnds, h : H, j : J, n : Names, f : {"none"} \cup Files]
      BY <3>1
    <3>3. p.e \in LineEnds /\ p.h \in H /\ p.j \in J /\ p.n \in Names /\ p.f \in {"none"} \cup Files
      <4>. HIDE DEF H, J
      <4>. QED BY <3>2
    <3>. QED BY <3>3, Zenon
  <2>2. p.h \in Nat \ {0} /\ p.j \in Nat \ {0} /\ p.h + 1 \in Nat \ {0}
    <3>1. p.h \in 1 .. n /\ p.j \in 1 .. n
      BY <1>1, <2>1 DEF LineEnds
    <3>. HIDE DEF n
    <3>. QED BY <1>1, <3>1
  <2>3. p.h + 1 <= n /\ body[p.h + 1] = "crlf"
    BY <1>2, <2>1, <2>2, Zenon
  <2>. HIDE DEF n
  <2>. QED BY <1>6, <1>7, <1>9, <1>10, <2>1, <2>2, <2>3, Zenon
<1>11. ASSUME NEW e, NEW h, NEW j, NEW m, NEW f,
              HeaderOf(body, i + 3, e, h, m, f), Bound(body, h + 2, j)
       PROVE  \E p \in CutsAre : /\ IsPart(i, p)
                                 /\ p.e = e /\ p.h = h /\ p.j = j /\ p.n = m /\ p.f = f
  <2>1. m \in Names /\ f \in {"none"} \cup Files /\ LineOf(body, i + 4, e)
        /\ IF f = "none" THEN h = e ELSE LineOf(body, e + 1, h)
    BY <1>4, <1>11, Zenon DEF HeaderOf
  <2>2. Starts(e, h, m, f) /\ h + 1 <= n /\ body[h + 1] = "crlf"
    BY <1>6, <1>11, <2>1, Zenon
  <2>3. e \in Nat /\ i + 4 <= e /\ e \in i + 4 .. n /\ body[e] \in {"crlf", "lf"}
    <3>1. body[e] \in {"crlf", "lf"}
      BY <2>1, Zenon DEF LineOf
    <3>. QED BY <1>5, <2>1, <3>1, Zenon
  <2>4. e \in LineEnds
    BY <1>1, <2>3 DEF LineEnds
  <2>5. h \in LineEnds /\ h \in Nat \ {0}
    <3>1. CASE f = "none"
      BY <2>1, <2>3, <2>4, <3>1
    <3>2. CASE f # "none"
      <4>1. h \in e + 1 .. n /\ body[h] \in {"crlf", "lf"}
        BY <2>1, <3>2, Zenon DEF LineOf
      <4>2. h \in 1 .. n
        BY <1>1, <2>3, <4>1
      <4>3. h \in Nat \ {0}
        BY <4>2
      <4>. QED BY <1>1, <4>1, <4>2, <4>3 DEF LineEnds
    <3>. QED BY <3>1, <3>2
  <2>6. j \in h + 2 .. n /\ body[j] = "crlf"
    BY <1>11, Zenon DEF Bound
  <2>7. j \in 1 .. n /\ j \in Nat \ {0} /\ h + 1 \in Nat \ {0}
    BY <1>1, <2>5, <2>6
  <2>8. j \in LineEnds
    BY <1>1, <2>6, <2>7 DEF LineEnds
  <2>9. /\ j > h + 1 /\ Reads(j, <<"crlf", "--", "bnd">>)
        /\ \A k \in h + 2 .. j - 1 : ~Reads(k, <<"crlf", "--">>)
    BY <1>9, <1>11, <2>5, <2>7, Zenon
  <2>10. Reads(h + 1, <<"crlf">>)
    BY <1>2, <2>2, <2>7, Zenon
  <2>. DEFINE p == [e |-> e, h |-> h, j |-> j, n |-> m, f |-> f]
  <2>11. p.e = e /\ p.h = h /\ p.j = j /\ p.n = m /\ p.f = f
    OBVIOUS
  <2>12. p \in CutsAre
    <3>. DEFINE H == {k \in LineEnds : Reads(k + 1, <<"crlf">>)}
                J == {k \in LineEnds : Reads(k, <<"crlf", "--", "bnd">>)}
    <3>1. h \in H /\ j \in J
      BY <2>5, <2>8, <2>9, <2>10, Zenon
    <3>2. p \in [e : LineEnds, h : H, j : J, n : Names, f : {"none"} \cup Files]
      <4>. HIDE DEF H, J
      <4>. QED BY <2>1, <2>4, <3>1
    <3>. QED BY <3>2, Zenon DEF CutsAre
  <2>. HIDE DEF p
  <2>13. IsPart(i, p)
    BY <1>7, <2>2, <2>9, <2>11, Zenon
  <2>. QED BY <2>11, <2>12, <2>13, Zenon
<1>12. \A e, h, j, m, f : HeaderOf(body, i + 3, e, h, m, f) /\ Bound(body, h + 2, j) =>
         \E p \in CutsAre : IsPart(i, p) /\ p.e = e /\ p.h = h /\ p.j = j /\ p.n = m /\ p.f = f
  BY <1>11
<1>. QED BY <1>10, <1>12

-----------------------------------------------------------------------------
(***************************************************************************)
(* The end of a body                                                       *)
(***************************************************************************)

\* V is the recursion of the bytes from each place on.
BytesRule(V) ==
  V = [k \in 1 .. Len(body) + 1 |->
         IF k > Len(body) THEN 0 ELSE Width(body[k]) + V[k + 1]]

\* The recursion has a solution.
LEMMA BytesExist ==
  ASSUME body \in Seq(Tokens), boundary_len \in 3 .. 70
  PROVE  \E V : BytesRule(V)
<1>. DEFINE n == Len(body)
            hi == n + 1
            I == 1 .. hi
            C == Nat
            E(i, f) == IF i > n THEN 0 ELSE Width(body[i]) + f[i + 1]
            G == [x \in I \X [I -> C] |-> E(x[1], x[2])]
<1>1. n \in Nat /\ hi \in Nat /\ 1 \in Nat /\ C # {}
  BY LenProperties
<1>2. \A k \in 1 .. n : Width(body[k]) \in Nat
  <2>1. \A k \in 1 .. n : body[k] \in Tokens
    BY ElementOfSeq
  <2>. QED BY <2>1, ShortIs
<1>3. \A i \in I : ~(i > n) => i \in 1 .. n /\ i + 1 \in (i + 1) .. hi /\ i + 1 \in I
  <2>. HIDE DEF n
  <2>. QED BY <1>1
<1>. HIDE DEF n, hi
<1>4. \A i \in I : \A f \in [I -> C] : E(i, f) \in C
  <2>1. ASSUME NEW i \in I, NEW f \in [I -> C]
        PROVE  E(i, f) \in C
    <3>1. CASE i > n
      BY <3>1
    <3>2. CASE ~(i > n)
      <4>1. f[i + 1] \in Nat /\ Width(body[i]) \in Nat
        BY <1>2, <1>3, <3>2
      <4>2. E(i, f) = Width(body[i]) + f[i + 1]
        BY <3>2, Zenon
      <4>. HIDE DEF E
      <4>. QED BY <4>1, <4>2
    <3>. QED BY <3>1, <3>2
  <2>. QED BY <2>1
<1>5. \A i \in I : \A f, g \in [I -> C] :
        (\A j \in (i + 1) .. hi : f[j] = g[j]) => E(i, f) = E(i, g)
  <2>1. ASSUME NEW i \in I, NEW f \in [I -> C], NEW g \in [I -> C],
               \A j \in (i + 1) .. hi : f[j] = g[j]
        PROVE  E(i, f) = E(i, g)
    <3>1. ~(i > n) => f[i + 1] = g[i + 1]
      BY <1>3, <2>1, Zenon
    <3>. QED BY <3>1, Zenon
  <2>. QED BY <2>1
<1>6. G \in [I \X [I -> C] -> C] /\ \A i \in I : \A f \in [I -> C] : G[<<i, f>>] = E(i, f)
  <2>. HIDE DEF I, E, C
  <2>. QED BY <1>4
<1>. HIDE DEF E, G, C
<1>7. \A i \in I : \A f, g \in [I -> C] :
        (\A j \in (i + 1) .. hi : f[j] = g[j]) => G[<<i, f>>] = G[<<i, g>>]
  <2>. HIDE DEF I
  <2>1. ASSUME NEW i \in I, NEW f \in [I -> C], NEW g \in [I -> C],
               \A j \in (i + 1) .. hi : f[j] = g[j]
        PROVE  G[<<i, f>>] = G[<<i, g>>]
    <3>1. E(i, f) = E(i, g)
      BY <1>5, <2>1, Zenon
    <3>2. G[<<i, f>>] = E(i, f) /\ G[<<i, g>>] = E(i, g)
      BY <1>6, Zenon
    <3>. QED BY <3>1, <3>2, Zenon
  <2>. QED BY <2>1
<1>8. Backward(1, hi, C, G)
  BY <1>1, <1>6, <1>7, Zenon DEF Backward
<1>9. \E f \in [I -> C] : \A i \in I : f[i] = G[<<i, f>>]
  BY <1>8, BackwardExists
<1>10. PICK f \in [I -> C] : \A i \in I : f[i] = E(i, f)
  <2>. HIDE DEF I
  <2>. QED BY <1>6, <1>9, Zenon
<1>11. f = [i \in I |-> E(i, f)]
  <2>. HIDE DEF I
  <2>. QED BY <1>10
<1>. QED BY <1>11, Zenon DEF BytesRule, E, I, hi, n

\* The bytes from a place on: none behind the end, or those of the token there
\* and what follows.
LEMMA BytesAre ==
  ASSUME body \in Seq(Tokens), boundary_len \in 3 .. 70
  PROVE  /\ BytesFrom(Len(body) + 1) = 0
         /\ \A k \in 1 .. Len(body) : BytesFrom(k) = Width(body[k]) + BytesFrom(k + 1)
         /\ \A k \in 1 .. Len(body) + 1 : BytesFrom(k) \in Nat
<1>. DEFINE n == Len(body)
            W == CHOOSE V : BytesRule(V)
            S == {k \in 1 .. n + 1 : BytesFrom(k) \in Nat}
<1>1. n \in Nat /\ \A k \in 1 .. n : body[k] \in Tokens
  BY LenProperties, ElementOfSeq
<1>2. BytesRule(W)
  BY BytesExist, Zenon
<1>3. \A k : BytesFrom(k) = W[k]
  BY Zenon DEF BytesFrom, BytesRule
<1>. HIDE DEF W
<1>4. \A k \in 1 .. n + 1 : W[k] = IF k > n THEN 0 ELSE Width(body[k]) + W[k + 1]
  <2>. DEFINE E(k) == IF k > n THEN 0 ELSE Width(body[k]) + W[k + 1]
  <2>1. W = [k \in 1 .. n + 1 |-> E(k)]
    BY <1>2, Zenon DEF BytesRule
  <2>. HIDE DEF E
  <2>2. \A k \in 1 .. n + 1 : W[k] = E(k)
    BY <2>1
  <2>. QED BY <2>2, Zenon DEF E
<1>5. BytesFrom(n + 1) = 0
  <2>1. n + 1 \in 1 .. n + 1 /\ n + 1 > n
    BY <1>1
  <2>. QED BY <1>3, <1>4, <2>1, Zenon
<1>6. \A k \in 1 .. n : BytesFrom(k) = Width(body[k]) + BytesFrom(k + 1)
  <2>1. \A k \in 1 .. n : k \in 1 .. n + 1 /\ ~(k > n)
    BY <1>1
  <2>. QED BY <1>3, <1>4, <2>1, Zenon
<1>7. \A k \in 1 .. n + 1 : k \in S
  <2>1. ASSUME NEW k \in 1 .. n + 1, \A j \in (k + 1) .. n + 1 : j \in S
        PROVE  k \in S
    <3>1. CASE k = n + 1
      BY <1>5, <3>1
    <3>2. CASE k # n + 1
      <4>1. k \in 1 .. n /\ k + 1 \in (k + 1) .. n + 1
        BY <1>1, <3>2
      <4>2. BytesFrom(k + 1) \in Nat /\ Width(body[k]) \in Nat
        BY <1>1, <2>1, <4>1, ShortIs
      <4>3. BytesFrom(k) \in Nat
        BY <1>6, <4>1, <4>2
      <4>. QED BY <4>3
    <3>. QED BY <3>1, <3>2
  <2>2. 1 \in Nat /\ n + 1 \in Nat
    BY <1>1
  <2>. HIDE DEF S, n
  <2>. QED BY <2>1, <2>2, DownFrom
<1>. QED BY <1>5, <1>6, <1>7

\* The closing boundary at place i, with or without a last line end: what is
\* left is as long as one.
EndsAt(t, i) ==
  /\ i + 2 <= Len(t) /\ t[i] = "--" /\ t[i + 1] = "bnd" /\ t[i + 2] = "--"
  /\ \/ i + 2 = Len(t)
     \/ i + 3 = Len(t) /\ t[i + 3] \in {"--", "crlf"}
     \/ i + 4 = Len(t) /\ t[i + 3] \in Short /\ t[i + 4] \in Short

\* A part begins at place i.
Begins(t, i) ==
  /\ i + 3 <= Len(t) /\ t[i] = "--" /\ t[i + 1] = "bnd" /\ t[i + 2] = "crlf"

\* A place in the text, and the bytes of its token.
LEMMA BytesAt ==
  ASSUME body \in Seq(Tokens), boundary_len \in 3 .. 70, NEW k \in 1 .. Len(body)
  PROVE  /\ BytesFrom(k) = Width(body[k]) + BytesFrom(k + 1)
         /\ BytesFrom(k) \in Nat /\ BytesFrom(k + 1) \in Nat
         /\ Width(body[k]) \in Nat /\ Width(body[k]) >= 1
         /\ Width(body[k]) = 1 <=> body[k] \in Short
         /\ Width(body[k]) = 2 <=> body[k] \in {"--", "crlf"}
         /\ body[k] = "bnd" => Width(body[k]) = boundary_len
         /\ body[k] = "disp" => Width(body[k]) = 31
<1>1. Len(body) \in Nat /\ body[k] \in Tokens
  BY LenProperties, ElementOfSeq
<1>2. k \in 1 .. Len(body) + 1 /\ k + 1 \in 1 .. Len(body) + 1
  BY <1>1
<1>3. /\ BytesFrom(k) = Width(body[k]) + BytesFrom(k + 1)
      /\ BytesFrom(k) \in Nat /\ BytesFrom(k + 1) \in Nat
  BY <1>2, BytesAre, Zenon
<1>4. /\ Width(body[k]) = 1 <=> body[k] \in Short
      /\ Width(body[k]) \in Nat /\ Width(body[k]) >= 1
      /\ Width(body[k]) = 2 <=> body[k] \in {"--", "crlf"}
      /\ body[k] = "bnd" => Width(body[k]) = boundary_len
      /\ body[k] = "disp" => Width(body[k]) = 31
  BY <1>1, ShortIs, Zenon
<1>. QED BY <1>3, <1>4, Zenon

\* Nothing more, or two bytes more.
LEMMA LastBytes ==
  ASSUME body \in Seq(Tokens), boundary_len \in 3 .. 70, NEW k \in 1 .. Len(body) + 1
  PROVE  BytesFrom(k) \in {0, 2} <=>
           \/ k = Len(body) + 1
           \/ k = Len(body) /\ body[k] \in {"--", "crlf"}
           \/ k + 1 = Len(body) /\ body[k] \in Short /\ body[k + 1] \in Short
<1>. DEFINE n == Len(body)
<1>1. n \in Nat /\ BytesFrom(n + 1) = 0
  BY LenProperties, BytesAre, Zenon
<1>2. CASE k = n + 1
  BY <1>1, <1>2
<1>3. CASE k = n
  <2>1. k \in 1 .. n
    BY <1>1, <1>3
  <2>2. /\ BytesFrom(k) = Width(body[k]) + BytesFrom(n + 1)
        /\ Width(body[k]) \in Nat /\ Width(body[k]) >= 1
        /\ Width(body[k]) = 2 <=> body[k] \in {"--", "crlf"}
    BY <1>3, <2>1, BytesAt
  <2>. DEFINE b == BytesFrom(k)
              w == Width(body[k])
  <2>3. b \in {0, 2} <=> w = 2
    <3>1. b = w + 0 /\ w \in Nat /\ w >= 1
      BY <1>1, <2>2, Zenon
    <3>. HIDE DEF b, w
    <3>. QED BY <3>1
  <2>4. k # n + 1 /\ k + 1 # n
    BY <1>1, <1>3
  <2>. QED BY <1>3, <2>2, <2>3, <2>4, Zenon
<1>4. CASE k # n + 1 /\ k # n
  <2>1. k \in 1 .. n /\ k + 1 \in 1 .. n /\ k + 1 + 1 = k + 2
    BY <1>1, <1>4
  <2>2. /\ BytesFrom(k) = Width(body[k]) + BytesFrom(k + 1)
        /\ Width(body[k]) \in Nat /\ Width(body[k]) >= 1
        /\ Width(body[k]) = 1 <=> body[k] \in Short
    BY <2>1, BytesAt, Zenon
  <2>3. /\ BytesFrom(k + 1) = Width(body[k + 1]) + BytesFrom(k + 2)
        /\ Width(body[k + 1]) \in Nat /\ Width(body[k + 1]) >= 1
        /\ Width(body[k + 1]) = 1 <=> body[k + 1] \in Short
        /\ BytesFrom(k + 2) \in Nat
    <3>1. BytesFrom(k + 1) = Width(body[k + 1]) + BytesFrom(k + 1 + 1)
          /\ BytesFrom(k + 1 + 1) \in Nat
      BY <2>1, BytesAt, Zenon
    <3>2. /\ Width(body[k + 1]) \in Nat /\ Width(body[k + 1]) >= 1
          /\ Width(body[k + 1]) = 1 <=> body[k + 1] \in Short
      BY <2>1, BytesAt, Zenon
    <3>. QED BY <2>1, <3>1, <3>2
  <2>4. k + 1 = n => BytesFrom(k + 2) = 0
    <3>1. k + 1 = n => k + 2 = n + 1
      BY <1>1
    <3>. QED BY <1>1, <3>1, Zenon
  <2>5. k + 1 # n => BytesFrom(k + 2) >= 1
    <3>1. SUFFICES ASSUME k + 1 # n PROVE BytesFrom(k + 2) >= 1
      BY Zenon
    <3>2. k + 2 \in 1 .. n
      BY <1>1, <2>1, <3>1
    <3>3. /\ BytesFrom(k + 2) = Width(body[k + 2]) + BytesFrom(k + 2 + 1)
          /\ Width(body[k + 2]) \in Nat /\ Width(body[k + 2]) >= 1
          /\ BytesFrom(k + 2 + 1) \in Nat
      BY <3>2, BytesAt, Zenon
    <3>. DEFINE b == BytesFrom(k + 2)
                w == Width(body[k + 2])
                c == BytesFrom(k + 2 + 1)
    <3>4. b = w + c /\ w \in Nat /\ w >= 1 /\ c \in Nat
      BY <3>3
    <3>. HIDE DEF b, w, c
    <3>5. b >= 1
      BY <3>4
    <3>. QED BY <3>5 DEF b
  <2>. DEFINE b == BytesFrom(k)
              w == Width(body[k])
              v == Width(body[k + 1])
              c == BytesFrom(k + 2)
  <2>6. /\ b = w + (v + c) /\ w \in Nat /\ w >= 1 /\ v \in Nat /\ v >= 1 /\ c \in Nat
        /\ k + 1 = n => c = 0
        /\ k + 1 # n => c >= 1
    BY <2>2, <2>3, <2>4, <2>5, Zenon
  <2>7. b \in {0, 2} <=> k + 1 = n /\ w = 1 /\ v = 1
    <3>. HIDE DEF b, w, v, c, n
    <3>. QED BY <2>6
  <2>. QED BY <1>4, <2>2, <2>3, <2>7, Zenon
<1>. QED BY <1>2, <1>3, <1>4, Zenon

\* What the grammar calls the end, and what the parser does.
LEMMA EndingsAre ==
  ASSUME body \in Seq(Tokens), boundary_len \in 3 .. 70, NEW i \in Nat \ {0}
  PROVE  /\ Endings(i) <=> EndsAt(body, i)
         /\ i = idx => (Closing /\ Reads(i, <<"--", "bnd", "--">>) <=> EndsAt(body, i))
         /\ i = idx /\ Begins(body, i) /\ body[i + 3] = "disp" => ~Closing
         /\ Reads(i, <<"--", "bnd", "crlf">>) /\ i + 3 <= Len(body) <=> Begins(body, i)
         /\ Reads(i, <<"--", "bnd", "crlf", "disp">>)
              <=> Begins(body, i) /\ body[i + 3] = "disp"
         /\ Begins(body, i) => ~EndsAt(body, i)
<1>. DEFINE n == Len(body)
<1>1. n \in Nat
  BY LenProperties
<1>2. /\ Reads(i, <<"--", "bnd", "--">>)
           <=> i + 2 <= n /\ body[i] = "--" /\ body[i + 1] = "bnd" /\ body[i + 2] = "--"
      /\ Reads(i, <<"--", "bnd", "crlf">>)
           <=> i + 2 <= n /\ body[i] = "--" /\ body[i + 1] = "bnd" /\ body[i + 2] = "crlf"
      /\ Reads(i, <<"--", "bnd", "crlf", "disp">>)
           <=> /\ i + 3 <= n /\ body[i] = "--" /\ body[i + 1] = "bnd"
               /\ body[i + 2] = "crlf" /\ body[i + 3] = "disp"
  <2>1. "--" \in Tokens /\ "bnd" \in Tokens /\ "crlf" \in Tokens /\ "disp" \in Tokens
    BY TokensAre
  <2>2. Reads(i, <<"--", "bnd", "--">>)
          <=> i + 2 <= n /\ body[i] = "--" /\ body[i + 1] = "bnd" /\ body[i + 2] = "--"
    BY <2>1, ReadsAre
  <2>3. Reads(i, <<"--", "bnd", "crlf">>)
          <=> i + 2 <= n /\ body[i] = "--" /\ body[i + 1] = "bnd" /\ body[i + 2] = "crlf"
    BY <2>1, ReadsAre
  <2>4. Reads(i, <<"--", "bnd", "crlf", "disp">>)
           <=> /\ i + 3 <= n /\ body[i] = "--" /\ body[i + 1] = "bnd"
               /\ body[i + 2] = "crlf" /\ body[i + 3] = "disp"
    BY <2>1, ReadsAre
  <2>. QED BY <2>2, <2>3, <2>4, Zenon
<1>3. i + 3 <= n => i + 2 <= n
  BY <1>1
\* The bytes of a boundary.
<1>4. ASSUME i + 2 <= n, body[i] = "--", body[i + 1] = "bnd", body[i + 2] \in {"--", "crlf"}
      PROVE  /\ i + 3 \in 1 .. n + 1 /\ BytesFrom(i + 3) \in Nat
             /\ BytesFrom(i) = boundary_len + 4 + BytesFrom(i + 3)
  <2>1. i \in 1 .. n /\ i + 1 \in 1 .. n /\ i + 2 \in 1 .. n /\ i + 3 \in 1 .. n + 1
        /\ i + 1 + 1 = i + 2 /\ i + 2 + 1 = i + 3
    BY <1>1, <1>4
  <2>2. BytesFrom(i) = Width(body[i]) + BytesFrom(i + 1)
        /\ (Width(body[i]) = 2 <=> body[i] \in {"--", "crlf"})
    BY <2>1, BytesAt, Zenon
  <2>3. BytesFrom(i + 1) = Width(body[i + 1]) + BytesFrom(i + 1 + 1)
        /\ (body[i + 1] = "bnd" => Width(body[i + 1]) = boundary_len)
    BY <2>1, BytesAt, Zenon
  <2>4. BytesFrom(i + 2) = Width(body[i + 2]) + BytesFrom(i + 2 + 1)
        /\ (Width(body[i + 2]) = 2 <=> body[i + 2] \in {"--", "crlf"})
        /\ BytesFrom(i + 2 + 1) \in Nat
    BY <2>1, BytesAt, Zenon
  <2>5. Width(body[i]) = 2 /\ Width(body[i + 1]) = boundary_len /\ Width(body[i + 2]) = 2
    BY <1>4, <2>2, <2>3, <2>4
  <2>. DEFINE b0 == BytesFrom(i)
              b1 == BytesFrom(i + 1)
              b2 == BytesFrom(i + 2)
              b3 == BytesFrom(i + 3)
  <2>6. b0 = 2 + b1 /\ b1 = boundary_len + b2 /\ b2 = 2 + b3 /\ b3 \in Nat
    BY <2>1, <2>2, <2>3, <2>4, <2>5, Zenon
  <2>. HIDE DEF b0, b1, b2, b3
  <2>7. b0 = boundary_len + 4 + b3
    BY <2>6
  <2>. QED BY <2>1, <2>6, <2>7, Zenon DEF b0, b3
<1>5. ASSUME i + 2 <= n, body[i] = "--", body[i + 1] = "bnd", body[i + 2] = "--"
      PROVE  /\ BytesFrom(i + 3) \in {0, 2} <=> EndsAt(body, i)
             /\ i = idx => (Closing <=> EndsAt(body, i))
  <2>1. /\ i + 3 \in 1 .. n + 1 /\ BytesFrom(i + 3) \in Nat
        /\ BytesFrom(i) = boundary_len + 4 + BytesFrom(i + 3)
    BY <1>4, <1>5
  <2>2. BytesFrom(i + 3) \in {0, 2} <=>
           \/ i + 3 = n + 1
           \/ i + 3 = n /\ body[i + 3] \in {"--", "crlf"}
           \/ i + 3 + 1 = n /\ body[i + 3] \in Short /\ body[i + 3 + 1] \in Short
    BY <2>1, LastBytes
  <2>3. (i + 3 = n + 1 <=> i + 2 = n) /\ i + 3 + 1 = i + 4
    BY <1>1
  <2>4. BytesFrom(i + 3) \in {0, 2} <=> EndsAt(body, i)
    BY <1>5, <2>2, <2>3 DEF EndsAt
  <2>5. BytesFrom(i) \in {boundary_len + 4, boundary_len + 6} <=> BytesFrom(i + 3) \in {0, 2}
    <3>. DEFINE b0 == BytesFrom(i)
                b3 == BytesFrom(i + 3)
    <3>1. b0 = boundary_len + 4 + b3 /\ b3 \in Nat
      BY <2>1
    <3>. HIDE DEF b0, b3
    <3>2. b0 \in {boundary_len + 4, boundary_len + 6} <=> b3 \in {0, 2}
      BY <3>1
    <3>. QED BY <3>2 DEF b0, b3
  <2>. QED BY <2>4, <2>5, Zenon DEF Closing
<1>6. ASSUME Begins(body, i), body[i + 3] = "disp", i = idx
      PROVE  ~Closing
  <2>1. i + 3 <= n /\ body[i] = "--" /\ body[i + 1] = "bnd" /\ body[i + 2] = "crlf"
    BY <1>6, Zenon DEF Begins
  <2>2. /\ BytesFrom(i + 3) \in Nat
        /\ BytesFrom(i) = boundary_len + 4 + BytesFrom(i + 3)
    BY <1>3, <1>4, <2>1
  <2>3. i + 3 \in 1 .. n
    BY <1>1, <2>1
  <2>4. /\ BytesFrom(i + 3) = Width(body[i + 3]) + BytesFrom(i + 3 + 1)
        /\ BytesFrom(i + 3 + 1) \in Nat /\ Width(body[i + 3]) = 31
    BY <1>6, <2>3, BytesAt, Zenon
  <2>. DEFINE b0 == BytesFrom(i)
              b3 == BytesFrom(i + 3)
              b4 == BytesFrom(i + 3 + 1)
  <2>5. b0 = boundary_len + 4 + b3 /\ b3 = 31 + b4 /\ b4 \in Nat
    BY <2>2, <2>4, Zenon
  <2>. HIDE DEF b0, b3, b4
  <2>6. b0 \notin {boundary_len + 4, boundary_len + 6}
    BY <2>5
  <2>. QED BY <1>6, <2>6, Zenon DEF Closing, b0
<1>7. Endings(i) <=> EndsAt(body, i)
  BY <1>2, <1>5, Zenon DEF Endings, EndsAt
<1>8. i = idx => (Closing /\ Reads(i, <<"--", "bnd", "--">>) <=> EndsAt(body, i))
  BY <1>2, <1>5, Zenon DEF EndsAt
<1>9. Reads(i, <<"--", "bnd", "crlf">>) /\ i + 3 <= Len(body) <=> Begins(body, i)
  BY <1>2, <1>3, Zenon DEF Begins
<1>10. Reads(i, <<"--", "bnd", "crlf", "disp">>) <=> Begins(body, i) /\ body[i + 3] = "disp"
  BY <1>2, Zenon DEF Begins
<1>11. Begins(body, i) => ~EndsAt(body, i)
  BY DEF Begins, EndsAt
<1>. QED BY <1>6, <1>7, <1>8, <1>9, <1>10, <1>11, Zenon

-----------------------------------------------------------------------------
(***************************************************************************)
(* Readings                                                                *)
(***************************************************************************)

\* What is inspected of a part whose data are at d to j - 1.
Its == {"BODY", "FILE_EXT"} \X Names \X Seq(Tokens)
ItemOf(t, d, m, f, j) ==
  IF f = "none" THEN <<"BODY", m, SubSeq(t, d, j - 1)>> ELSE <<"FILE_EXT", m, <<f>>>>

\* A part at place i, up to the boundary at j, of which x is inspected.
Follows(t, i, x, j) ==
  /\ Begins(t, i)
  /\ \E e, h, m, f : /\ HeaderOf(t, i + 3, e, h, m, f)
                     /\ Bound(t, h + 2, j) /\ x = ItemOf(t, h + 2, m, f, j)

\* An item has its type.
LEMMA ItemKnown ==
  ASSUME NEW t \in Seq(Tokens), NEW d \in Nat \ {0}, NEW m \in Names,
         NEW f \in {"none"} \cup Files, NEW j \in d .. Len(t)
  PROVE  ItemOf(t, d, m, f, j) \in Its
<1>1. Len(t) \in Nat /\ \A k \in 1 .. Len(t) : t[k] \in Tokens
  BY LenProperties, ElementOfSeq
<1>2. CASE f = "none"
  <2>. DEFINE q == SubSeq(t, d, j - 1)
  <2>1. d \in Int /\ j - 1 \in Int /\ \A k \in d .. j - 1 : t[k] \in Tokens
    BY <1>1
  <2>2. q \in Seq(Tokens)
    BY <2>1, SubSeqProperties
  <2>3. ItemOf(t, d, m, f, j) = <<"BODY", m, q>>
    BY <1>2, Zenon DEF ItemOf
  <2>. HIDE DEF q
  <2>. QED BY <2>2, <2>3 DEF Its
<1>3. CASE f # "none"
  <2>1. f \in Tokens
    BY <1>3, WordsDiffer DEF Tokens
  <2>. DEFINE q == <<f>>
  <2>2. q \in Seq(Tokens)
    BY <2>1
  <2>3. ItemOf(t, d, m, f, j) = <<"FILE_EXT", m, q>>
    BY <1>3, Zenon DEF ItemOf
  <2>. HIDE DEF q
  <2>. QED BY <2>2, <2>3 DEF Its
<1>. QED BY <1>2, <1>3

\* The header is behind its first place, and its end within the text.
LEMMA HeaderWithin ==
  ASSUME NEW t, Len(t) \in Nat, NEW i \in Nat \ {0},
         NEW e, NEW h, NEW m, NEW f, HeaderOf(t, i, e, h, m, f)
  PROVE  h \in i + 1 .. Len(t)
<1>1. LineOf(t, i + 1, e) /\ IF f = "none" THEN h = e ELSE LineOf(t, e + 1, h)
  BY Zenon DEF HeaderOf
<1>2. e \in i + 1 .. Len(t)
  BY <1>1, Zenon DEF LineOf
<1>3. h = e \/ h \in e + 1 .. Len(t)
  BY <1>1, Zenon DEF LineOf
<1>. QED BY <1>2, <1>3

\* What follows is behind, and is an item.
LEMMA FollowsWithin ==
  ASSUME NEW t \in Seq(Tokens), NEW i \in Nat \ {0}, NEW x, NEW j, Follows(t, i, x, j)
  PROVE  x \in Its /\ j \in i + 1 .. Len(t) /\ j + 1 \in (i + 1) .. Len(t) + 1
<1>1. PICK e, h, m, f : /\ HeaderOf(t, i + 3, e, h, m, f)
                        /\ Bound(t, h + 2, j) /\ x = ItemOf(t, h + 2, m, f, j)
  BY Zenon DEF Follows
<1>2. Len(t) \in Nat
  BY LenProperties
<1>3. h \in i + 3 + 1 .. Len(t)
  <2>1. i + 3 \in Nat \ {0}
    OBVIOUS
  <2>. QED BY <1>1, <1>2, <2>1, HeaderWithin
<1>4. j \in h + 2 .. Len(t)
  BY <1>1, Zenon DEF Bound
<1>5. h + 2 \in Nat \ {0} /\ j \in i + 1 .. Len(t) /\ j + 1 \in (i + 1) .. Len(t) + 1
  BY <1>2, <1>3, <1>4
<1>6. m \in Names /\ f \in {"none"} \cup Files
  BY <1>1, Zenon DEF HeaderOf
<1>7. x \in Its
  BY <1>1, <1>4, <1>5, <1>6, ItemKnown, Zenon
<1>. QED BY <1>5, <1>7

\* What is read from place i on, if R gives what is read from later places on.
Adds(t, i, R, s) ==
  \E x, j, rest : Follows(t, i, x, j) /\ rest \in R[j + 1] /\ s = <<x>> \o rest
ReadAt(t, i, R) ==
  IF EndsAt(t, i) THEN {<< >>} ELSE {s \in Seq(Its) : Adds(t, i, R, s)}

\* R gives what a text may be read as, from each place on.
ReadRule(t, R) ==
  /\ R \in [1 .. Len(t) + 1 -> SUBSET Seq(Its)]
  /\ \A i \in 1 .. Len(t) + 1 : R[i] = ReadAt(t, i, R)

\* What is read at a place is known from later places.
LEMMA ReadAtSame ==
  ASSUME NEW t \in Seq(Tokens), NEW i \in Nat \ {0}, NEW R, NEW Q,
         \A j \in (i + 1) .. Len(t) + 1 : R[j] = Q[j]
  PROVE  ReadAt(t, i, R) = ReadAt(t, i, Q)
<1>1. \A x, j : Follows(t, i, x, j) => j + 1 \in (i + 1) .. Len(t) + 1
  BY FollowsWithin, Zenon
<1>2. \A x, j : Follows(t, i, x, j) => R[j + 1] = Q[j + 1]
  BY <1>1, Zenon
<1>3. \A s : Adds(t, i, R, s) <=> Adds(t, i, Q, s)
  BY <1>2, Zenon DEF Adds
<1>. QED BY <1>3 DEF ReadAt

\* What the grammar gives at place i, if R gives what it does at later places.
GrammarAt(i, R) ==
  IF Endings(i) THEN {<< >>}
  ELSE UNION {{<<Item(p)>> \o rest : rest \in R[p.j + 1]} :
              p \in IF Reads(i, <<"--", "bnd", "crlf", "disp">>)
                    THEN {p \in CutsAre : IsPart(i, p)} ELSE {}}

\* The grammar gives what is read.
LEMMA GrammarIs ==
  ASSUME body \in Seq(Tokens), boundary_len \in 3 .. 70, NEW i \in Nat \ {0},
         NEW R, \A j \in (i + 1) .. Len(body) + 1 : R[j] \in SUBSET Seq(Its)
  PROVE  GrammarAt(i, R) = ReadAt(body, i, R)
<1>. DEFINE P == IF Reads(i, <<"--", "bnd", "crlf", "disp">>)
                 THEN {p \in CutsAre : IsPart(i, p)} ELSE {}
            B(p) == {<<Item(p)>> \o rest : rest \in R[p.j + 1]}
            U == UNION {B(p) : p \in P}
<1>1. Endings(i) <=> EndsAt(body, i)
  BY EndingsAre, Zenon
<1>2. Reads(i, <<"--", "bnd", "crlf", "disp">>) <=> Begins(body, i) /\ body[i + 3] = "disp"
  BY EndingsAre, Zenon
<1>3. \A p : p \in P <=> Begins(body, i) /\ body[i + 3] = "disp" /\ p \in CutsAre /\ IsPart(i, p)
  BY <1>2
<1>. HIDE DEF P
<1>4. \A s : s \in U <=> \E p \in P : \E rest \in R[p.j + 1] : s = <<Item(p)>> \o rest
  <2>1. \A p : \A s : s \in B(p) <=> \E rest \in R[p.j + 1] : s = <<Item(p)>> \o rest
    OBVIOUS
  <2>. HIDE DEF B
  <2>2. \A s : s \in U <=> \E p \in P : s \in B(p)
    OBVIOUS
  <2>. HIDE DEF U
  <2>3. ASSUME NEW s, s \in U
        PROVE  \E p \in P : \E rest \in R[p.j + 1] : s = <<Item(p)>> \o rest
    <3>1. PICK p \in P : s \in B(p)
      BY <2>2, <2>3, Zenon
    <3>2. \E rest \in R[p.j + 1] : s = <<Item(p)>> \o rest
      BY <2>1, <3>1, Zenon
    <3>. QED BY <3>2, Zenon
  <2>4. ASSUME NEW s, NEW p \in P, NEW rest \in R[p.j + 1], s = <<Item(p)>> \o rest
        PROVE  s \in U
    <3>1. s \in B(p)
      BY <2>1, <2>4, Zenon
    <3>. QED BY <2>2, <3>1, Zenon
  <2>. QED BY <2>3, <2>4
<1>. HIDE DEF U
<1>5. \A p : Item(p) = ItemOf(body, p.h + 2, p.n, p.f, p.j)
  BY Zenon DEF Item, ItemOf
<1>6. ASSUME NEW s \in U PROVE s \in Seq(Its) /\ Adds(body, i, R, s)
  <2>1. PICK p \in P : \E rest \in R[p.j + 1] : s = <<Item(p)>> \o rest
    BY <1>4
  <2>2. PICK rest \in R[p.j + 1] : s = <<Item(p)>> \o rest
    BY <2>1
  <2>3. HeaderOf(body, i + 3, p.e, p.h, p.n, p.f) /\ Bound(body, p.h + 2, p.j)
        /\ Begins(body, i)
    BY <1>3, PartIs, Zenon
  <2>4. \E x : x = Item(p)
    OBVIOUS
  <2>5. PICK x : x = Item(p)
    BY <2>4
  <2>6. \E j : j = p.j
    OBVIOUS
  <2>7. PICK j : j = p.j
    BY <2>6
  <2>8. Follows(body, i, x, j)
    BY <1>5, <2>3, <2>5, <2>7, Zenon DEF Follows
  <2>9. x \in Its /\ j + 1 \in (i + 1) .. Len(body) + 1
    BY <2>8, FollowsWithin
  <2>10. rest \in Seq(Its)
    <3>1. R[j + 1] \in SUBSET Seq(Its)
      BY <2>9
    <3>. QED BY <2>7, <3>1
  <2>11. s = <<x>> \o rest /\ rest \in R[j + 1]
    BY <2>2, <2>5, <2>7, Zenon
  <2>12. s \in Seq(Its)
    BY <2>9, <2>10, <2>11, ConcatProperties
  <2>. QED BY <2>8, <2>11, <2>12, Zenon DEF Adds
<1>7. ASSUME NEW s, Adds(body, i, R, s) PROVE s \in U
  <2>1. PICK x, j, rest : Follows(body, i, x, j) /\ rest \in R[j + 1] /\ s = <<x>> \o rest
    BY <1>7, Zenon DEF Adds
  <2>2. PICK e, h, m, f : /\ HeaderOf(body, i + 3, e, h, m, f)
                          /\ Bound(body, h + 2, j) /\ x = ItemOf(body, h + 2, m, f, j)
    BY <2>1, Zenon DEF Follows
  <2>3. Begins(body, i) /\ body[i + 3] = "disp"
    BY <2>1, <2>2, Zenon DEF Follows, HeaderOf
  <2>4. PICK p \in CutsAre : /\ IsPart(i, p)
                             /\ p.e = e /\ p.h = h /\ p.j = j /\ p.n = m /\ p.f = f
    <3>1. \A a, b, c, d, g : HeaderOf(body, i + 3, a, b, d, g) /\ Bound(body, b + 2, c) =>
            \E p \in CutsAre : /\ IsPart(i, p)
                               /\ p.e = a /\ p.h = b /\ p.j = c /\ p.n = d /\ p.f = g
      BY <2>3, PartIs
    <3>. QED BY <2>2, <3>1
  <2>5. p \in P
    BY <1>3, <2>3, <2>4, Zenon
  <2>6. Item(p) = x
    BY <1>5, <2>2, <2>4, Zenon
  <2>7. rest \in R[p.j + 1] /\ s = <<Item(p)>> \o rest
    BY <2>1, <2>4, <2>6, Zenon
  <2>. QED BY <1>4, <2>5, <2>7, Zenon
<1>8. U = {s \in Seq(Its) : Adds(body, i, R, s)}
  BY <1>6, <1>7
<1>9. GrammarAt(i, R) = IF Endings(i) THEN {<< >>} ELSE U
  BY Zenon DEF GrammarAt, U, B, P
<1>. QED BY <1>1, <1>8, <1>9, Zenon DEF ReadAt

\* The readings of a text are those of its first place.
LEMMA ReadingsAre ==
  ASSUME body \in Seq(Tokens), boundary_len \in 3 .. 70
  PROVE  \E R : ReadRule(body, R) /\ Readings = R[1]
<1>. DEFINE n == Len(body)
            hi == n + 1
            C == SUBSET Seq(Its)
            I == 1 .. hi
            E(i, f) == ReadAt(body, i, f)
            G == [x \in I \X [I -> C] |-> E(x[1], x[2])]
<1>1. n \in Nat /\ hi \in Nat /\ 1 \in Nat /\ C # {}
  <2>1. n \in Nat
    BY LenProperties
  <2>2. C # {}
    OBVIOUS
  <2>. HIDE DEF n, C
  <2>. QED BY <2>1, <2>2
<1>2. \A i \in I : i \in Nat \ {0} /\ \A j \in (i + 1) .. hi : j \in I
  BY <1>1
<1>3. \A i, f : E(i, f) \in C
  <2>1. << >> \in Seq(Its)
    BY EmptySeq
  <2>. QED BY <2>1 DEF ReadAt
<1>4. \A i \in I : \A f, g : (\A j \in (i + 1) .. hi : f[j] = g[j]) => E(i, f) = E(i, g)
  BY <1>2, ReadAtSame, Zenon
<1>. HIDE DEF n, hi, E
<1>5. G \in [I \X [I -> C] -> C] /\ \A i \in I : \A f \in [I -> C] : G[<<i, f>>] = E(i, f)
  <2>. HIDE DEF I, C
  <2>. QED BY <1>3
<1>. HIDE DEF G, C
<1>6. \A i \in I : \A f, g \in [I -> C] :
        (\A j \in (i + 1) .. hi : f[j] = g[j]) => G[<<i, f>>] = G[<<i, g>>]
  <2>. HIDE DEF I
  <2>1. ASSUME NEW i \in I, NEW f \in [I -> C], NEW g \in [I -> C],
               \A j \in (i + 1) .. hi : f[j] = g[j]
        PROVE  G[<<i, f>>] = G[<<i, g>>]
    <3>1. E(i, f) = E(i, g)
      BY <1>4, <2>1, Zenon
    <3>2. G[<<i, f>>] = E(i, f) /\ G[<<i, g>>] = E(i, g)
      BY <1>5, Zenon
    <3>. QED BY <3>1, <3>2, Zenon
  <2>. QED BY <2>1
<1>7. Backward(1, hi, C, G)
  BY <1>1, <1>5, <1>6, Zenon DEF Backward
<1>8. \E f \in [I -> C] : \A i \in I : f[i] = G[<<i, f>>]
  BY <1>7, BackwardExists
<1>9. PICK f \in [I -> C] : \A i \in I : f[i] = E(i, f)
  <2>. HIDE DEF I
  <2>. QED BY <1>5, <1>8, Zenon
<1>10. \A i \in I : \A g : (\A j \in (i + 1) .. hi : g[j] \in C) => GrammarAt(i, g) = E(i, g)
  BY <1>2, GrammarIs, Zenon DEF E, C, hi, n
<1>11. f = [i \in I |-> GrammarAt(i, f)]
  <2>1. \A i \in I : \A j \in (i + 1) .. hi : f[j] \in C
    BY <1>2
  <2>2. \A i \in I : f[i] = GrammarAt(i, f)
    BY <1>9, <1>10, <2>1, Zenon
  <2>. HIDE DEF I
  <2>. QED BY <2>2
<1>. DEFINE Rule(g) == g = [i \in I |-> GrammarAt(i, g)]
            W == CHOOSE g : Rule(g)
<1>12. Rule(W)
  BY <1>11, Zenon
<1>13. Readings = W[1]
  BY Zenon DEF Readings, CutsAre, LineEnds, GrammarAt, I, hi, n
<1>. HIDE DEF W
<1>14. \A i \in I : W[i] = GrammarAt(i, W)
  <2>. HIDE DEF I
  <2>. QED BY <1>12
<1>15. \A i \in I : W[i] \in C
  <2>. DEFINE S == {i \in I : W[i] \in C}
  <2>1. ASSUME NEW i \in 1 .. hi, \A j \in (i + 1) .. hi : j \in S
        PROVE  i \in S
    <3>1. \A j \in (i + 1) .. hi : W[j] \in C
      BY <2>1
    <3>2. i \in I
      BY <2>1
    <3>. HIDE DEF I
    <3>3. W[i] = GrammarAt(i, W)
      BY <1>14, <3>2, Zenon
    <3>4. GrammarAt(i, W) = E(i, W)
      BY <1>10, <3>1, <3>2, Zenon
    <3>5. E(i, W) \in C
      BY <1>3, Zenon
    <3>6. W[i] \in C
      BY <3>3, <3>4, <3>5, Zenon
    <3>. QED BY <3>2, <3>6, Zenon
  <2>2. \A i \in 1 .. hi : i \in S
    <3>. HIDE DEF S
    <3>. QED BY <1>1, <2>1, DownFrom
  <2>. QED BY <2>2
<1>16. W \in [I -> C]
  <2>. HIDE DEF I
  <2>. QED BY <1>12, <1>15
<1>17. \A i \in I : W[i] = E(i, W)
  <2>. HIDE DEF I
  <2>1. \A i \in I : \A j \in (i + 1) .. hi : W[j] \in C
    BY <1>2, <1>15, Zenon
  <2>. QED BY <1>10, <1>14, <2>1, Zenon
<1>18. ReadRule(body, W)
  BY <1>16, <1>17, Zenon DEF ReadRule, E, I, C, hi, n
<1>. QED BY <1>13, <1>18, Zenon

-----------------------------------------------------------------------------
(***************************************************************************)
(* What is inspected, and what follows                                     *)
(***************************************************************************)

\* What a text may be read as is what is inspected already and what is read
\* from place i on.
AfterItems(t, its, i) ==
  \A R : ReadRule(t, R) => \A s : s \in R[1] <=> \E r \in R[i] : s = its \o r

\* It is that, the item whose data begin at place d, and what follows it.
DataRead(t, its, d, m, f) ==
  \A R : ReadRule(t, R) =>
    \A s : s \in R[1] <=>
      \E j : /\ Bound(t, d, j)
             /\ \E r \in R[j + 1] : s = its \o (<<ItemOf(t, d, m, f, j)>> \o r)

\* It is one thing, or nothing.
ReadsOnly(t, its) == \A R : ReadRule(t, R) => R[1] = {its}
ReadsNothing(t) == \A R : ReadRule(t, R) => R[1] = {}

\* The readings of a text are sequences of items.
LEMMA ReadTyped ==
  ASSUME NEW t, NEW R, ReadRule(t, R), NEW i \in 1 .. Len(t) + 1
  PROVE  /\ R[i] = ReadAt(t, i, R)
         /\ \A r \in R[i] : r \in Seq(Its)
<1>1. R[i] = ReadAt(t, i, R) /\ R[i] \in SUBSET Seq(Its)
  BY DEF ReadRule
<1>. QED BY <1>1

\* At the beginning nothing is inspected.
LEMMA StartRead ==
  ASSUME NEW t \in Seq(Tokens)
  PROVE  AfterItems(t, << >>, 1)
<1>1. SUFFICES ASSUME NEW R, ReadRule(t, R)
               PROVE  \A s : s \in R[1] <=> \E r \in R[1] : s = << >> \o r
  BY Zenon DEF AfterItems
<1>2. 1 \in 1 .. Len(t) + 1
  BY LenProperties
<1>3. \A r \in R[1] : r \in Seq(Its)
  BY <1>1, <1>2, ReadTyped, Zenon
<1>4. \A r \in R[1] : << >> \o r = r
  BY <1>3, ConcatEmptySeq
<1>. QED BY <1>4, Zenon

\* At the closing boundary what is inspected is all.
LEMMA EndRead ==
  ASSUME NEW t, NEW i \in 1 .. Len(t) + 1, NEW its \in Seq(Its), AfterItems(t, its, i),
         EndsAt(t, i)
  PROVE  ReadsOnly(t, its)
<1>1. SUFFICES ASSUME NEW R, ReadRule(t, R) PROVE R[1] = {its}
  BY Zenon DEF ReadsOnly
<1>2. R[i] = {<< >>}
  <2>1. R[i] = ReadAt(t, i, R)
    BY <1>1, ReadTyped, Zenon
  <2>. QED BY <2>1, Zenon DEF ReadAt
<1>3. \A s : s \in R[1] <=> \E r \in R[i] : s = its \o r
  BY <1>1, Zenon DEF AfterItems
<1>4. its \o << >> = its
  BY ConcatEmptySeq
<1>5. \A s : s \in R[1] <=> s = its
  BY <1>2, <1>3, <1>4, Zenon
<1>. QED BY <1>5

\* Where neither the end nor a part is, nothing can be read.
LEMMA NoneRead ==
  ASSUME NEW t, NEW i \in 1 .. Len(t) + 1, NEW its, AfterItems(t, its, i),
         ~EndsAt(t, i), \A x, j : ~Follows(t, i, x, j)
  PROVE  ReadsNothing(t)
<1>1. SUFFICES ASSUME NEW R, ReadRule(t, R) PROVE R[1] = {}
  BY Zenon DEF ReadsNothing
<1>2. R[i] = {}
  <2>1. R[i] = ReadAt(t, i, R)
    BY <1>1, ReadTyped, Zenon
  <2>2. R[i] = {s \in Seq(Its) : Adds(t, i, R, s)}
    BY <2>1, Zenon DEF ReadAt
  <2>3. \A s : ~Adds(t, i, R, s)
    BY Zenon DEF Adds
  <2>. QED BY <2>2, <2>3
<1>3. \A s : s \in R[1] <=> \E r \in R[i] : s = its \o r
  BY <1>1, Zenon DEF AfterItems
<1>. QED BY <1>2, <1>3

\* A header is read.
LEMMA HeaderRead ==
  ASSUME NEW t \in Seq(Tokens), NEW i \in 1 .. Len(t) + 1, NEW its, AfterItems(t, its, i),
         Begins(t, i), ~EndsAt(t, i),
         NEW e, NEW h, NEW m, NEW f, HeaderOf(t, i + 3, e, h, m, f),
         \A a, b, c, d : HeaderOf(t, i + 3, a, b, c, d) => b = h /\ c = m /\ d = f
  PROVE  DataRead(t, its, h + 2, m, f)
<1>1. SUFFICES ASSUME NEW R, ReadRule(t, R)
               PROVE  \A s : s \in R[1] <=>
                        \E j : /\ Bound(t, h + 2, j)
                               /\ \E r \in R[j + 1] :
                                    s = its \o (<<ItemOf(t, h + 2, m, f, j)>> \o r)
  BY Zenon DEF DataRead
<1>2. \A s : s \in R[1] <=> \E r \in R[i] : s = its \o r
  BY <1>1, Zenon DEF AfterItems
<1>3. R[i] = {s \in Seq(Its) : Adds(t, i, R, s)}
  <2>1. R[i] = ReadAt(t, i, R)
    BY <1>1, ReadTyped, Zenon
  <2>. QED BY <2>1, Zenon DEF ReadAt
<1>4. i \in Nat \ {0} /\ Len(t) \in Nat
  BY LenProperties
<1>5. \A x, j : Follows(t, i, x, j) <=> Bound(t, h + 2, j) /\ x = ItemOf(t, h + 2, m, f, j)
  <2>1. ASSUME NEW x, NEW j, Follows(t, i, x, j)
        PROVE  Bound(t, h + 2, j) /\ x = ItemOf(t, h + 2, m, f, j)
    <3>1. PICK a, b, c, d : /\ HeaderOf(t, i + 3, a, b, c, d)
                            /\ Bound(t, b + 2, j) /\ x = ItemOf(t, b + 2, c, d, j)
      BY <2>1, Zenon DEF Follows
    <3>2. b = h /\ c = m /\ d = f
      BY <3>1, Zenon
    <3>. QED BY <3>1, <3>2, Zenon
  <2>2. ASSUME NEW x, NEW j, Bound(t, h + 2, j), x = ItemOf(t, h + 2, m, f, j)
        PROVE  Follows(t, i, x, j)
    BY <2>2, Zenon DEF Follows
  <2>. QED BY <2>1, <2>2
<1>6. \A x, j, r : Follows(t, i, x, j) /\ r \in R[j + 1] => <<x>> \o r \in Seq(Its)
  <2>1. ASSUME NEW x, NEW j, NEW r, Follows(t, i, x, j), r \in R[j + 1]
        PROVE  <<x>> \o r \in Seq(Its)
    <3>1. x \in Its /\ j + 1 \in 1 .. Len(t) + 1
      <4>1. x \in Its /\ j + 1 \in (i + 1) .. Len(t) + 1
        BY <1>4, <2>1, FollowsWithin, Zenon
      <4>. QED BY <1>4, <4>1
    <3>2. r \in Seq(Its)
      BY <1>1, <2>1, <3>1, ReadTyped, Zenon
    <3>. QED BY <3>1, <3>2, ConcatProperties
  <2>. QED BY <2>1
<1>7. \A q : q \in R[i] <=> \E j : /\ Bound(t, h + 2, j)
                                   /\ \E r \in R[j + 1] :
                                        q = <<ItemOf(t, h + 2, m, f, j)>> \o r
  <2>1. ASSUME NEW q \in R[i]
        PROVE  \E j : /\ Bound(t, h + 2, j)
                      /\ \E r \in R[j + 1] : q = <<ItemOf(t, h + 2, m, f, j)>> \o r
    <3>1. Adds(t, i, R, q)
      BY <1>3
    <3>2. PICK x, j, r : Follows(t, i, x, j) /\ r \in R[j + 1] /\ q = <<x>> \o r
      BY <3>1, Zenon DEF Adds
    <3>. QED BY <1>5, <3>2, Zenon
  <2>2. ASSUME NEW q, NEW j, Bound(t, h + 2, j), NEW r \in R[j + 1],
               q = <<ItemOf(t, h + 2, m, f, j)>> \o r
        PROVE  q \in R[i]
    <3>1. \E x : x = ItemOf(t, h + 2, m, f, j)
      OBVIOUS
    <3>2. PICK x : x = ItemOf(t, h + 2, m, f, j)
      BY <3>1
    <3>3. Follows(t, i, x, j) /\ q = <<x>> \o r
      BY <1>5, <2>2, <3>2, Zenon
    <3>4. q \in Seq(Its) /\ Adds(t, i, R, q)
      BY <1>6, <3>3, Zenon DEF Adds
    <3>. QED BY <1>3, <3>4
  <2>. QED BY <2>1, <2>2
<1>. DEFINE Fit(s, q) == s = its \o q
            Ends(q, j) == \E r \in R[j + 1] : q = <<ItemOf(t, h + 2, m, f, j)>> \o r
<1>8. ASSUME NEW s, s \in R[1]
      PROVE  \E j : /\ Bound(t, h + 2, j)
                    /\ \E r \in R[j + 1] : s = its \o (<<ItemOf(t, h + 2, m, f, j)>> \o r)
  <2>1. PICK q \in R[i] : s = its \o q
    BY <1>2, <1>8, Zenon
  <2>2. PICK j : Bound(t, h + 2, j) /\ Ends(q, j)
    BY <1>7, Zenon
  <2>. QED BY <2>1, <2>2, Zenon
<1>9. ASSUME NEW s, NEW j, Bound(t, h + 2, j), NEW r \in R[j + 1],
             s = its \o (<<ItemOf(t, h + 2, m, f, j)>> \o r)
      PROVE  s \in R[1]
  <2>1. \E q : q = <<ItemOf(t, h + 2, m, f, j)>> \o r
    OBVIOUS
  <2>2. PICK q : q = <<ItemOf(t, h + 2, m, f, j)>> \o r
    BY <2>1
  <2>3. q \in R[i]
    BY <1>7, <1>9, <2>2, Zenon
  <2>. QED BY <1>2, <1>9, <2>2, <2>3, Zenon
<1>. QED BY <1>8, <1>9

\* The data are read.
LEMMA DataTaken ==
  ASSUME NEW t \in Seq(Tokens), NEW d \in Nat \ {0}, NEW its \in Seq(Its),
         NEW m \in Names, NEW f \in {"none"} \cup Files,
         DataRead(t, its, d, m, f), NEW k, \A j : Bound(t, d, j) <=> j = k,
         NEW x, x = ItemOf(t, d, m, f, k)
  PROVE  /\ AfterItems(t, Append(its, x), k + 1)
         /\ Append(its, x) \in Seq(Its) /\ k + 1 \in 1 .. Len(t) + 1
<1>1. Len(t) \in Nat
  BY LenProperties
<1>2. k \in d .. Len(t)
  BY Zenon DEF Bound
<1>3. k + 1 \in 1 .. Len(t) + 1
  BY <1>1, <1>2
<1>4. x \in Its
  BY <1>2, ItemKnown, Zenon
<1>5. Append(its, x) \in Seq(Its) /\ Append(its, x) = its \o <<x>> /\ <<x>> \in Seq(Its)
  BY <1>4, AppendProperties, AppendIsConcat
<1>6. ASSUME NEW R, ReadRule(t, R)
      PROVE  \A s : s \in R[1] <=> \E r \in R[k + 1] : s = Append(its, x) \o r
  <2>1. \A s : s \in R[1] <=> \E j : /\ Bound(t, d, j)
                                     /\ \E r \in R[j + 1] :
                                          s = its \o (<<ItemOf(t, d, m, f, j)>> \o r)
    BY <1>6, Zenon DEF DataRead
  <2>2. \A s : s \in R[1] <=> \E r \in R[k + 1] : s = its \o (<<x>> \o r)
    <3>1. ASSUME NEW s, s \in R[1] PROVE \E r \in R[k + 1] : s = its \o (<<x>> \o r)
      <4>1. PICK j : /\ Bound(t, d, j)
                     /\ \E r \in R[j + 1] : s = its \o (<<ItemOf(t, d, m, f, j)>> \o r)
        BY <2>1, <3>1, Zenon
      <4>2. j = k /\ ItemOf(t, d, m, f, j) = x
        BY <4>1, Zenon
      <4>. QED BY <4>1, <4>2, Zenon
    <3>2. ASSUME NEW s, NEW r \in R[k + 1], s = its \o (<<x>> \o r) PROVE s \in R[1]
      <4>1. Bound(t, d, k)
        BY Zenon
      <4>2. s = its \o (<<ItemOf(t, d, m, f, k)>> \o r)
        BY <3>2, Zenon
      <4>. QED BY <2>1, <4>1, <4>2, Zenon
    <3>. QED BY <3>1, <3>2
  <2>3. \A r \in R[k + 1] : r \in Seq(Its)
    BY <1>3, <1>6, ReadTyped, Zenon
  <2>4. \A r \in R[k + 1] : its \o (<<x>> \o r) = Append(its, x) \o r
    <3>1. ASSUME NEW r \in R[k + 1]
          PROVE  its \o (<<x>> \o r) = Append(its, x) \o r
      <4>1. r \in Seq(Its)
        BY <2>3
      <4>2. (its \o <<x>>) \o r = its \o (<<x>> \o r)
        BY <1>5, <4>1, SeqAssoc
      <4>. QED BY <1>5, <4>2, Zenon
    <3>. QED BY <3>1
  <2>5. ASSUME NEW s, s \in R[1] PROVE \E r \in R[k + 1] : s = Append(its, x) \o r
    <3>1. PICK r \in R[k + 1] : s = its \o (<<x>> \o r)
      BY <2>2, <2>5, Zenon
    <3>. QED BY <2>4, <3>1, Zenon
  <2>6. ASSUME NEW s, NEW r \in R[k + 1], s = Append(its, x) \o r PROVE s \in R[1]
    <3>1. s = its \o (<<x>> \o r)
      BY <2>4, <2>6, Zenon
    <3>. QED BY <2>2, <3>1, Zenon
  <2>. QED BY <2>5, <2>6
<1>7. AfterItems(t, Append(its, x), k + 1)
  BY <1>6, Zenon DEF AfterItems
<1>. QED BY <1>3, <1>5, <1>7

\* Without a boundary behind the data nothing can be read.
LEMMA NoData ==
  ASSUME NEW t, NEW d, NEW its, NEW m, NEW f, DataRead(t, its, d, m, f),
         \A j : ~Bound(t, d, j)
  PROVE  ReadsNothing(t)
<1>1. SUFFICES ASSUME NEW R, ReadRule(t, R) PROVE R[1] = {}
  BY Zenon DEF ReadsNothing
<1>2. \A s : s \notin R[1]
  BY <1>1, Zenon DEF DataRead
<1>. QED BY <1>2

-----------------------------------------------------------------------------
(***************************************************************************)
(* Multipart bodies                                                        *)
(***************************************************************************)

\* What is known of a body at the top of the loop, behind the boundary of a
\* part, and at the end.
AtTop(t, its, i) == i \in 1 .. Len(t) + 1 /\ AfterItems(t, its, i)
AtHeader(t, its, i) ==
  \E k \in 1 .. Len(t) + 1 : i = k + 3 /\ Begins(t, k) /\ AfterItems(t, its, k)
AtData(t, its, i, p) ==
  /\ i \in Nat \ {0} /\ p.name \in Names /\ p.file \in {"none"} \cup Files
  /\ DataRead(t, its, i, p.name, p.file)
Concluded(t, b, its, e) ==
  IF e = "closed" THEN b \in 3 .. 70 /\ ReadsOnly(t, its)
  ELSE b \notin 3 .. 70 \/ ReadsNothing(t)

\* The invariant.
MultipartRead ==
  kind = "multipart" =>
    /\ body \in Seq(Tokens)
    /\ pc = "start" => items = << >> /\ idx = 1
    /\ pc \in {"top", "header", "data"} => boundary_len \in 3 .. 70 /\ items \in Seq(Its)
    /\ pc = "top" => AtTop(body, items, idx)
    /\ pc = "header" => AtHeader(body, items, idx)
    /\ pc = "data" => AtData(body, items, idx, part)
    /\ pc = "done" => Concluded(body, boundary_len, items, ending)

\* The first state.
LEMMA MultipartReadStarts == Init => MultipartRead
<1>1. SUFFICES ASSUME Init, kind = "multipart" PROVE MultipartRead
  BY Zenon DEF MultipartRead
<1>2. PICK m \in Multiparts : body = m.body
  BY <1>1 DEF Init
<1>3. body \in Seq(Tokens)
  BY <1>2, ItemsAssumption DEF Tokens
<1>4. pc = "start" /\ items = << >> /\ idx = 1
  BY <1>1, Zenon DEF Init
<1>. QED BY <1>3, <1>4 DEF MultipartRead

\* A text that cannot be read is refused.
LEMMA RefusedIs ==
  ASSUME MultipartRead, kind = "multipart", multipart, NEW e, e # "closed", Refuse(e),
         boundary_len \notin 3 .. 70 \/ ReadsNothing(body)
  PROVE  MultipartRead'
<1>1. /\ body' = body /\ boundary_len' = boundary_len /\ items' = items
      /\ ending' = e /\ pc' = "done"
  BY Zenon DEF multipart, Refuse, End
<1>2. body \in Seq(Tokens)
  BY Zenon DEF MultipartRead
<1>3. Concluded(body, boundary_len, items, e)
  BY Zenon DEF Concluded
<1>4. /\ "done" # "start" /\ "done" \notin {"top", "header", "data"}
      /\ "done" # "top" /\ "done" # "header" /\ "done" # "data"
  OBVIOUS
<1>. QED BY <1>1, <1>2, <1>3, <1>4, Zenon DEF MultipartRead

\* The start.
LEMMA StartStays ==
  ASSUME MultipartRead, MultipartStart
  PROVE  MultipartRead'
<1>1. /\ kind = "multipart" /\ pc = "start" /\ multipart
      /\ \/ /\ boundary_len \in 3 .. 70
            /\ pc' = "top" /\ UNCHANGED <<idx, part, items, raised, ending>>
         \/ boundary_len \notin 3 .. 70 /\ Refuse("boundary")
  BY Zenon DEF MultipartStart
<1>2. CASE boundary_len \notin 3 .. 70 /\ Refuse("boundary")
  <2>1. "boundary" # "closed"
    OBVIOUS
  <2>. QED BY <1>1, <1>2, <2>1, RefusedIs
<1>3. CASE /\ boundary_len \in 3 .. 70
           /\ pc' = "top" /\ UNCHANGED <<idx, part, items, raised, ending>>
  <2>1. body \in Seq(Tokens) /\ items = << >> /\ idx = 1
    BY <1>1, Zenon DEF MultipartRead
  <2>2. /\ body' = body /\ boundary_len' = boundary_len /\ items' = << >> /\ idx' = 1
    BY <1>1, <1>3, <2>1 DEF multipart
  <2>3. AtTop(body, << >>, 1)
    <3>1. 1 \in 1 .. Len(body) + 1
      BY <2>1, LenProperties
    <3>. QED BY <2>1, <3>1, StartRead, Zenon DEF AtTop
  <2>4. << >> \in Seq(Its)
    BY EmptySeq
  <2>5. "top" # "start" /\ "top" # "header" /\ "top" # "data" /\ "top" # "done"
    OBVIOUS
  <2>. QED BY <1>3, <2>1, <2>2, <2>3, <2>4, <2>5, Zenon DEF MultipartRead
<1>. QED BY <1>1, <1>2, <1>3, Zenon

\* The top of the loop.
LEMMA TopStays ==
  ASSUME MultipartRead, MultipartTop
  PROVE  MultipartRead'
<1>1. kind = "multipart" /\ pc = "top" /\ multipart
  BY Zenon DEF MultipartTop
<1>2. /\ body \in Seq(Tokens) /\ boundary_len \in 3 .. 70 /\ items \in Seq(Its)
      /\ AtTop(body, items, idx)
  <2>1. pc \in {"top", "header", "data"}
    BY <1>1
  <2>. QED BY <1>1, <2>1, Zenon DEF MultipartRead
<1>3. idx \in 1 .. Len(body) + 1 /\ AfterItems(body, items, idx) /\ idx \in Nat \ {0}
  <2>1. idx \in 1 .. Len(body) + 1 /\ AfterItems(body, items, idx)
    BY <1>2, Zenon DEF AtTop
  <2>. QED BY <2>1
<1>4. /\ Closing /\ Reads(idx, <<"--", "bnd", "--">>) <=> EndsAt(body, idx)
      /\ Begins(body, idx) /\ body[idx + 3] = "disp" => ~Closing
      /\ Reads(idx, <<"--", "bnd", "crlf">>) /\ idx + 3 <= Len(body) <=> Begins(body, idx)
      /\ Begins(body, idx) => ~EndsAt(body, idx)
  BY <1>2, <1>3, EndingsAre
<1>5. \A x, j : Follows(body, idx, x, j) => Begins(body, idx) /\ body[idx + 3] = "disp"
  BY SMTT(30) DEF Follows, HeaderOf
<1>. DEFINE closes == Reads(idx, <<"--", "bnd", "--">>)
            begins == Reads(idx, <<"--", "bnd", "crlf">>) /\ idx + 3 <= Len(body)
            Closed == /\ Closing /\ closes
                      /\ End("closed") /\ UNCHANGED <<idx, part, items, raised>>
            Wrong == Closing /\ ~closes /\ Refuse("boundary")
            Part == /\ ~Closing /\ begins
                    /\ idx' = idx + 3 /\ pc' = "header"
                    /\ UNCHANGED <<part, items, raised, ending>>
            NoPart_ == ~Closing /\ ~begins /\ Refuse("boundary")
<1>6. Closed \/ Wrong \/ Part \/ NoPart_
  BY Zenon DEF MultipartTop
<1>7. CASE Closed
  <2>1. EndsAt(body, idx)
    BY <1>4, <1>7, Zenon
  <2>2. ReadsOnly(body, items)
    BY <1>2, <1>3, <2>1, EndRead, Zenon
  <2>3. /\ body' = body /\ boundary_len' = boundary_len /\ items' = items
        /\ ending' = "closed" /\ pc' = "done"
    BY <1>1, <1>7 DEF multipart, End
  <2>4. Concluded(body, boundary_len, items, "closed")
    BY <1>2, <2>2, Zenon DEF Concluded
  <2>5. /\ "done" # "start" /\ "done" \notin {"top", "header", "data"}
        /\ "done" # "top" /\ "done" # "header" /\ "done" # "data"
    OBVIOUS
  <2>. HIDE DEF Closed
  <2>. QED BY <1>2, <2>3, <2>4, <2>5, Zenon DEF MultipartRead
<1>8. CASE Wrong \/ NoPart_
  <2>1. ~EndsAt(body, idx)
    BY <1>4, <1>8, Zenon
  <2>2. \A x, j : ~Follows(body, idx, x, j)
    BY <1>4, <1>5, <1>8, Zenon
  <2>3. ReadsNothing(body)
    BY <1>3, <2>1, <2>2, NoneRead, Zenon
  <2>4. Refuse("boundary") /\ "boundary" # "closed"
    BY <1>8
  <2>. QED BY <1>1, <2>3, <2>4, RefusedIs, Zenon
<1>9. CASE Part
  <2>1. Begins(body, idx)
    BY <1>4, <1>9, Zenon
  <2>2. AtHeader(body, items, idx + 3)
    BY <1>3, <2>1, Zenon DEF AtHeader
  <2>3. /\ body' = body /\ boundary_len' = boundary_len /\ items' = items
        /\ idx' = idx + 3 /\ pc' = "header"
    BY <1>1, <1>9 DEF multipart
  <2>4. "header" # "start" /\ "header" # "top" /\ "header" # "data" /\ "header" # "done"
    OBVIOUS
  <2>. HIDE DEF Part
  <2>. QED BY <1>2, <2>2, <2>3, <2>4, Zenon DEF MultipartRead
<1>. HIDE DEF Closed, Wrong, Part, NoPart_
<1>. QED BY <1>6, <1>7, <1>8, <1>9, Zenon

\* The header.
LEMMA HeaderStays ==
  ASSUME MultipartRead, MultipartHeader
  PROVE  MultipartRead'
<1>1. /\ kind = "multipart" /\ pc = "header" /\ multipart
      /\ \/ Header.ending # "none" /\ Refuse(Header.ending)
         \/ /\ Header.ending = "none"
            /\ part' = Header.part
            /\ idx' = Header.data /\ pc' = "data"
            /\ UNCHANGED <<items, raised, ending>>
  BY Zenon DEF MultipartHeader
<1>2. /\ body \in Seq(Tokens) /\ boundary_len \in 3 .. 70 /\ items \in Seq(Its)
      /\ AtHeader(body, items, idx)
  <2>1. pc \in {"top", "header", "data"}
    BY <1>1
  <2>. QED BY <1>1, <2>1, Zenon DEF MultipartRead
<1>3. PICK k \in 1 .. Len(body) + 1 :
        idx = k + 3 /\ Begins(body, k) /\ AfterItems(body, items, k)
  BY <1>2, Zenon DEF AtHeader
<1>4. k \in Nat \ {0} /\ idx \in Nat \ {0}
  BY <1>3
<1>5. ~EndsAt(body, k)
  BY <1>2, <1>3, <1>4, EndingsAre
<1>6. /\ Header.ending = "none" =>
           \E e : HeaderOf(body, idx, e, Header.data - 2, Header.part.name, Header.part.file)
      /\ Header.ending = "none" =>
           /\ Header.data \in Nat
           /\ Header.part = [name |-> Header.part.name, file |-> Header.part.file]
      /\ \A e, h, m, f : HeaderOf(body, idx, e, h, m, f) =>
           /\ Header.ending = "none" /\ Header.data = h + 2
           /\ Header.part.name = m /\ Header.part.file = f
  BY <1>2, <1>4, HeaderIs
<1>. DEFINE hd == Header
<1>7. CASE hd.ending # "none" /\ Refuse(hd.ending)
  <2>1. \A e, h, m, f : ~HeaderOf(body, k + 3, e, h, m, f)
    BY <1>3, <1>6, <1>7, Zenon
  <2>2. \A x, j : ~Follows(body, k, x, j)
    BY <2>1, Zenon DEF Follows
  <2>3. ReadsNothing(body)
    BY <1>3, <1>5, <2>2, NoneRead, Zenon
  <2>4. hd.ending # "closed"
    BY HeaderEndings
  <2>. HIDE DEF hd
  <2>. QED BY <1>1, <1>7, <2>3, <2>4, RefusedIs, Zenon
<1>8. CASE /\ hd.ending = "none"
           /\ part' = hd.part
           /\ idx' = hd.data /\ pc' = "data"
           /\ UNCHANGED <<items, raised, ending>>
  <2>1. PICK e : HeaderOf(body, idx, e, hd.data - 2, hd.part.name, hd.part.file)
    BY <1>6, <1>8, Zenon
  <2>2. hd.data \in Nat
    BY <1>6, <1>8, Zenon
  <2>3. \A a, h, m, f : HeaderOf(body, idx, a, h, m, f) =>
           hd.data = h + 2 /\ hd.part.name = m /\ hd.part.file = f
    BY <1>6, Zenon
  <2>. HIDE DEF hd
  <2>4. PICK h : h = hd.data - 2
    OBVIOUS
  <2>5. PICK m, f : m = hd.part.name /\ f = hd.part.file
    OBVIOUS
  <2>6. HeaderOf(body, k + 3, e, h, m, f)
    BY <1>3, <2>1, <2>4, <2>5, Zenon
  <2>7. h \in Nat \ {0} /\ h + 2 = hd.data
    <3>1. Len(body) \in Nat /\ k + 3 \in Nat \ {0}
      BY <1>2, <1>4, LenProperties
    <3>2. h \in k + 3 + 1 .. Len(body)
      BY <2>6, <3>1, HeaderWithin
    <3>. QED BY <1>4, <2>2, <2>4, <3>2
  <2>8. \A a, b, c, d : HeaderOf(body, k + 3, a, b, c, d) => b = h /\ c = m /\ d = f
    <3>1. ASSUME NEW a, NEW b, NEW c, NEW d, HeaderOf(body, k + 3, a, b, c, d)
          PROVE  b = h /\ c = m /\ d = f
      <4>1. hd.data = b + 2 /\ c = m /\ d = f
        BY <1>3, <2>3, <2>5, <3>1, Zenon
      <4>2. b \in Int
        <5>1. Len(body) \in Nat /\ k + 3 \in Nat \ {0}
          BY <1>2, <1>4, LenProperties
        <5>2. b \in k + 3 + 1 .. Len(body)
          BY <3>1, <5>1, HeaderWithin
        <5>. QED BY <5>2
      <4>. QED BY <2>4, <4>1, <4>2
    <3>. QED BY <3>1
  <2>9. DataRead(body, items, h + 2, m, f)
    BY <1>2, <1>3, <1>5, <2>6, <2>8, HeaderRead, Zenon
  <2>10. m \in Names /\ f \in {"none"} \cup Files
    BY <2>6, Zenon DEF HeaderOf
  <2>11. h + 2 \in Nat \ {0}
    BY <2>7
  <2>12. AtData(body, items, hd.data, hd.part)
    BY <2>5, <2>7, <2>9, <2>10, <2>11, Zenon DEF AtData
  <2>13. /\ body' = body /\ boundary_len' = boundary_len /\ items' = items
         /\ idx' = hd.data /\ part' = hd.part /\ pc' = "data"
    BY <1>1, <1>8 DEF multipart
  <2>14. "data" # "start" /\ "data" # "top" /\ "data" # "header" /\ "data" # "done"
    OBVIOUS
  <2>. QED BY <1>2, <2>12, <2>13, <2>14, Zenon DEF MultipartRead
<1>. QED BY <1>1, <1>7, <1>8, Zenon DEF hd

\* The data.
LEMMA DataStays ==
  ASSUME MultipartRead, MultipartData
  PROVE  MultipartRead'
<1>. DEFINE file == part.file # "none"
            data == SubSeq(body, idx, DataEnd - 1)
            x == IF file THEN <<"FILE_EXT", part.name, <<part.file>>>>
                 ELSE <<"BODY", part.name, data>>
            Line == idx > Len(body) /\ Refuse("line")
            Format == idx <= Len(body) /\ DataEnd = 0 /\ Refuse("format")
            Taken == /\ idx <= Len(body) /\ DataEnd # 0
                     /\ items' = Append(items, x)
                     /\ idx' = DataEnd + 1 /\ pc' = "top"
<1>1. /\ kind = "multipart" /\ pc = "data" /\ multipart
      /\ Line \/ Format \/ Taken
  BY Zenon DEF MultipartData
<1>2. /\ body \in Seq(Tokens) /\ boundary_len \in 3 .. 70 /\ items \in Seq(Its)
      /\ AtData(body, items, idx, part)
  <2>1. pc \in {"top", "header", "data"}
    BY <1>1
  <2>. QED BY <1>1, <2>1, Zenon DEF MultipartRead
<1>3. /\ idx \in Nat \ {0} /\ part.name \in Names /\ part.file \in {"none"} \cup Files
      /\ DataRead(body, items, idx, part.name, part.file)
  BY <1>2, Zenon DEF AtData
<1>4. \A j : Bound(body, idx, j) <=> j = DataEnd /\ DataEnd # 0
  BY <1>2, <1>3, DataEndIs
<1>5. x = ItemOf(body, idx, part.name, part.file, DataEnd)
  BY Zenon DEF ItemOf
<1>. HIDE DEF x
<1>6. CASE Line \/ Format
  <2>1. \A j : ~Bound(body, idx, j)
    <3>1. CASE Line
      <4>1. Len(body) \in Nat /\ idx > Len(body)
        BY <1>2, <3>1, LenProperties
      <4>2. \A j : j \notin idx .. Len(body)
        BY <1>3, <4>1
      <4>. QED BY <4>2, Zenon DEF Bound
    <3>2. CASE Format
      BY <1>4, <3>2, Zenon
    <3>. QED BY <1>6, <3>1, <3>2, Zenon
  <2>2. ReadsNothing(body)
    BY <1>3, <2>1, NoData, Zenon
  <2>3. \E e \in {"line", "format"} : Refuse(e)
    BY <1>6, Zenon
  <2>4. PICK e \in {"line", "format"} : Refuse(e)
    BY <2>3
  <2>5. e # "closed"
    BY <2>4
  <2>. QED BY <1>1, <2>2, <2>4, <2>5, RefusedIs, Zenon
<1>7. CASE Taken
  <2>1. \A j : Bound(body, idx, j) <=> j = DataEnd
    BY <1>4, <1>7, Zenon
  <2>2. \E k : k = DataEnd
    OBVIOUS
  <2>3. PICK k : k = DataEnd
    BY <2>2
  <2>4. (\A j : Bound(body, idx, j) <=> j = k)
        /\ x = ItemOf(body, idx, part.name, part.file, k)
    BY <1>5, <2>1, <2>3, Zenon
  <2>5. /\ AfterItems(body, Append(items, x), k + 1)
        /\ Append(items, x) \in Seq(Its) /\ k + 1 \in 1 .. Len(body) + 1
    BY <1>2, <1>3, <2>4, DataTaken, Zenon
  <2>6. AtTop(body, Append(items, x), k + 1)
    BY <2>5, Zenon DEF AtTop
  <2>7. /\ body' = body /\ boundary_len' = boundary_len /\ items' = Append(items, x)
        /\ idx' = k + 1 /\ pc' = "top"
    BY <1>1, <1>7, <2>3 DEF multipart
  <2>8. "top" # "start" /\ "top" # "header" /\ "top" # "data" /\ "top" # "done"
    OBVIOUS
  <2>. HIDE DEF Taken
  <2>. QED BY <1>2, <2>5, <2>6, <2>7, <2>8, Zenon DEF MultipartRead
<1>. HIDE DEF Line, Format, Taken
<1>. QED BY <1>1, <1>6, <1>7, Zenon

\* Every step.
LEMMA MultipartReadStays == MultipartRead /\ [Next]_vars => MultipartRead'
<1>1. SUFFICES ASSUME MultipartRead, [Next]_vars PROVE MultipartRead'
  BY Zenon
<1>2. CASE UNCHANGED vars
  <2>1. /\ kind' = kind /\ body' = body /\ boundary_len' = boundary_len /\ idx' = idx
        /\ part' = part /\ items' = items /\ ending' = ending /\ pc' = pc
    BY <1>2 DEF vars
  <2>. QED BY <1>1, <2>1, Zenon DEF MultipartRead
<1>3. CASE Query
  <2>1. kind = "query" /\ kind' = kind
    BY <1>3 DEF Query, QueryStart, QueryEmpty, QueryPiece, QueryEnd, AtPiece
  <2>2. kind' # "multipart"
    BY <2>1
  <2>. QED BY <2>2, Zenon DEF MultipartRead
<1>4. CASE Multipart
  BY <1>1, <1>4, StartStays, TopStays, HeaderStays, DataStays, Zenon DEF Multipart
<1>. QED BY <1>1, <1>2, <1>3, <1>4, Zenon DEF Next

\* At the end, what was inspected is what the grammar gives.
LEMMA MultipartEnds ==
  ASSUME MultipartRead
  PROVE  MultipartInspected
<1>1. SUFFICES ASSUME kind = "multipart", pc = "done"
               PROVE  IF ending = "closed" THEN Readings = {items}
                      ELSE boundary_len \notin 3 .. 70 \/ Readings = {}
  BY Zenon DEF MultipartInspected
<1>2. body \in Seq(Tokens) /\ Concluded(body, boundary_len, items, ending)
  BY <1>1, Zenon DEF MultipartRead
<1>3. CASE boundary_len \in 3 .. 70
  <2>1. PICK R : ReadRule(body, R) /\ Readings = R[1]
    BY <1>2, <1>3, ReadingsAre
  <2>2. CASE ending = "closed"
    <3>1. R[1] = {items}
      BY <1>2, <2>1, <2>2, Zenon DEF Concluded, ReadsOnly
    <3>. QED BY <2>1, <2>2, <3>1, Zenon
  <2>3. CASE ending # "closed"
    <3>1. R[1] = {}
      BY <1>2, <1>3, <2>1, <2>3, Zenon DEF Concluded, ReadsNothing
    <3>. QED BY <2>1, <2>3, <3>1, Zenon
  <2>. QED BY <2>2, <2>3, Zenon
<1>4. CASE boundary_len \notin 3 .. 70
  <2>1. ending # "closed"
    BY <1>2, <1>4, Zenon DEF Concluded
  <2>. QED BY <1>4, <2>1, Zenon
<1>. QED BY <1>3, <1>4, Zenon

\* A multipart body that passes was, from its first byte to its last, a
\* sequence of parts that the boundary closes, in one way only, and each value
\* and each file name was inspected, once and in order.
THEOREM MultipartInspectedHolds == Spec => []MultipartInspected
<1>1. MultipartRead => MultipartInspected
  BY MultipartEnds
<1>. QED BY <1>1, MultipartReadStarts, MultipartReadStays, PTL DEF Spec
=============================================================================
