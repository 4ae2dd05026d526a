---------------------------- MODULE MCNaxsiItems ----------------------------
(***************************************************************************)
(* Instances of NaxsiItems: all short queries over the bytes that matter   *)
(* to the split and to the decoding, texts around every limit of the UTF-8 *)
(* check, and multipart bodies that are well formed up to edits.           *)
(***************************************************************************)
EXTENDS NaxsiItems

CONSTANT MaxQuery  \* bound: the bytes of a query

MCNames == {"name=a", "name=b"}
MCFiles == {"filename=c"}

\* % 0 8 C & = and the null byte; z is no digit.
QueryBytes == {37, 48, 67, 38, 61, 0, 122}

\* A first byte of each kind and the limits of the bytes that follow it.
Utf8Firsts == {127, 128, 191, 192, 193, 194, 223, 224, 225, 237, 239, 240, 241,
               244, 245, 248, 255}
Utf8Others == {65, 127, 128, 143, 144, 159, 160, 189, 190, 191, 192, 0}
Utf8Texts ==
  {<<a, b>> : a \in Utf8Firsts, b \in Utf8Others}
  \cup {<<a, b, c>> : a \in {224, 225, 237, 239, 240}, b, c \in Utf8Others}
  \cup {<<a, b, c, d>> : a \in {240, 241, 244, 245}, b, c \in Utf8Others,
                         d \in {65, 128, 191}}
  \cup {<<37, 67, 48, 37, 56, 48>>}

MCQueries == Utf8Texts \cup UNION {[1 .. n -> QueryBytes] : n \in 0 .. MaxQuery}

Line(params) == <<"--", "bnd", "crlf", "disp">> \o params \o <<"crlf">>
Plain(n, data) == Line(<<"sp", n>>) \o <<"crlf">> \o data \o <<"crlf">>
File(n, data) ==
  Line(<<n, "semi", "sp", "filename=c">>) \o <<"x", "crlf", "crlf">> \o data \o <<"crlf">>
Close == <<"--", "bnd", "--", "crlf">>

One == Plain("name=a", <<"x">>) \o Close
Templates ==
  {Close, SubSeq(Close, 1, 3), One,
   File("name=a", <<"nul">>) \o Close,
   Plain("name=a", << >>) \o Plain("name=b", <<"x", "lf", "nul">>) \o Close,
   File("name=a", <<"x">>) \o Plain("name=b", <<"x">>) \o Close,
   Plain("name=a", <<"x">>) \o File("name=a", << >>) \o Close}

\* One token more, one less, or another.
Edits(s) ==
  {Seqs!InsertAt(s, i, t) : i \in 1 .. Len(s) + 1, t \in Marks \cup Params}
  \cup {Seqs!RemoveAt(s, i) : i \in DOMAIN s}
  \cup {[s EXCEPT ![i] = t] : i \in DOMAIN s, t \in Marks \cup Params}

\* Two other tokens.
Pairs(s) ==
  {[s EXCEPT ![i] = t, ![j] = u] :
     i, j \in DOMAIN s, t, u \in Marks \cup Params}

\* Quotes that are not closed are the last thing on a line.
Closable(s) ==
  \A i \in DOMAIN s : s[i] = "open" => i = Len(s) \/ s[i + 1] \in {"crlf", "lf", "nul"}

Bodies == {s \in UNION {{t} \cup Edits(t) : t \in Templates}
                  \cup Pairs(One) :
             s # << >> /\ Closable(s)}

MCMultiparts ==
  [boundary_len : {3}, body : Bodies]
  \cup [boundary_len : {0, 2, 70, 71}, body : Templates]
=============================================================================
