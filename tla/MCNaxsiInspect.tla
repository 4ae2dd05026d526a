--------------------------- MODULE MCNaxsiInspect ---------------------------
(***************************************************************************)
(* Instances of NaxsiInspect: CheckRule "$SQL >= 8" BLOCK, "$UWA >= 4"     *)
(* DROP and "$LIBINJECTION_SQL >= 40" BLOCK; requests that put every kind  *)
(* of item in each place, alone and after another one.                     *)
(***************************************************************************)
EXTENDS NaxsiInspect

CONSTANTS sql, uwa

Limit(tag, score, flag) ==
  [sc_tag |-> tag, cmp |-> "SUP_OR_EQUAL", sc_score |-> score,
   flags |-> {flag}]

ThreeLimits ==
  {Limit(sql, 8, "block"), Limit(uwa, 4, "drop"),
   Limit(LIBINJECTION_SQL, 40, "block")}

Four(tag) == [sscores |-> [t \in {tag} |-> 4], flags |-> {}]
FourPoints == {Four(sql), Four(uwa)}

Scoring(tag, nb) == [effect |-> Four(tag), nb_match |-> nb]

NewItem(zeros, bad_utf8, injections, local, main) ==
  [zeros |-> zeros, bad_utf8 |-> bad_utf8, injections |-> injections,
   hits |-> [local |-> local, main |-> main]]

clean   == NewItem(<< >>, FALSE, << >>, << >>, << >>)
half    == NewItem(<< >>, FALSE, << >>, << >>, << <<Scoring(sql, 1)>> >>)
blocked == NewItem(<< >>, FALSE, << >>, << <<Scoring(sql, 1), Scoring(sql, 1)>> >>, << >>)
dropped == NewItem(<< >>, FALSE, << >>, << <<Scoring(sql, 2)>>, <<Scoring(uwa, 1)>> >>,
                << >>)
zero    == NewItem(<<10>>, FALSE, << >>, << >>, << >>)
utf8    == NewItem(<< >>, TRUE, << >>, << >>, << <<Scoring(sql, 2)>> >>)
injects == NewItem(<< >>, FALSE, <<17>>, << >>, << >>)

Items == {clean, half, blocked, dropped, zero, utf8, injects}
Plain == {clean, half, dropped}

None == [present |-> FALSE, zeros |-> << >>, trailing |-> FALSE,
         pieces |-> << >>]
NewQuery(pieces, trailing) ==
  [None EXCEPT !.present = TRUE, !.pieces = pieces, !.trailing = trailing]

Data(type, pieces) ==
  [bufs |-> TRUE, temp_file |-> FALSE, mismatch |-> FALSE, type |-> type,
   zeros |-> << >>, trailing |-> FALSE, pieces |-> pieces,
   ending |-> "closed", errors |-> << >>]

Get == [headers |-> << >>, illegal_host |-> FALSE, uri |-> clean,
        args |-> None, method |-> "GET", body |-> Data("none", << >>)]

HeadRequests ==
  {[Get EXCEPT !.headers = <<i, j>>, !.illegal_host = h, !.uri = u] :
     i, j \in Items, h \in BOOLEAN, u \in Plain}

ArgRequests ==
  {[Get EXCEPT !.uri = u, !.args = a] :
     u \in Items,
     a \in {NewQuery(<< <<i>>, <<j>> >>, FALSE) : i, j \in Items}
           \cup {NewQuery(<< <<i>>, << >>, <<j>> >>, t) :
                   i, j \in Plain, t \in BOOLEAN}
           \cup {NewQuery(<< << >> >>, TRUE), [NewQuery(<< >>, FALSE) EXCEPT !.zeros = <<10>>]}}

Bodies ==
  {[Data("urlencoded", << <<i>>, <<j>> >>) EXCEPT !.mismatch = m] :
     i \in Plain, j \in Items, m \in BOOLEAN}
  \cup {[Data("multipart", << <<i>>, <<j>> >>) EXCEPT !.ending = e] :
          i \in Plain, j \in Items,
          e \in {"closed", "boundary", "disposition", "format", "line"}}
  \cup {[Data("json", << <<i>>, <<j>> >>) EXCEPT !.errors = e] :
          i \in Plain, j \in Items, e \in {<< >>, <<15>>, <<15, 15>>}}
  \cup {[Data(t, << <<i>> >>) EXCEPT !.temp_file = f] :
          t \in {"none", "other"}, i \in Items, f \in BOOLEAN}
  \cup {[Data("json", << >>) EXCEPT !.bufs = FALSE]}

BodyRequests ==
  {[Get EXCEPT !.method = m, !.args = a, !.body = b] :
     m \in {"GET", "POST", "PUT"},
     a \in {None, NewQuery(<< <<half>> >>, FALSE), NewQuery(<< <<dropped>> >>, FALSE)},
     b \in Bodies}

\* Rules everywhere, the local ones or the main ones.
NewConf(sets) ==
  [learning |-> FALSE, listed |-> FALSE, whitelisted |-> {},
   header_rules |-> sets, generic_rules |-> sets, get_rules |-> sets,
   body_rules |-> sets, raw_body_rules |-> sets]

Everywhere == NewConf({"local", "main"})

\* Each location, learning or not, for a client it ignores or not.
AllConfs ==
  {[c EXCEPT !.learning = l, !.listed = i] :
     l, i \in BOOLEAN,
     c \in {[Everywhere EXCEPT !.whitelisted = w] :
              w \in {{}, {2, 10}, {10, 20}, {20, 21}, {2, 11, 13}}}}
  \cup {[NewConf({"main"}) EXCEPT !.header_rules = {}],
        [NewConf({"local"}) EXCEPT !.generic_rules = {}],
        [NewConf({"main"}) EXCEPT !.get_rules = {}],
        [NewConf({"main"}) EXCEPT !.raw_body_rules = {}, !.whitelisted = {11}],
        [NewConf({"local"}) EXCEPT !.body_rules = {}]}

AllRequests == HeadRequests \cup ArgRequests \cup BodyRequests
=============================================================================
