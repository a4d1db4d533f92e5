-------------------------- MODULE HttpServer_proofs --------------------------
(***************************************************************************)
(* Proofs about the server.  A request is on the wire as one sequence of   *)
(* units; recv cuts it anywhere.  For any number of connections, any buffer*)
(* and any requests, what has been assembled is the front of what was      *)
(* sent, so the head and the body that are split off it are those the      *)
(* client announced.  And of the form in it every limit is written where   *)
(* it belongs in the estimator's configuration, and nothing else is.       *)
(***************************************************************************)
EXTENDS HttpServer, SetSums, SequenceTheorems

-----------------------------------------------------------------------------
(***************************************************************************)
(* What is on the wire: a line, H header lines, two line ends, the body.    *)
(***************************************************************************)

IsRequest(r) == r.headers \in Seq(HeaderLine) /\ r.body \in Seq(STRING)

Units(r) ==
    {Line([path |-> r.path, query |-> r.query]), LineEnd}
        \cup {r.headers[i] : i \in DOMAIN r.headers}
        \cup {Char(r.body[i]) : i \in DOMAIN r.body}

H(r) == Len(r.headers)
B(r) == Len(r.body)

LEMMA WireIs ==
    ASSUME NEW r, IsRequest(r)
    PROVE  LET w == OnTheWire(r)
           IN  /\ w \in Seq(Units(r))
               /\ H(r) \in Nat /\ B(r) \in Nat /\ Len(w) = H(r) + 3 + B(r)
               /\ w[1] = Line([path |-> r.path, query |-> r.query])
               /\ \A i \in 1 .. H(r) : w[i + 1] = r.headers[i]
               /\ w[H(r) + 2] = LineEnd /\ w[H(r) + 3] = LineEnd
               /\ \A i \in 1 .. B(r) : w[H(r) + 3 + i] = Char(r.body[i])
<1> DEFINE S == Units(r)
           first == <<Line([path |-> r.path, query |-> r.query])>>
           ends == <<LineEnd, LineEnd>>
           text == [i \in DOMAIN r.body |-> Char(r.body[i])]
<1>1. /\ r.headers \in Seq(S) /\ Len(r.headers) = H(r) /\ H(r) \in Nat
      /\ \A i \in 1 .. H(r) : r.headers[i] \in S
  <2>1. r.headers \in Seq(HeaderLine) /\ DOMAIN r.headers = 1 .. H(r)
        /\ H(r) \in Nat
    BY LenProperties DEF IsRequest, H
  <2>2. \A i \in 1 .. H(r) : r.headers[i] \in S
    BY <2>1 DEF Units
  <2> HIDE DEF S
  <2>3. r.headers \in Seq(S)
    BY <2>1, <2>2 DEF H
  <2> QED BY <2>1, <2>2, <2>3 DEF H
<1>2. /\ text \in Seq(S) /\ Len(text) = B(r) /\ B(r) \in Nat
      /\ \A i \in 1 .. B(r) : text[i] = Char(r.body[i])
  <2>1. DOMAIN r.body = 1 .. B(r) /\ B(r) \in Nat
    BY LenProperties DEF IsRequest, B
  <2>2. \A i \in 1 .. B(r) : Char(r.body[i]) \in S
    BY <2>1 DEF Units
  <2> HIDE DEF S
  <2> QED BY <2>1, <2>2
<1>3. first \in Seq(S) /\ Len(first) = 1 /\ first[1] = Line([path |-> r.path, query |-> r.query])
  <2>1. Line([path |-> r.path, query |-> r.query]) \in S
    BY DEF Units
  <2> HIDE DEF S
  <2> QED BY <2>1
<1>4. ends \in Seq(S) /\ Len(ends) = 2 /\ ends[1] = LineEnd /\ ends[2] = LineEnd
  <2>1. LineEnd \in S
    BY DEF Units
  <2> HIDE DEF S
  <2> QED BY <2>1
<1>5. OnTheWire(r) = first \o r.headers \o ends \o text
  BY DEF OnTheWire
<1> DEFINE one == first \o r.headers
           two == one \o ends
<1> HIDE DEF S, first, ends, text
<1>6. /\ one \in Seq(S) /\ Len(one) = 1 + H(r)
      /\ one[1] = Line([path |-> r.path, query |-> r.query])
      /\ \A i \in 1 .. H(r) : one[i + 1] = r.headers[i]
  <2>1. /\ one \in Seq(S) /\ Len(one) = Len(first) + Len(r.headers)
        /\ \A i \in 1 .. Len(first) + Len(r.headers) :
               one[i] = IF i <= Len(first) THEN first[i] ELSE r.headers[i - Len(first)]
    BY <1>1, <1>3, ConcatProperties
  <2> HIDE DEF one
  <2> QED BY <1>1, <1>3, <2>1
<1> HIDE DEF one
<1>7. /\ two \in Seq(S) /\ Len(two) = H(r) + 3
      /\ \A i \in 1 .. 1 + H(r) : two[i] = one[i]
      /\ two[H(r) + 2] = LineEnd /\ two[H(r) + 3] = LineEnd
  <2>1. /\ two \in Seq(S) /\ Len(two) = Len(one) + Len(ends)
        /\ \A i \in 1 .. Len(one) + Len(ends) :
               two[i] = IF i <= Len(one) THEN one[i] ELSE ends[i - Len(one)]
    BY <1>4, <1>6, ConcatProperties
  <2> HIDE DEF two
  <2>2. \A i \in 1 .. 1 + H(r) : two[i] = one[i]
    BY <1>1, <1>4, <1>6, <2>1
  <2>3. two[H(r) + 2] = ends[1] /\ two[H(r) + 3] = ends[2]
    <3>1. \A i, j \in 1 .. Len(one) + Len(ends) :
              i > Len(one) /\ i - Len(one) = j => two[i] = ends[j]
      BY <1>1, <1>4, <1>6, <2>1
    <3>2. /\ H(r) + 2 \in 1 .. Len(one) + Len(ends) /\ 1 \in 1 .. Len(one) + Len(ends)
          /\ H(r) + 2 > Len(one) /\ (H(r) + 2) - Len(one) = 1
      BY <1>1, <1>4, <1>6
    <3>3. /\ H(r) + 3 \in 1 .. Len(one) + Len(ends) /\ 2 \in 1 .. Len(one) + Len(ends)
          /\ H(r) + 3 > Len(one) /\ (H(r) + 3) - Len(one) = 2
      BY <1>1, <1>4, <1>6
    <3> QED BY <3>1, <3>2, <3>3, Zenon
  <2> QED BY <1>1, <1>4, <1>6, <2>1, <2>2, <2>3
<1> HIDE DEF two
<1>8. /\ OnTheWire(r) \in Seq(S) /\ Len(OnTheWire(r)) = H(r) + 3 + B(r)
      /\ \A i \in 1 .. H(r) + 3 : OnTheWire(r)[i] = two[i]
      /\ \A i \in 1 .. B(r) : OnTheWire(r)[H(r) + 3 + i] = text[i]
  <2>1. /\ two \o text \in Seq(S) /\ Len(two \o text) = Len(two) + Len(text)
        /\ \A i \in 1 .. Len(two) + Len(text) :
               (two \o text)[i] = IF i <= Len(two) THEN two[i] ELSE text[i - Len(two)]
    BY <1>2, <1>7, ConcatProperties
  <2>2. OnTheWire(r) = two \o text
    BY <1>5 DEF one, two
  <2>3. \A i \in 1 .. H(r) + 3 : OnTheWire(r)[i] = two[i]
    BY <1>1, <1>2, <1>7, <2>1, <2>2
  <2>4. \A i \in 1 .. B(r) : OnTheWire(r)[H(r) + 3 + i] = text[i]
    <3> SUFFICES ASSUME NEW i \in 1 .. B(r) PROVE OnTheWire(r)[H(r) + 3 + i] = text[i]
      OBVIOUS
    <3>1. \A k \in 1 .. Len(two) + Len(text), j \in 1 .. Len(text) :
              k > Len(two) /\ k - Len(two) = j => OnTheWire(r)[k] = text[j]
      BY <1>2, <1>7, <2>1, <2>2
    <3>2. /\ H(r) + 3 + i \in 1 .. Len(two) + Len(text) /\ i \in 1 .. Len(text)
          /\ H(r) + 3 + i > Len(two) /\ (H(r) + 3 + i) - Len(two) = i
      BY <1>1, <1>2, <1>7
    <3> QED BY <3>1, <3>2, Zenon
  <2> QED BY <1>1, <1>2, <1>7, <2>1, <2>2, <2>3, <2>4
<1> DEFINE w == OnTheWire(r)
<1>9. w \in Seq(Units(r)) /\ H(r) \in Nat /\ B(r) \in Nat /\ Len(w) = H(r) + 3 + B(r)
  BY <1>1, <1>2, <1>8 DEF S
<1>10. \A i \in 1 .. H(r) + 3 : w[i] = two[i]
  BY <1>8
<1>11. \A i \in 1 .. B(r) : w[H(r) + 3 + i] = Char(r.body[i])
  BY <1>2, <1>8
<1> HIDE DEF w
<1>12. w[1] = Line([path |-> r.path, query |-> r.query])
  BY <1>1, <1>6, <1>7, <1>10
<1>13. \A i \in 1 .. H(r) : w[i + 1] = r.headers[i]
  BY <1>1, <1>6, <1>7, <1>10
<1>14. w[H(r) + 2] = LineEnd /\ w[H(r) + 3] = LineEnd
  BY <1>1, <1>7, <1>10
<1> QED BY <1>9, <1>11, <1>12, <1>13, <1>14 DEF w

-----------------------------------------------------------------------------
(***************************************************************************)
(* What has been received is the beginning of what is on the wire.          *)
(***************************************************************************)

PartOf(text, r) ==
    /\ text \in Seq(Units(r))
    /\ Len(text) <= Len(OnTheWire(r))
    /\ \A i \in 1 .. Len(text) : text[i] = OnTheWire(r)[i]

RestOf(rest, text, r) ==
    /\ rest \in Seq(Units(r))
    /\ Len(rest) + Len(text) = Len(OnTheWire(r))
    /\ \A i \in 1 .. Len(rest), j \in 1 .. Len(OnTheWire(r)) :
           j = Len(text) + i => rest[i] = OnTheWire(r)[j]

LEMMA NothingReceived ==
    ASSUME NEW r, IsRequest(r)
    PROVE  PartOf(<<>>, r) /\ RestOf(OnTheWire(r), <<>>, r)
<1> DEFINE w == OnTheWire(r)
           S == Units(r)
<1>1. w \in Seq(S)
  BY WireIs
<1> HIDE DEF w, S
<1>2. Len(w) \in Nat
  BY <1>1, LenProperties
<1>3. <<>> \in Seq(S) /\ Len(<<>>) = 0
  OBVIOUS
<1>4. /\ <<>> \in Seq(S) /\ Len(<<>>) <= Len(w)
      /\ \A i \in 1 .. Len(<<>>) : <<>>[i] = w[i]
  BY <1>2, <1>3
<1>5. /\ w \in Seq(S) /\ Len(w) + Len(<<>>) = Len(w)
      /\ \A i \in 1 .. Len(w), j \in 1 .. Len(w) : j = Len(<<>>) + i => w[i] = w[j]
  BY <1>1, <1>2, <1>3
<1> QED BY <1>4, <1>5 DEF PartOf, RestOf, w, S

LEMMA ReceivesMore ==
    ASSUME NEW r, NEW text, NEW rest, IsRequest(r), PartOf(text, r), RestOf(rest, text, r),
           NEW n \in Nat, n <= Len(rest)
    PROVE  LET piece == SubSeq(rest, 1, n)
               left == SubSeq(rest, Len(piece) + 1, Len(rest))
           IN  PartOf(text \o piece, r) /\ RestOf(left, text \o piece, r)
<1> DEFINE S == Units(r)
           w == OnTheWire(r)
           piece == SubSeq(rest, 1, n)
           left == SubSeq(rest, Len(piece) + 1, Len(rest))
           all == text \o piece
<1>1. w \in Seq(S)
  BY WireIs
<1>2. /\ text \in Seq(S) /\ rest \in Seq(S) /\ Len(rest) + Len(text) = Len(w)
      /\ \A i \in 1 .. Len(text) : text[i] = w[i]
      /\ \A i \in 1 .. Len(rest), j \in 1 .. Len(w) : j = Len(text) + i => rest[i] = w[j]
  BY DEF PartOf, RestOf
<1> HIDE DEF w, S
<1>3. /\ Len(w) \in Nat /\ Len(text) \in Nat /\ Len(rest) \in Nat
      /\ \A i \in 1 .. Len(rest) : rest[i] \in S
  <2>1. DOMAIN rest = 1 .. Len(rest) /\ rest \in [1 .. Len(rest) -> S]
    BY <1>2, LenProperties
  <2> QED BY <1>1, <1>2, <2>1, LenProperties
<1>4. /\ piece \in Seq(S) /\ Len(piece) = n
      /\ \A i \in 1 .. n : piece[i] = rest[i]
  <2>1. \A i \in 1 .. n : rest[i] \in S
    BY <1>3
  <2>2. /\ piece \in Seq(S)
        /\ Len(piece) = IF 1 <= n THEN n - 1 + 1 ELSE 0
        /\ \A i \in 1 .. n - 1 + 1 : piece[i] = rest[1 + i - 1]
    BY <2>1, SubSeqProperties
  <2> HIDE DEF piece
  <2> QED BY <2>2
<1>5. /\ left \in Seq(S) /\ Len(left) = Len(rest) - n
      /\ \A i \in 1 .. Len(left), k \in 1 .. Len(rest) : k = n + i => left[i] = rest[k]
  <2>1. \A i \in n + 1 .. Len(rest) : rest[i] \in S
    BY <1>3
  <2> DEFINE l == SubSeq(rest, n + 1, Len(rest))
  <2>2. left = l
    BY <1>4
  <2>3. /\ l \in Seq(S)
        /\ Len(l) = IF n + 1 <= Len(rest) THEN Len(rest) - (n + 1) + 1 ELSE 0
        /\ \A i \in 1 .. Len(rest) - (n + 1) + 1 : l[i] = rest[n + 1 + i - 1]
    BY <1>3, <2>1, SubSeqProperties
  <2> HIDE DEF l, left
  <2>4. Len(l) = Len(rest) - n
    BY <1>3, <2>3
  <2>5. \A i \in 1 .. Len(l), k \in 1 .. Len(rest) : k = n + i => l[i] = rest[k]
    <3> SUFFICES ASSUME NEW i \in 1 .. Len(l), NEW k \in 1 .. Len(rest), k = n + i
                 PROVE  l[i] = rest[k]
      OBVIOUS
    <3>1. n + 1 + i - 1 = k
      BY <1>3, <2>4
    <3>2. i \in 1 .. Len(rest) - (n + 1) + 1
      BY <1>3, <2>4
    <3> QED BY <2>3, <3>1, <3>2, Zenon
  <2> QED BY <2>2, <2>3, <2>4, <2>5
<1> HIDE DEF piece, left
<1>6. /\ all \in Seq(S) /\ Len(all) = Len(text) + n
      /\ \A i \in 1 .. Len(text) + n :
             all[i] = IF i <= Len(text) THEN text[i] ELSE piece[i - Len(text)]
  <2>1. /\ text \o piece \in Seq(S) /\ Len(text \o piece) = Len(text) + Len(piece)
        /\ \A i \in 1 .. Len(text) + Len(piece) :
               (text \o piece)[i] = IF i <= Len(text) THEN text[i] ELSE piece[i - Len(text)]
    <3>1. text \in Seq(S) /\ piece \in Seq(S)
      BY <1>2, <1>4
    <3> QED BY <3>1, ConcatProperties
  <2>2. all = text \o piece
    OBVIOUS
  <2> HIDE DEF all
  <2> QED BY <1>4, <2>1, <2>2
<1> HIDE DEF all
<1>7. \A i \in 1 .. Len(all) : all[i] = w[i]
  <2> SUFFICES ASSUME NEW i \in 1 .. Len(all) PROVE all[i] = w[i]
    OBVIOUS
  <2>1. CASE i <= Len(text)
    BY <1>2, <1>3, <1>6, <2>1
  <2>2. CASE i > Len(text)
    <3> DEFINE k == i - Len(text)
    <3>1. k \in 1 .. n /\ k \in 1 .. Len(rest) /\ i \in 1 .. Len(w) /\ i = Len(text) + k
      BY <1>2, <1>3, <1>6, <2>2
    <3>2. all[i] = piece[k]
      BY <1>3, <1>6, <2>2
    <3> HIDE DEF k
    <3> QED BY <1>2, <1>4, <3>1, <3>2
  <2> QED BY <1>3, <1>6, <2>1, <2>2
<1>8. PartOf(all, r)
  BY <1>2, <1>3, <1>6, <1>7 DEF PartOf, w, S
<1>9. \A i \in 1 .. Len(left), j \in 1 .. Len(w) : j = Len(all) + i => left[i] = w[j]
  <2> SUFFICES ASSUME NEW i \in 1 .. Len(left), NEW j \in 1 .. Len(w), j = Len(all) + i
               PROVE  left[i] = w[j]
    OBVIOUS
  <2> DEFINE k == n + i
  <2>1. k \in 1 .. Len(rest) /\ k = n + i /\ j = Len(text) + k
    BY <1>3, <1>5, <1>6
  <2> HIDE DEF k
  <2>2. rest[k] = w[j]
    BY <1>2, <2>1, Zenon
  <2>3. left[i] = rest[k]
    BY <1>5, <2>1, Zenon
  <2> QED BY <2>2, <2>3
<1>10. RestOf(left, all, r)
  <2>1. Len(left) + Len(all) = Len(w)
    <3>1. /\ Len(left) = Len(rest) - n /\ Len(all) = Len(text) + n
          /\ Len(rest) + Len(text) = Len(w)
      BY <1>2, <1>5, <1>6, Zenon
    <3>2. Len(text) \in Nat /\ Len(rest) \in Nat
      BY <1>3, Zenon
    <3> QED BY <3>1, <3>2
  <2> QED BY <1>5, <1>9, <2>1 DEF RestOf, w, S
<1> QED BY <1>8, <1>10 DEF all, left, piece

-----------------------------------------------------------------------------
(***************************************************************************)
(* What the loops read out of it: where the header ends, the length of the  *)
(* body, and the body itself.                                              *)
(***************************************************************************)

LEMMA SmallerOf ==
    ASSUME NEW a \in Int, NEW b \in Int
    PROVE  Min({a, b}) = IF a <= b THEN a ELSE b
<1> DEFINE m == IF a <= b THEN a ELSE b
<1>1. m \in {a, b} /\ {a, b} \in SUBSET Int /\ \A y \in {a, b} : m <= y
  OBVIOUS
<1> HIDE DEF m
<1>2. Min({a, b}) = m
  BY <1>1, MinIs
<1> QED BY <1>2 DEF m

\* The kinds of the units: only the two line ends end a line.
LEMMA KindsOfUnits ==
    ASSUME NEW r, IsRequest(r)
    PROVE  LET w == OnTheWire(r)
           IN  /\ w[1].is = "line"
               /\ \A i \in 1 .. H(r) : w[i + 1].is = r.headers[i].is /\ w[i + 1].is # "end"
               /\ w[H(r) + 2].is = "end" /\ w[H(r) + 3].is = "end"
               /\ \A i \in 1 .. B(r) : w[H(r) + 3 + i].is = "char"
<1> DEFINE w == OnTheWire(r)
<1>1. /\ w[1] = Line([path |-> r.path, query |-> r.query])
      /\ \A i \in 1 .. H(r) : w[i + 1] = r.headers[i]
      /\ w[H(r) + 2] = LineEnd /\ w[H(r) + 3] = LineEnd
      /\ \A i \in 1 .. B(r) : w[H(r) + 3 + i] = Char(r.body[i])
  BY WireIs
<1> HIDE DEF w
<1>2. \A i \in 1 .. H(r) : r.headers[i] \in HeaderLine
  <2>1. r.headers \in Seq(HeaderLine)
    BY DEF IsRequest
  <2>2. r.headers \in [1 .. H(r) -> HeaderLine]
    BY <2>1, LenProperties DEF H
  <2> QED BY <2>2
<1>3. \A i \in 1 .. H(r) : r.headers[i].is # "end"
  BY <1>2 DEF HeaderLine
<1>4. \A v : Line(v).is = "line" /\ Char(v).is = "char" /\ LineEnd.is = "end"
  BY DEF Line, Char, LineEnd
<1>5. w[1].is = "line"
  BY <1>1, <1>4
<1>6. \A i \in 1 .. H(r) : w[i + 1].is = r.headers[i].is /\ w[i + 1].is # "end"
  BY <1>1, <1>3
<1>7. w[H(r) + 2].is = "end" /\ w[H(r) + 3].is = "end"
  BY <1>1, <1>4
<1>8. \A i \in 1 .. B(r) : w[H(r) + 3 + i].is = "char"
  BY <1>1, <1>4
<1> QED BY <1>5, <1>6, <1>7, <1>8 DEF w

LEMMA LengthsOf ==
    ASSUME NEW r, NEW text, IsRequest(r), PartOf(text, r)
    PROVE  /\ H(r) \in Nat /\ B(r) \in Nat /\ Len(text) \in Nat
           /\ Len(OnTheWire(r)) = H(r) + 3 + B(r)
           /\ Len(text) <= H(r) + 3 + B(r)
<1>1. /\ H(r) \in Nat /\ B(r) \in Nat /\ Len(OnTheWire(r)) = H(r) + 3 + B(r)
  BY WireIs
<1>2. Len(text) \in Nat
  BY LenProperties DEF PartOf
<1> QED BY <1>1, <1>2 DEF PartOf

LEMMA HeaderEndIs ==
    ASSUME NEW r, NEW text, IsRequest(r), PartOf(text, r)
    PROVE  HeaderEnd(text) = IF Len(text) >= H(r) + 3 THEN H(r) + 2 ELSE 0
<1> DEFINE w == OnTheWire(r)
           ends == {i \in 1 .. Len(text) - 1 : text[i].is = "end" /\ text[i + 1].is = "end"}
<1>1. /\ H(r) \in Nat /\ B(r) \in Nat /\ Len(text) \in Nat
      /\ Len(w) = H(r) + 3 + B(r) /\ Len(text) <= H(r) + 3 + B(r)
  BY LengthsOf
<1>2. \A i \in 1 .. Len(text) : text[i] = w[i]
  BY DEF PartOf
<1>3. /\ w[1].is = "line" /\ \A i \in 1 .. H(r) : w[i + 1].is # "end"
      /\ w[H(r) + 2].is = "end" /\ w[H(r) + 3].is = "end"
      /\ \A i \in 1 .. B(r) : w[H(r) + 3 + i].is = "char"
  BY KindsOfUnits
<1> HIDE DEF w
<1>4. \A i \in 1 .. Len(w) : w[i].is = "end" => i = H(r) + 2 \/ i = H(r) + 3
  <2> SUFFICES ASSUME NEW i \in 1 .. Len(w), w[i].is = "end", i # H(r) + 2, i # H(r) + 3
               PROVE  FALSE
    OBVIOUS
  <2>1. CASE i = 1
    BY <1>3, <2>1
  <2>2. CASE 1 < i /\ i <= H(r) + 1
    <3> DEFINE k == i - 1
    <3>1. k \in 1 .. H(r) /\ k + 1 = i
      BY <1>1, <2>2
    <3> HIDE DEF k
    <3> QED BY <1>3, <3>1, Zenon
  <2>3. CASE i > H(r) + 3
    <3> DEFINE k == i - (H(r) + 3)
    <3>1. k \in 1 .. B(r) /\ H(r) + 3 + k = i
      BY <1>1, <2>3
    <3> HIDE DEF k
    <3>2. w[i].is = "char"
      BY <1>3, <3>1, Zenon
    <3> QED BY <3>2
  <2> QED BY <1>1, <2>1, <2>2, <2>3
<1>5. \A i \in ends : i = H(r) + 2
  <2> SUFFICES ASSUME NEW i \in 1 .. Len(text) - 1,
                      text[i].is = "end", text[i + 1].is = "end"
               PROVE  i = H(r) + 2
    OBVIOUS
  <2> DEFINE k == i + 1
  <2>1. /\ i \in 1 .. Len(w) /\ k \in 1 .. Len(w) /\ i \in 1 .. Len(text)
        /\ k \in 1 .. Len(text) /\ k = i + 1
    BY <1>1
  <2>2. text[k].is = "end"
    OBVIOUS
  <2> HIDE DEF k
  <2>3. w[i].is = "end" /\ w[k].is = "end"
    BY <1>2, <2>1, <2>2, Zenon
  <2>4. (i = H(r) + 2 \/ i = H(r) + 3) /\ (k = H(r) + 2 \/ k = H(r) + 3)
    BY <1>4, <2>1, <2>3, Zenon
  <2> QED BY <1>1, <2>1, <2>4
<1>6. Len(text) >= H(r) + 3 => H(r) + 2 \in ends
  <2> SUFFICES ASSUME Len(text) >= H(r) + 3 PROVE H(r) + 2 \in ends
    OBVIOUS
  <2> DEFINE i == H(r) + 2
             k == H(r) + 3
  <2>1. /\ i \in 1 .. Len(text) - 1 /\ i \in 1 .. Len(text) /\ k \in 1 .. Len(text)
        /\ i + 1 = k
    BY <1>1
  <2>2. w[i].is = "end" /\ w[k].is = "end"
    BY <1>3
  <2> HIDE DEF i, k
  <2>3. text[i].is = "end" /\ text[k].is = "end"
    BY <1>2, <2>1, <2>2, Zenon
  <2>4. i \in ends
    BY <2>1, <2>3, Zenon
  <2> QED BY <2>4 DEF i
<1>7. \A i \in ends : i <= Len(text) - 1
  BY <1>1
<1>8. HeaderEnd(text) = IF ends = {} THEN 0 ELSE Min(ends)
  BY Zenon DEF HeaderEnd
<1>9. CASE Len(text) >= H(r) + 3
  <2>1. H(r) + 2 \in ends /\ ends \in SUBSET Int
    BY <1>6, <1>9
  <2> HIDE DEF ends
  <2>2. \A y \in ends : H(r) + 2 <= y
    BY <1>1, <1>5
  <2>3. Min(ends) = H(r) + 2
    BY <1>1, <2>1, <2>2, MinIs
  <2> QED BY <1>8, <1>9, <2>1, <2>3
<1>10. CASE Len(text) < H(r) + 3
  <2>1. ends = {}
    <3> HIDE DEF ends
    <3> QED BY <1>1, <1>5, <1>7, <1>10
  <2> QED BY <1>1, <1>8, <1>10, <2>1
<1> QED BY <1>1, <1>9, <1>10

\* The length the first of the length headers gives, as far as it is admitted.
Limit(r) ==
    LET lengths == {i \in DOMAIN r.headers : r.headers[i].is = "length"}
    IN  IF lengths = {} THEN 0 ELSE Min({r.headers[Min(lengths)].value, MaxBody})

LEMMA LimitIsNat ==
    ASSUME NEW r, IsRequest(r)
    PROVE  Limit(r) \in Nat
<1> DEFINE lengths == {i \in DOMAIN r.headers : r.headers[i].is = "length"}
           first == Min(lengths)
<1>1. Limit(r) = IF lengths = {} THEN 0 ELSE Min({r.headers[first].value, MaxBody})
  BY Zenon DEF Limit
<1>2. r.headers \in Seq(HeaderLine)
  BY DEF IsRequest
<1>3. DOMAIN r.headers \in SUBSET Nat /\ \A i \in DOMAIN r.headers : r.headers[i] \in HeaderLine
  BY <1>2
<1>4. lengths \in SUBSET Nat /\ lengths \subseteq DOMAIN r.headers
  BY <1>3
<1> HIDE DEF lengths
<1>5. CASE lengths = {}
  BY <1>1, <1>5
<1>6. CASE lengths # {}
  <2>1. first \in DOMAIN r.headers
    BY <1>4, <1>6, MinNat
  <2> HIDE DEF first
  <2> DEFINE v == r.headers[first].value
  <2>2. v \in Nat /\ MaxBody \in Nat
    BY <1>3, <2>1, ServerAssumption DEF HeaderLine
  <2> HIDE DEF v
  <2>3. v \in Int /\ MaxBody \in Int
    BY <2>2
  <2>4. Min({v, MaxBody}) = IF v <= MaxBody THEN v ELSE MaxBody
    BY <2>3, SmallerOf
  <2>5. Limit(r) = Min({v, MaxBody})
    BY <1>1, <1>6 DEF v
  <2> QED BY <2>2, <2>4, <2>5
<1> QED BY <1>5, <1>6

LEMMA ContentLengthIs ==
    ASSUME NEW r, NEW text, IsRequest(r), PartOf(text, r), HeaderEnd(text) # 0
    PROVE  ContentLength(text) = Limit(r)
<1> DEFINE w == OnTheWire(r)
           here == {i \in 1 .. HeaderEnd(text) : text[i].is = "length"}
           there == {i \in DOMAIN r.headers : r.headers[i].is = "length"}
           Value(v) == Min({v, MaxBody})
<1>1. /\ H(r) \in Nat /\ Len(text) \in Nat /\ Len(w) = H(r) + 3 + B(r)
      /\ Len(text) <= H(r) + 3 + B(r) /\ B(r) \in Nat
  BY LengthsOf
<1>2. HeaderEnd(text) = H(r) + 2 /\ Len(text) >= H(r) + 3
  BY HeaderEndIs
<1>3. \A i \in 1 .. Len(text) : text[i] = w[i]
  BY DEF PartOf
<1>4. /\ w[1].is = "line" /\ w[H(r) + 2].is = "end"
      /\ \A i \in 1 .. H(r) : w[i + 1].is = r.headers[i].is
  BY KindsOfUnits
<1>5. \A i \in 1 .. H(r) : w[i + 1] = r.headers[i]
  BY WireIs
<1>6. DOMAIN r.headers = 1 .. H(r)
  BY LenProperties DEF IsRequest, H
<1>7. /\ ContentLength(text) = IF here = {} THEN 0 ELSE Value(text[Min(here)].value)
      /\ Limit(r) = IF there = {} THEN 0 ELSE Value(r.headers[Min(there)].value)
  BY Zenon DEF ContentLength, Limit
<1> HIDE DEF w, Value
<1>8. \A i \in 1 .. H(r) : i + 1 \in here <=> i \in there
  <2> SUFFICES ASSUME NEW i \in 1 .. H(r) PROVE i + 1 \in here <=> i \in there
    OBVIOUS
  <2> DEFINE k == i + 1
  <2>1. k \in 1 .. Len(text) /\ k \in 1 .. HeaderEnd(text)
    BY <1>1, <1>2
  <2>2. w[k].is = r.headers[i].is
    BY <1>4
  <2> HIDE DEF k
  <2>3. text[k].is = r.headers[i].is
    BY <1>3, <2>1, <2>2, Zenon
  <2>4. k \in here <=> i \in there
    BY <1>6, <2>1, <2>3, Zenon
  <2> QED BY <2>4 DEF k
<1>9. \A k \in here : k - 1 \in 1 .. H(r) /\ k \in Nat
  <2> SUFFICES ASSUME NEW k \in 1 .. HeaderEnd(text), text[k].is = "length"
               PROVE  k - 1 \in 1 .. H(r) /\ k \in Nat
    OBVIOUS
  <2>1. k \in 1 .. Len(text) /\ k \in Nat
    BY <1>1, <1>2
  <2>2. w[k].is = "length"
    BY <1>3, <2>1
  <2>3. k # 1 /\ k # H(r) + 2
    BY <1>4, <2>2
  <2> QED BY <1>1, <1>2, <2>1, <2>3
<1>10. there \in SUBSET Nat /\ here \in SUBSET Nat /\ \A i \in there : i \in 1 .. H(r)
  <2>1. here \in SUBSET Nat
    BY <1>9
  <2>2. there \in SUBSET Nat /\ \A i \in there : i \in 1 .. H(r)
    BY <1>1, <1>6
  <2> QED BY <2>1, <2>2
<1> HIDE DEF here, there
<1>11. CASE there = {}
  <2>1. here = {}
    <3> SUFFICES ASSUME NEW k \in here PROVE FALSE
      OBVIOUS
    <3> DEFINE i == k - 1
    <3>1. i \in 1 .. H(r) /\ i + 1 = k
      BY <1>1, <1>9
    <3> HIDE DEF i
    <3> QED BY <1>8, <1>11, <3>1
  <2> QED BY <1>7, <1>11, <2>1
<1>12. CASE there # {}
  <2> DEFINE i == Min(there)
             k == i + 1
  <2>1. i \in there /\ \A j \in there : i <= j
    BY <1>10, <1>12, MinNat
  <2>2. i \in 1 .. H(r)
    BY <1>10, <2>1
  <2> HIDE DEF i
  <2>3. k \in here
    BY <1>8, <2>1, <2>2
  <2>4. \A j \in here : k <= j
    <3> SUFFICES ASSUME NEW j \in here PROVE k <= j
      OBVIOUS
    <3> DEFINE b == j - 1
    <3>1. b \in 1 .. H(r) /\ b + 1 = j
      BY <1>1, <1>9
    <3> HIDE DEF b
    <3>2. b \in there
      BY <1>8, <3>1
    <3> QED BY <1>1, <2>1, <2>2, <3>1, <3>2
  <2>5. w[k] = r.headers[i] /\ k \in 1 .. Len(text) /\ k \in Int
    BY <1>1, <1>2, <1>5, <2>2
  <2> HIDE DEF k
  <2>6. here \in SUBSET Int
    BY <1>10
  <2>7. Min(here) = k
    BY <2>3, <2>4, <2>6, MinIs
  <2>8. text[k] = r.headers[i]
    BY <1>3, <2>5
  <2>9. text[Min(here)].value = r.headers[Min(there)].value
    BY <2>7, <2>8 DEF i
  <2>10. here # {}
    BY <2>3
  <2> QED BY <1>7, <1>12, <2>9, <2>10
<1> QED BY <1>11, <1>12

\* Behind the header stands as much of the body as has come.
LEMMA BodyIs ==
    ASSUME NEW r, NEW text, IsRequest(r), PartOf(text, r), HeaderEnd(text) # 0
    PROVE  LET n == Len(text) - (H(r) + 3)
           IN  /\ n \in 0 .. B(r) /\ Body(text) \in Seq(Units(r)) /\ Len(Body(text)) = n
               /\ \A i \in 1 .. n : Body(text)[i] = Char(r.body[i])
<1> DEFINE w == OnTheWire(r)
           S == Units(r)
           n == Len(text) - (H(r) + 3)
           first == H(r) + 4
           b == SubSeq(text, first, Len(text))
<1>1. /\ H(r) \in Nat /\ Len(text) \in Nat /\ Len(w) = H(r) + 3 + B(r)
      /\ Len(text) <= H(r) + 3 + B(r) /\ B(r) \in Nat
  BY LengthsOf
<1>2. HeaderEnd(text) = H(r) + 2 /\ Len(text) >= H(r) + 3
  BY HeaderEndIs
<1>3. text \in Seq(S) /\ \A i \in 1 .. Len(text) : text[i] = w[i]
  BY DEF PartOf
<1>4. \A i \in 1 .. B(r) : w[H(r) + 3 + i] = Char(r.body[i])
  BY WireIs
<1> HIDE DEF w, S
<1>5. \A i \in 1 .. Len(text) : text[i] \in S
  <2>1. text \in [1 .. Len(text) -> S]
    BY <1>3, LenProperties
  <2> QED BY <2>1
<1>6. Body(text) = b
  <2>1. HeaderEnd(text) + 2 = first
    BY <1>1, <1>2
  <2> HIDE DEF first
  <2> QED BY <2>1 DEF Body
<1>7. first \in Int /\ Len(text) \in Int /\ \A i \in first .. Len(text) : text[i] \in S
  BY <1>1, <1>5
<1> HIDE DEF first
<1>8. /\ b \in Seq(S)
      /\ Len(b) = IF first <= Len(text) THEN Len(text) - first + 1 ELSE 0
      /\ \A i \in 1 .. Len(text) - first + 1 : b[i] = text[first + i - 1]
  BY <1>7, SubSeqProperties
<1> HIDE DEF b
<1>9. n \in 0 .. B(r) /\ Len(b) = n
  <2>1. n \in 0 .. B(r)
    BY <1>1, <1>2
  <2>2. first \in Nat /\ Len(text) - first + 1 = n /\ (~(first <= Len(text)) => n = 0)
    BY <1>1, <1>2 DEF first
  <2>3. Len(b) = IF first <= Len(text) THEN Len(text) - first + 1 ELSE 0
    BY <1>8
  <2> QED BY <2>1, <2>2, <2>3
<1>10. \A i \in 1 .. n : b[i] = Char(r.body[i])
  <2> SUFFICES ASSUME NEW i \in 1 .. n PROVE b[i] = Char(r.body[i])
    OBVIOUS
  <2> DEFINE k == H(r) + 3 + i
  <2>1. /\ first + i - 1 = k /\ k \in 1 .. Len(text) /\ i \in 1 .. B(r)
        /\ i \in 1 .. Len(text) - first + 1
    <3>1. /\ H(r) \in Nat /\ Len(text) \in Nat /\ B(r) \in Nat /\ i \in Nat /\ 1 <= i
          /\ i <= n /\ n = Len(text) - (H(r) + 3) /\ n <= B(r)
          /\ first = H(r) + 4 /\ k = H(r) + 3 + i
      BY <1>1, <1>9 DEF first
    <3> DEFINE h == H(r)
               len == Len(text)
               size == B(r)
    <3>2. /\ h \in Nat /\ len \in Nat /\ size \in Nat /\ i \in Nat /\ 1 <= i
          /\ i <= n /\ n = len - (h + 3) /\ n <= size /\ first = h + 4 /\ k = h + 3 + i
      BY <3>1
    <3> HIDE DEF n, k, h, len, size
    <3>3. first + i - 1 = k /\ len - first + 1 = n
      BY <3>2
    <3>4. k \in 1 .. len /\ i \in 1 .. size /\ i \in 1 .. n
      BY <3>2
    <3> QED BY <3>3, <3>4 DEF len, size
  <2>2. w[k] = Char(r.body[i])
    BY <1>4, <2>1
  <2> HIDE DEF k
  <2>3. b[i] = text[k]
    BY <1>8, <2>1, Zenon
  <2>4. text[k] = w[k]
    BY <1>3, <2>1
  <2> QED BY <2>2, <2>3, <2>4
<1> QED BY <1>6, <1>8, <1>9, <1>10 DEF S

Start(r, k) == SubSeq(r.body, 1, k)

LEMMA StartIs ==
    ASSUME NEW r, IsRequest(r), NEW k \in Nat, k <= B(r)
    PROVE  /\ Start(r, k) \in Seq(STRING) /\ Len(Start(r, k)) = k
           /\ \A i \in 1 .. k : Start(r, k)[i] = r.body[i]
<1> DEFINE S == STRING
<1>1. r.body \in Seq(S) /\ B(r) = Len(r.body) /\ B(r) \in Nat
  BY LenProperties DEF IsRequest, B
<1> HIDE DEF S
<1>2. \A i \in 1 .. k : r.body[i] \in S
  BY <1>1
<1>3. /\ SubSeq(r.body, 1, k) \in Seq(S)
      /\ Len(SubSeq(r.body, 1, k)) = IF 1 <= k THEN k - 1 + 1 ELSE 0
      /\ \A i \in 1 .. k - 1 + 1 : SubSeq(r.body, 1, k)[i] = r.body[1 + i - 1]
  BY <1>2, SubSeqProperties
<1>4. /\ Start(r, k) \in Seq(S)
      /\ Len(Start(r, k)) = IF 1 <= k THEN k - 1 + 1 ELSE 0
      /\ \A i \in 1 .. k - 1 + 1 : Start(r, k)[i] = r.body[1 + i - 1]
  BY <1>3, Zenon DEF Start
<1>5. Len(Start(r, k)) = k /\ \A i \in 1 .. k : Start(r, k)[i] = r.body[i]
  BY <1>4
<1> QED BY <1>4, <1>5 DEF S

LEMMA StartsOfOneBody ==
    ASSUME NEW r, IsRequest(r), NEW k \in Nat, NEW m \in Nat, k <= m, m <= B(r)
    PROVE  IsPrefix(Start(r, k), Start(r, m))
<1> DEFINE s == Start(r, k)
           t == Start(r, m)
           S == STRING
<1>1. B(r) \in Nat
  BY LenProperties DEF IsRequest, B
<1>2. /\ s \in Seq(S) /\ Len(s) = k /\ \A i \in 1 .. k : s[i] = r.body[i]
  BY <1>1, StartIs
<1>3. /\ t \in Seq(S) /\ Len(t) = m /\ \A i \in 1 .. m : t[i] = r.body[i]
  BY <1>1, StartIs
<1> HIDE DEF s, t, S
<1>4. SubSeq(s, 1, k) = s
  BY <1>2, SubSeqFull
<1>5. \A i \in 1 .. k : t[i] \in S
  BY <1>3
<1>6. /\ SubSeq(t, 1, k) \in Seq(S)
      /\ Len(SubSeq(t, 1, k)) = IF 1 <= k THEN k - 1 + 1 ELSE 0
      /\ \A i \in 1 .. k - 1 + 1 : SubSeq(t, 1, k)[i] = t[1 + i - 1]
  BY <1>5, SubSeqProperties
<1>7. SubSeq(t, 1, k) = s
  <2> DEFINE u == SubSeq(t, 1, k)
  <2>1. /\ u \in Seq(S) /\ Len(u) = k /\ \A i \in 1 .. k : u[i] = t[i]
    BY <1>6
  <2> HIDE DEF u
  <2>2. \A i \in 1 .. k : u[i] = s[i]
    BY <1>2, <1>3, <2>1
  <2>3. u = s
    BY <1>2, <2>1, <2>2
  <2> QED BY <2>3 DEF u
<1>8. IsPrefix(s, t)
  BY <1>2, <1>3, <1>4, <1>7 DEF IsPrefix
<1> QED BY <1>8 DEF s, t

Admitted(r) == IF Limit(r) <= B(r) THEN Limit(r) ELSE B(r)

LEMMA AnnouncedIs ==
    ASSUME NEW r, IsRequest(r)
    PROVE  Announced(r) = Start(r, Admitted(r)) /\ Admitted(r) \in 0 .. B(r)
<1> DEFINE lengths == {i \in DOMAIN r.headers : r.headers[i].is = "length"}
           v == r.headers[Min(lengths)].value
<1>1. B(r) \in Nat /\ Limit(r) \in Nat
  BY LenProperties, LimitIsNat DEF IsRequest, B
<1>2. /\ Limit(r) = IF lengths = {} THEN 0 ELSE Min({v, MaxBody})
      /\ Announced(r) = IF lengths = {} THEN <<>> ELSE SubSeq(r.body, 1, Min({v, MaxBody, B(r)}))
  BY Zenon DEF Limit, Announced, B
<1>3. lengths # {} => v \in Nat
  <2>1. r.headers \in Seq(HeaderLine)
    BY DEF IsRequest
  <2>2. DOMAIN r.headers \in SUBSET Nat /\ \A i \in DOMAIN r.headers : r.headers[i] \in HeaderLine
    BY <2>1
  <2>3. lengths \in SUBSET Nat /\ lengths \subseteq DOMAIN r.headers
    BY <2>2
  <2> HIDE DEF lengths
  <2>4. lengths # {} => Min(lengths) \in DOMAIN r.headers
    BY <2>3, MinNat
  <2> QED BY <2>2, <2>4 DEF HeaderLine
<1> HIDE DEF lengths, v
<1>4. CASE lengths = {}
  <2>1. Admitted(r) = 0
    BY <1>1, <1>2, <1>4 DEF Admitted
  <2>2. Start(r, 0) = <<>>
    BY SubSeqEmpty DEF Start
  <2> QED BY <1>1, <1>2, <1>4, <2>1, <2>2
<1>5. CASE lengths # {}
  <2>1. v \in Int /\ MaxBody \in Int /\ B(r) \in Int
    BY <1>1, <1>3, <1>5, ServerAssumption
  <2>2. Limit(r) = IF v <= MaxBody THEN v ELSE MaxBody
    BY <1>2, <1>5, <2>1, SmallerOf
  <2> DEFINE all == {v, MaxBody, B(r)}
             m == Admitted(r)
  <2>3. m \in all /\ all \in SUBSET Int /\ \A y \in all : m <= y
    BY <2>1, <2>2 DEF Admitted
  <2>4. m \in 0 .. B(r)
    BY <1>1 DEF Admitted
  <2> HIDE DEF all, m
  <2>5. Min(all) = m
    BY <2>3, MinIs
  <2>6. Announced(r) = Start(r, m)
    BY <1>2, <1>5, <2>5 DEF all, Start
  <2> QED BY <2>4, <2>6 DEF m
<1> QED BY <1>4, <1>5

Come(text, r) == Len(text) - (H(r) + 3)

LEMMA AssembledIs ==
    ASSUME NEW r, NEW text, IsRequest(r), PartOf(text, r), HeaderEnd(text) # 0
    PROVE  LET units == Taken(text)
               body == [i \in DOMAIN units |-> units[i].value]
               k == IF Limit(r) <= Come(text, r) THEN Limit(r) ELSE Come(text, r)
           IN  /\ k \in 0 .. B(r) /\ body = Start(r, k)
               /\ BodyMissing(text) <=> Come(text, r) < Limit(r)
<1> DEFINE units == Taken(text)
           body == [i \in DOMAIN units |-> units[i].value]
           n == Come(text, r)
           k == IF Limit(r) <= n THEN Limit(r) ELSE n
           b == Body(text)
           S == Units(r)
           cut == SubSeq(b, 1, k)
<1>1. B(r) \in Nat /\ Limit(r) \in Nat
  BY LenProperties, LimitIsNat DEF IsRequest, B
<1>2. n \in 0 .. B(r) /\ b \in Seq(S) /\ Len(b) = n /\ \A i \in 1 .. n : b[i] = Char(r.body[i])
  BY BodyIs DEF Come
<1>3. ContentLength(text) = Limit(r)
  BY ContentLengthIs
<1> HIDE DEF n, b, S
<1>4. BodyMissing(text) <=> n < Limit(r)
  BY <1>2, <1>3 DEF BodyMissing, b
<1>5. k \in Nat /\ k <= n /\ k <= B(r)
  BY <1>1, <1>2
<1>6. units = cut
  <2>1. Limit(r) \in Int /\ n \in Int
    BY <1>1, <1>2
  <2>2. Min({Limit(r), n}) = k
    BY <2>1, SmallerOf
  <2> HIDE DEF k
  <2> QED BY <1>2, <1>3, <2>2 DEF Taken, b
<1> HIDE DEF k, units
<1>7. \A i \in 1 .. k : b[i] \in S
  <2>1. b \in [1 .. n -> S]
    BY <1>2, LenProperties
  <2> QED BY <1>2, <1>5, <2>1
<1>8. /\ cut \in Seq(S)
      /\ Len(cut) = IF 1 <= k THEN k - 1 + 1 ELSE 0
      /\ \A i \in 1 .. k - 1 + 1 : cut[i] = b[1 + i - 1]
  BY <1>5, <1>7, SubSeqProperties
<1> HIDE DEF cut
<1>9. Len(cut) = k /\ \A i \in 1 .. k : cut[i] = b[i]
  BY <1>5, <1>8
<1>10. DOMAIN cut = 1 .. k
  BY <1>8, <1>9, LenProperties
<1>11. \A i \in 1 .. k : units[i].value = r.body[i]
  <2>1. \A i \in 1 .. k : units[i] = Char(r.body[i])
    BY <1>2, <1>5, <1>6, <1>9
  <2>2. \A v : Char(v).value = v
    BY DEF Char
  <2> QED BY <2>1, <2>2
<1>12. body = [i \in 1 .. k |-> r.body[i]]
  BY <1>6, <1>10, <1>11
<1>13. Start(r, k) = [i \in 1 .. k |-> r.body[i]]
  <2> DEFINE s == Start(r, k)
             T == STRING
  <2>1. s \in Seq(T) /\ Len(s) = k /\ \A i \in 1 .. k : s[i] = r.body[i]
    BY <1>5, StartIs
  <2> HIDE DEF s, T
  <2>2. s \in [1 .. k -> T]
    BY <2>1, LenProperties
  <2>3. s = [i \in 1 .. k |-> r.body[i]]
    BY <2>1, <2>2
  <2> QED BY <2>3 DEF s
<1>14. k \in 0 .. B(r)
  BY <1>1, <1>5
<1> QED BY <1>4, <1>12, <1>13, <1>14 DEF k, n, units

-----------------------------------------------------------------------------
(***************************************************************************)
(* The inductive invariant of a connection: what was received and what is   *)
(* still on the wire make up the request, the body is waited for behind a   *)
(* header only, and no request is there before it is assembled.             *)
(***************************************************************************)

WholeIn(r, how, req) ==
    /\ req.path = r.path
    /\ IsPrefix(req.body, Announced(r))
    /\ how = "sending" => req.body = Announced(r)

Good(r, rest, how, place, text, req) ==
    /\ IsRequest(r) /\ PartOf(text, r) /\ RestOf(rest, text, r)
    /\ place = "body" => HeaderEnd(text) # 0
    /\ place \in {"connecting", "head", "body"} => req = NoRequest
    /\ req # NoRequest => WholeIn(r, how, req)

GoodAt(c) == Good(sent[c], wire[c], client[c], stage[c], raw[c], request[c])

Domains ==
    /\ DOMAIN wire = Connections /\ DOMAIN client = Connections
    /\ DOMAIN stage = Connections /\ DOMAIN raw = Connections
    /\ DOMAIN request = Connections

ServerInv == Domains /\ \A c \in Connections : GoodAt(c)

LEMMA ServerInitGood == ServerInit => ServerInv
<1> SUFFICES ASSUME ServerInit PROVE ServerInv
  OBVIOUS
<1>1. Domains
  BY DEF ServerInit, Domains
<1>2. ASSUME NEW c \in Connections PROVE GoodAt(c)
  <2>1. IsRequest(sent[c])
    BY RequestsAreText DEF ServerInit, IsRequest
  <2>2. /\ wire[c] = OnTheWire(sent[c]) /\ stage[c] = "connecting" /\ raw[c] = <<>>
        /\ request[c] = NoRequest
    BY DEF ServerInit
  <2>3. PartOf(raw[c], sent[c]) /\ RestOf(wire[c], raw[c], sent[c])
    BY <2>1, <2>2, NothingReceived, Zenon
  <2> QED BY <2>1, <2>2, <2>3 DEF GoodAt, Good
<1> QED BY <1>1, <1>2 DEF ServerInv

\* The request that is assembled, in the two ways its loop may end.
LEMMA AssembledIsWhole ==
    ASSUME NEW r, NEW text, NEW rest, NEW how, NEW fields,
           IsRequest(r), PartOf(text, r), RestOf(rest, text, r), HeaderEnd(text) # 0,
           ~BodyMissing(text) \/ rest = <<>> \/ how # "sending"
    PROVE  LET units == Taken(text)
               body == [i \in DOMAIN units |-> units[i].value]
           IN  WholeIn(r, how, [path |-> text[1].value.path, body |-> body, fields |-> fields])
<1> DEFINE units == Taken(text)
           body == [i \in DOMAIN units |-> units[i].value]
           req == [path |-> text[1].value.path, body |-> body, fields |-> fields]
           n == Come(text, r)
           k == IF Limit(r) <= n THEN Limit(r) ELSE n
           m == Admitted(r)
           w == OnTheWire(r)
<1>1. /\ k \in 0 .. B(r) /\ body = Start(r, k)
      /\ BodyMissing(text) <=> n < Limit(r)
  BY AssembledIs
<1>2. /\ H(r) \in Nat /\ B(r) \in Nat /\ Len(text) \in Nat /\ Limit(r) \in Nat
      /\ Len(w) = H(r) + 3 + B(r) /\ Len(text) <= H(r) + 3 + B(r)
  BY LengthsOf, LimitIsNat
<1>3. HeaderEnd(text) = H(r) + 2 /\ Len(text) >= H(r) + 3
  BY HeaderEndIs
<1>4. n \in 0 .. B(r)
  BY <1>2, <1>3 DEF Come
<1>5. Announced(r) = Start(r, m) /\ m \in 0 .. B(r) /\ k <= m
  <2>1. Announced(r) = Start(r, m) /\ m \in 0 .. B(r)
    BY AnnouncedIs
  <2> QED BY <1>2, <1>4, <2>1 DEF Admitted
<1>6. text[1].value.path = r.path
  <2>1. w[1] = Line([path |-> r.path, query |-> r.query])
    BY WireIs
  <2> HIDE DEF w
  <2>2. text[1] = w[1]
    <3>1. 1 \in 1 .. Len(text)
      BY <1>2, <1>3
    <3> QED BY <3>1 DEF PartOf, w
  <2> QED BY <2>1, <2>2 DEF Line
<1>7. IsPrefix(Start(r, k), Start(r, m))
  <2>1. k \in Nat /\ m \in Nat /\ k <= m /\ m <= B(r)
    BY <1>1, <1>2, <1>5
  <2> HIDE DEF k, m
  <2> QED BY <2>1, StartsOfOneBody
<1>8. how = "sending" => k = m
  <2> SUFFICES ASSUME how = "sending" PROVE k = m
    OBVIOUS
  <2>1. CASE ~BodyMissing(text)
    BY <1>1, <1>2, <1>4, <2>1 DEF Admitted
  <2>2. CASE rest = <<>>
    <3>1. Len(rest) = 0 /\ Len(rest) + Len(text) = Len(w)
      BY <2>2 DEF RestOf
    <3> HIDE DEF w
    <3>2. n = B(r)
      BY <1>2, <3>1 DEF Come
    <3> QED BY <3>2 DEF Admitted
  <2> QED BY <2>1, <2>2
<1> HIDE DEF k, m, n, w, units
<1>9. req.path = r.path /\ req.body = Start(r, k)
  BY <1>1, <1>6
<1> HIDE DEF req
<1> QED BY <1>5, <1>7, <1>8, <1>9 DEF WholeIn, req, units

LEMMA OthersStay ==
    ASSUME ServerInv, NEW c \in Connections, UNCHANGED sent, Domains', GoodAt(c)',
           \A d \in Connections \ {c} :
               /\ wire'[d] = wire[d] /\ client'[d] = client[d] /\ stage'[d] = stage[d]
               /\ raw'[d] = raw[d] /\ request'[d] = request[d]
    PROVE  ServerInv'
<1>1. ASSUME NEW d \in Connections \ {c} PROVE GoodAt(d)'
  <2>1. GoodAt(d)
    BY DEF ServerInv
  <2> QED BY <2>1 DEF GoodAt
<1> QED BY <1>1 DEF ServerInv

\* One recv moves the front of what is on the wire behind what is there.
LEMMA ReceiveKeeps ==
    ASSUME Domains, NEW c \in Connections, GoodAt(c), NEW piece \in Pieces(c), Receive(c, piece)
    PROVE  /\ raw'[c] = raw[c] \o piece
           /\ PartOf(raw'[c], sent[c]) /\ RestOf(wire'[c], raw'[c], sent[c])
           /\ DOMAIN raw' = Connections /\ DOMAIN wire' = Connections
           /\ \A d \in Connections \ {c} : wire'[d] = wire[d] /\ raw'[d] = raw[d]
<1> DEFINE r == sent[c]
           text == raw[c]
           rest == wire[c]
           left == SubSeq(rest, Len(piece) + 1, Len(rest))
<1>1. IsRequest(r) /\ PartOf(text, r) /\ RestOf(rest, text, r)
  BY DEF GoodAt, Good
<1>2. Len(rest) \in Nat
  BY <1>1, LenProperties DEF RestOf
<1>3. PICK n \in 1 .. Min({BufferSize, Len(rest)}) : piece = SubSeq(rest, 1, n)
  BY DEF Pieces
<1>4. raw'[c] = text \o piece /\ wire'[c] = left
  BY DEF Receive, Domains
<1>5. /\ DOMAIN raw' = Connections /\ DOMAIN wire' = Connections
      /\ \A d \in Connections \ {c} : wire'[d] = wire[d] /\ raw'[d] = raw[d]
  BY DEF Receive, Domains
<1> HIDE DEF r, text, rest
<1>6. n \in Nat /\ n <= Len(rest)
  <2>1. BufferSize \in Int /\ Len(rest) \in Int
    BY <1>2, ServerAssumption
  <2>2. Min({BufferSize, Len(rest)}) = IF BufferSize <= Len(rest) THEN BufferSize ELSE Len(rest)
    BY <2>1, SmallerOf
  <2> QED BY <1>2, <2>1, <2>2
<1>7. PartOf(text \o piece, r) /\ RestOf(left, text \o piece, r)
  BY <1>1, <1>3, <1>6, ReceivesMore, Zenon
<1>8. PartOf(raw'[c], r) /\ RestOf(wire'[c], raw'[c], r)
  BY <1>4, <1>7
<1> QED BY <1>4, <1>5, <1>8 DEF r, text

LEMMA ServerStepGood == ServerInv /\ [ServerNext]_serverVars => ServerInv'
<1> SUFFICES ASSUME ServerInv, [ServerNext]_serverVars PROVE ServerInv'
  OBVIOUS
<1>0. Domains /\ \A c \in Connections : GoodAt(c)
  BY DEF ServerInv
<1>1. CASE UNCHANGED serverVars
  <2>1. ASSUME NEW c \in Connections PROVE GoodAt(c)'
    <3>1. GoodAt(c)
      BY <1>0
    <3> QED BY <1>1, <3>1 DEF GoodAt, serverVars
  <2>2. Domains'
    BY <1>0, <1>1 DEF Domains, serverVars
  <2> QED BY <2>1, <2>2 DEF ServerInv
<1>2. ASSUME NEW c \in Connections, ClientStops(c) PROVE ServerInv'
  <2>1. UNCHANGED <<sent, wire, stage, raw, request>> /\ Domains' /\ client'[c] # "sending"
        /\ \A d \in Connections \ {c} : client'[d] = client[d]
    BY <1>0, <1>2 DEF ClientStops, Domains
  <2>2. GoodAt(c)
    BY <1>0
  <2>3. GoodAt(c)'
    BY <2>1, <2>2 DEF GoodAt, Good, WholeIn
  <2> QED BY <2>1, <2>3, OthersStay
<1>3. ASSUME NEW c \in Connections, NEW place \in {"head", "handling", "sending", "closed"},
             stage[c] # "body", GoTo(c, place), UNCHANGED <<sent, wire, client, raw, request>>,
             place = "head" => stage[c] = "connecting"
      PROVE  ServerInv'
  <2>1. /\ Domains' /\ stage'[c] = place
        /\ \A d \in Connections \ {c} : stage'[d] = stage[d]
    BY <1>0, <1>3 DEF GoTo, Domains
  <2>2. GoodAt(c)
    BY <1>0
  <2>3. GoodAt(c)'
    BY <1>3, <2>1, <2>2 DEF GoodAt, Good
  <2> QED BY <1>3, <2>1, <2>3, OthersStay
<1>4. ASSUME NEW c \in Connections, Accept(c) PROVE ServerInv'
  BY <1>3, <1>4 DEF Accept
<1>5. ASSUME NEW c \in Connections, HeadEnds(c) PROVE ServerInv'
  BY <1>3, <1>5 DEF HeadEnds
<1>6. ASSUME NEW c \in Connections, Handle(c) PROVE ServerInv'
  BY <1>3, <1>6 DEF Handle
<1>7. ASSUME NEW c \in Connections, Send(c) PROVE ServerInv'
  BY <1>3, <1>7 DEF Send
<1>8. ASSUME NEW c \in Connections, ReadHead(c) PROVE ServerInv'
  <2>1. PICK piece \in Pieces(c) : Receive(c, piece) /\ GoTo(c, Waiting(raw[c] \o piece))
    BY <1>8 DEF ReadHead
  <2>2. stage[c] = "head" /\ UNCHANGED <<sent, client, request>>
    BY <1>8 DEF ReadHead
  <2>3. /\ raw'[c] = raw[c] \o piece
        /\ PartOf(raw'[c], sent[c]) /\ RestOf(wire'[c], raw'[c], sent[c])
        /\ DOMAIN raw' = Connections /\ DOMAIN wire' = Connections
        /\ \A d \in Connections \ {c} : wire'[d] = wire[d] /\ raw'[d] = raw[d]
    <3>1. GoodAt(c)
      BY <1>0
    <3> QED BY <1>0, <2>1, <3>1, ReceiveKeeps
  <2>4. /\ stage'[c] = Waiting(raw'[c]) /\ DOMAIN stage' = Connections
        /\ \A d \in Connections \ {c} : stage'[d] = stage[d]
    BY <1>0, <2>1, <2>3 DEF GoTo, Domains
  <2>5. stage'[c] = "body" => HeaderEnd(raw'[c]) # 0
    BY <2>4 DEF Waiting
  <2>6. GoodAt(c)
    BY <1>0
  <2>7. IsRequest(sent[c]) /\ request'[c] = NoRequest
    BY <2>2, <2>6 DEF GoodAt, Good
  <2>8. GoodAt(c)'
    BY <2>2, <2>3, <2>5, <2>7 DEF GoodAt, Good
  <2>9. Domains'
    BY <1>0, <2>2, <2>3, <2>4 DEF Domains
  <2> QED BY <2>2, <2>3, <2>4, <2>8, <2>9, OthersStay
<1>9. ASSUME NEW c \in Connections, ReadBody(c) PROVE ServerInv'
  <2>1. PICK piece \in Pieces(c) : Receive(c, piece)
    BY <1>9 DEF ReadBody
  <2>2. stage[c] = "body" /\ UNCHANGED <<sent, client, stage, request>>
    BY <1>9 DEF ReadBody
  <2>3. GoodAt(c)
    BY <1>0
  <2>4. /\ raw'[c] = raw[c] \o piece
        /\ PartOf(raw'[c], sent[c]) /\ RestOf(wire'[c], raw'[c], sent[c])
        /\ DOMAIN raw' = Connections /\ DOMAIN wire' = Connections
        /\ \A d \in Connections \ {c} : wire'[d] = wire[d] /\ raw'[d] = raw[d]
    BY <1>0, <2>1, <2>3, ReceiveKeeps
  <2>5. IsRequest(sent[c]) /\ PartOf(raw[c], sent[c]) /\ HeaderEnd(raw[c]) # 0
        /\ request'[c] = NoRequest
    BY <2>2, <2>3 DEF GoodAt, Good
  <2>6. HeaderEnd(raw'[c]) # 0
    <3>1. /\ H(sent[c]) \in Nat /\ Len(raw[c]) \in Nat
      BY <2>5, LengthsOf
    <3>2. Len(raw[c]) >= H(sent[c]) + 3
      BY <2>5, HeaderEndIs
    <3>3. Len(raw'[c]) >= Len(raw[c])
      <4> DEFINE S == Units(sent[c])
                 text == raw[c]
                 rest == wire[c]
      <4>1. RestOf(rest, text, sent[c]) /\ text \in Seq(S) /\ rest \in Seq(S)
        BY <2>3 DEF GoodAt, Good, PartOf, RestOf
      <4>2. PICK n \in 1 .. Min({BufferSize, Len(rest)}) : piece = SubSeq(rest, 1, n)
        BY <2>1 DEF Pieces
      <4> HIDE DEF S, text, rest
      <4>3. Len(raw'[c]) \in Nat /\ Len(wire'[c]) \in Nat /\ Len(rest) \in Nat /\ Len(text) \in Nat
            /\ Len(wire'[c]) + Len(raw'[c]) = Len(OnTheWire(sent[c]))
            /\ Len(rest) + Len(text) = Len(OnTheWire(sent[c]))
        BY <2>4, <4>1, LenProperties DEF PartOf, RestOf
      <4>4. piece \in Seq(S) /\ Len(piece) \in Nat
        <5>1. rest \in [1 .. Len(rest) -> S]
          BY <4>1, LenProperties
        <5>2. BufferSize \in Int /\ Len(rest) \in Int
          BY <4>3, ServerAssumption
        <5>3. Min({BufferSize, Len(rest)}) = IF BufferSize <= Len(rest) THEN BufferSize ELSE Len(rest)
          BY <5>2, SmallerOf
        <5>4. n \in Int /\ 1 \in Int /\ \A i \in 1 .. n : rest[i] \in S
          BY <5>1, <5>2, <5>3
        <5>5. SubSeq(rest, 1, n) \in Seq(S)
          BY <5>4, SubSeqProperties
        <5> QED BY <4>2, <5>5, LenProperties
      <4>5. Len(raw'[c]) = Len(text) + Len(piece)
        <5>1. Len(text \o piece) = Len(text) + Len(piece)
          BY <4>1, <4>4, ConcatProperties
        <5> QED BY <2>4, <5>1 DEF text
      <4> QED BY <4>3, <4>4, <4>5 DEF text
    <3>4. Len(raw'[c]) \in Nat
      BY <2>4, LenProperties DEF PartOf
    <3>5. HeaderEnd(raw'[c]) = IF Len(raw'[c]) >= H(sent[c]) + 3 THEN H(sent[c]) + 2 ELSE 0
      BY <2>4, <2>5, HeaderEndIs
    <3> QED BY <3>1, <3>2, <3>3, <3>4, <3>5
  <2>7. GoodAt(c)'
    BY <2>2, <2>4, <2>5, <2>6 DEF GoodAt, Good
  <2>8. Domains'
    BY <1>0, <2>2, <2>4 DEF Domains
  <2> QED BY <2>2, <2>4, <2>7, <2>8, OthersStay
<1>10. ASSUME NEW c \in Connections, Assemble(c) PROVE ServerInv'
  <2> DEFINE r == sent[c]
             text == raw[c]
             units == Taken(text)
             body == [i \in DOMAIN units |-> units[i].value]
             target == text[1].value
             fields == Parsed[target.query] @@ Parsed[body]
             req == [path |-> target.path, body |-> body, fields |-> fields]
  <2>1. /\ stage[c] = "body" /\ (~BodyMissing(text) \/ ReceivesNothing(c))
        /\ request' = [request EXCEPT ![c] = req] /\ GoTo(c, "handling")
        /\ UNCHANGED <<sent, wire, client, raw>>
    BY <1>10 DEF Assemble
  <2>2. GoodAt(c)
    BY <1>0
  <2>3. /\ IsRequest(r) /\ PartOf(text, r) /\ RestOf(wire[c], text, r) /\ HeaderEnd(text) # 0
    BY <2>1, <2>2 DEF GoodAt, Good
  <2>4. ~BodyMissing(text) \/ wire[c] = <<>> \/ client[c] # "sending"
    BY <2>1 DEF ReceivesNothing, QuietTooLong
  <2> HIDE DEF fields
  <2>5. WholeIn(r, client[c], req)
    BY <2>3, <2>4, AssembledIsWhole
  <2> HIDE DEF req
  <2>6. /\ request'[c] = req /\ stage'[c] = "handling" /\ Domains'
        /\ \A d \in Connections \ {c} : stage'[d] = stage[d] /\ request'[d] = request[d]
    BY <1>0, <2>1 DEF GoTo, Domains
  <2>7. GoodAt(c)'
    BY <2>1, <2>3, <2>5, <2>6 DEF GoodAt, Good
  <2> QED BY <2>1, <2>6, <2>7, OthersStay
<1>11. ASSUME NEW c \in Connections, ServeStep(c) \/ GiveUp(c) \/ ClientStops(c) PROVE ServerInv'
  BY <1>2, <1>4, <1>5, <1>6, <1>7, <1>8, <1>9, <1>10, <1>11 DEF ServeStep, GiveUp
<1> QED BY <1>1, <1>11 DEF ServerNext

LEMMA GoodIsWhole == ServerInv => RequestIsWhole
<1> SUFFICES ASSUME ServerInv, NEW c \in Connections, Handled(c)
             PROVE  WholeIn(sent[c], client[c], request[c])
  BY DEF RequestIsWhole, WholeIn
<1>1. GoodAt(c)
  BY DEF ServerInv
<1> QED BY <1>1 DEF GoodAt, Good, Handled

\* The handler sees the announced body and nothing else, in whatever pieces recv
\* delivers it, and a part of it only from a client that stopped in the middle.
THEOREM RequestsArriveWhole == ServerSpec => []RequestIsWhole
<1>1. ServerInit => ServerInv
  BY ServerInitGood
<1>2. ServerInv /\ [ServerNext]_serverVars => ServerInv'
  BY ServerStepGood
<1>3. ServerInv => RequestIsWhole
  BY GoodIsWhole
<1> QED BY <1>1, <1>2, <1>3, PTL DEF ServerSpec
-----------------------------------------------------------------------------
(***************************************************************************)
(* The configuration.  Its text is cut into what stands in front of the     *)
(* entry that is looked for, the entry, and what stands behind it.          *)
(***************************************************************************)

EditedAt(j, i, x) == [j EXCEPT ![i] = x]
Joined(a, c, b) == a \o c \o b

\* What is written into the middle part is written into that part alone.
LEMMA EditInPart ==
    ASSUME NEW T, NEW a \in Seq(T), NEW c \in Seq(T), NEW b \in Seq(T),
           NEW i \in 1 .. Len(c), NEW x \in T, NEW at, at = Len(a) + i
    PROVE  EditedAt(Joined(a, c, b), at, x) = Joined(a, EditedAt(c, i, x), b)
<1> DEFINE j == a \o c \o b
           d == [c EXCEPT ![i] = x]
           l == a \o d \o b
           e == [j EXCEPT ![Len(a) + i] = x]
           n == Len(a) + Len(c) + Len(b)
<1>1. /\ j \in Seq(T) /\ Len(j) = n
      /\ Len(a) \in Nat /\ Len(c) \in Nat /\ Len(b) \in Nat
      /\ \A k \in 1 .. Len(a) : j[k] = a[k]
      /\ \A k \in 1 .. Len(c) : j[Len(a) + k] = c[k]
      /\ \A k \in 1 .. Len(b) : j[Len(a) + Len(c) + k] = b[k]
  BY ThreeParts
<1>2. /\ d \in Seq(T) /\ Len(d) = Len(c) /\ d[i] = x
      /\ \A k \in 1 .. Len(c) : k # i => d[k] = c[k]
  BY <1>1
<1> HIDE DEF d
<1>3. /\ l \in Seq(T) /\ Len(l) = n
      /\ \A k \in 1 .. Len(a) : l[k] = a[k]
      /\ \A k \in 1 .. Len(c) : l[Len(a) + k] = d[k]
      /\ \A k \in 1 .. Len(b) : l[Len(a) + Len(c) + k] = b[k]
  <2>1. d \in Seq(T) /\ Len(d) = Len(c)
    BY <1>2
  <2> HIDE DEF j, n
  <2>2. CutInto(l, T, a, d, b)
    BY <2>1, Zenon, IsCut
  <2> HIDE DEF l
  <2>3. n = Len(a) + Len(d) + Len(b)
    BY <2>1 DEF n
  <2> QED BY <2>1, <2>2, <2>3 DEF CutInto
<1> HIDE DEF j, l
<1>4. e \in Seq(T) /\ Len(e) = n
      /\ \A k \in 1 .. n : e[k] = IF k = Len(a) + i THEN x ELSE j[k]
  <2>1. j \in [1 .. n -> T] /\ n \in Nat
    <3>1. n \in Nat
      BY <1>1
    <3> QED BY <1>1, <3>1, LenProperties
  <2> HIDE DEF n
  <2>2. e \in [1 .. n -> T] /\ \A k \in 1 .. n : e[k] = IF k = Len(a) + i THEN x ELSE j[k]
    BY <2>1
  <2> HIDE DEF e
  <2> QED BY <2>1, <2>2
<1> HIDE DEF e
<1>5. ASSUME NEW k \in 1 .. n PROVE e[k] = l[k]
  <2>1. CASE k \in 1 .. Len(a)
    BY <1>1, <1>3, <1>4, <2>1
  <2>2. CASE k - Len(a) \in 1 .. Len(c)
    <3> DEFINE q == k - Len(a)
    <3>1. q \in 1 .. Len(c) /\ k = Len(a) + q /\ (q = i <=> k = Len(a) + i)
      BY <1>1, <2>2
    <3> HIDE DEF q
    <3>2. l[k] = d[q] /\ j[k] = c[q]
      BY <1>1, <1>3, <3>1
    <3> QED BY <1>2, <1>4, <3>1, <3>2
  <2>3. CASE k - (Len(a) + Len(c)) \in 1 .. Len(b)
    <3> DEFINE q == k - (Len(a) + Len(c))
    <3>1. q \in 1 .. Len(b) /\ k = Len(a) + Len(c) + q /\ k # Len(a) + i
      BY <1>1, <2>3
    <3> HIDE DEF q
    <3>2. l[k] = b[q] /\ j[k] = b[q]
      BY <1>1, <1>3, <3>1
    <3> QED BY <1>4, <3>1, <3>2
  <2> QED BY <1>1, <2>1, <2>2, <2>3
<1>6. Len(e) = Len(l) /\ \A k \in 1 .. Len(e) : e[k] = l[k]
  BY <1>3, <1>4, <1>5
<1>7. e = l
  BY <1>3, <1>4, <1>6, SeqEqual
<1> QED BY <1>7, Zenon DEF e, l, j, d, EditedAt, Joined

Same(t, u) == t.is = u.is /\ t.text = u.text
Absent(s, token) == \A i \in 1 .. Len(s) : ~Same(s[i], token)

LEMMA FoundAt ==
    ASSUME NEW json, NEW token, NEW from \in Nat, Len(json) \in Nat,
           NEW p \in from .. Len(json), Same(json[p], token),
           \A i \in from .. (p - 1) : ~Same(json[i], token)
    PROVE  FirstFrom(json, token, from) = p
<1> DEFINE at == {i \in from .. Len(json) : json[i].is = token.is /\ json[i].text = token.text}
<1>1. at \in SUBSET Int /\ p \in at
  BY DEF Same
<1>2. \A i \in at : p <= i
  BY DEF Same
<1>3. Min(at) = p
  <2> HIDE DEF at
  <2> QED BY <1>1, <1>2, MinIs
<1> QED BY <1>1, <1>3 DEF FirstFrom

LEMMA NotFoundUpTo ==
    ASSUME NEW json, NEW token, NEW from \in Nat, from >= 1, Len(json) \in Nat, NEW p \in Nat,
           \A i \in from .. Len(json) : i <= p => ~Same(json[i], token)
    PROVE  /\ FirstFrom(json, token, from) \in Nat
           /\ FirstFrom(json, token, from) = 0 \/ FirstFrom(json, token, from) > p
<1> DEFINE at == {i \in from .. Len(json) : json[i].is = token.is /\ json[i].text = token.text}
<1>1. at \in SUBSET Nat /\ \A i \in at : i > p
  BY DEF Same
<1>2. at # {} => Min(at) \in at
  <2> HIDE DEF at
  <2> QED BY <1>1, MinNat
<1> QED BY <1>1, <1>2 DEF FirstFrom

LEMMA JoinedAbsent ==
    ASSUME NEW T, NEW s \in Seq(T), NEW t \in Seq(T), NEW token
    PROVE  Absent(s \o t, token) <=> Absent(s, token) /\ Absent(t, token)
<1> DEFINE j == s \o t
<1>1. /\ Len(s) \in Nat /\ Len(t) \in Nat /\ Len(j) = Len(s) + Len(t)
      /\ \A i \in 1 .. Len(s) + Len(t) : j[i] = IF i <= Len(s) THEN s[i] ELSE t[i - Len(s)]
  BY ConcatProperties, LenProperties
<1> HIDE DEF j
<1>2. ASSUME Absent(s, token), Absent(t, token) PROVE Absent(j, token)
  <2> SUFFICES ASSUME NEW i \in 1 .. Len(j) PROVE ~Same(j[i], token)
    BY DEF Absent
  <2>1. CASE i <= Len(s)
    <3>1. i \in 1 .. Len(s) /\ j[i] = s[i]
      BY <1>1, <2>1
    <3> QED BY <1>2, <3>1 DEF Absent
  <2>2. CASE ~(i <= Len(s))
    <3>1. i - Len(s) \in 1 .. Len(t) /\ j[i] = t[i - Len(s)]
      BY <1>1, <2>2
    <3> QED BY <1>2, <3>1 DEF Absent
  <2> QED BY <2>1, <2>2
<1>3. ASSUME Absent(j, token), NEW i \in 1 .. Len(s) PROVE ~Same(s[i], token)
  <2>1. i \in 1 .. Len(j) /\ j[i] = s[i]
    BY <1>1
  <2> QED BY <1>3, <2>1 DEF Absent
<1>4. ASSUME Absent(j, token), NEW i \in 1 .. Len(t) PROVE ~Same(t[i], token)
  <2> DEFINE k == Len(s) + i
  <2>1. k \in 1 .. Len(s) + Len(t) /\ ~(k <= Len(s)) /\ k - Len(s) = i
    BY <1>1
  <2> HIDE DEF k
  <2>2. k \in 1 .. Len(j) /\ j[k] = t[i]
    BY <1>1, <2>1
  <2> QED BY <1>4, <2>2 DEF Absent
<1> QED BY <1>2, <1>3, <1>4 DEF Absent, j

Lacking(cs, k, token) == \A i \in 1 .. k : Absent(cs[i], token)
AlikeBut(cs, ds, n, k) == \A i \in 1 .. n : i # k => cs[i] = ds[i]

LEMMA RunsAbsent ==
    ASSUME NEW T, NEW n \in Nat, NEW cs, NEW f, RunsThrough(f, cs, n), NEW token,
           Typed(cs, n, T), NEW k \in 1 .. n, Lacking(cs, k, token)
    PROVE  Absent(f[k], token)
<1>0. (\A i \in 1 .. n : cs[i] \in Seq(T)) /\ (\A i \in 1 .. k : Absent(cs[i], token))
  BY DEF Typed, Lacking
<1> USE <1>0
<1> DEFINE G == {m \in Nat : m \in 1 .. k => Absent(f[m], token)}
<1>1. 0 \in G
  OBVIOUS
<1>2. ASSUME NEW m \in Nat, m \in G PROVE m + 1 \in G
  <2> SUFFICES ASSUME m + 1 \in 1 .. k PROVE Absent(f[m + 1], token)
    OBVIOUS
  <2>1. CASE m = 0
    BY <2>1 DEF RunsThrough
  <2>2. CASE m # 0
    <3>1. m \in 1 .. n /\ m \in 1 .. k /\ m + 1 \in 2 .. n /\ (m + 1) - 1 = m /\ m + 1 \in 1 .. n
      BY <2>2
    <3>2. f[m + 1] = f[m] \o cs[m + 1]
      BY <3>1 DEF RunsThrough
    <3>3. f[m] \in Seq(T) /\ cs[m + 1] \in Seq(T)
      BY <3>1, RunsAreTyped
    <3>4. Absent(f[m], token) /\ Absent(cs[m + 1], token)
      BY <1>2, <3>1
    <3> QED BY <3>2, <3>3, <3>4, JoinedAbsent
  <2> QED BY <2>1, <2>2
<1> HIDE DEF G
<1>3. \A m \in Nat : m \in G
  BY <1>1, <1>2, Successors
<1> QED BY <1>3 DEF G

\* What stands in front of the k-th part.
FrontOf(f, k) == IF k = 1 THEN <<>> ELSE f[k - 1]

\* Two texts, the same but for a part.
SameAround(T, s, t, x, c, d) == \E b \in Seq(T) : s = Joined(x, c, b) /\ t = Joined(x, d, b)

\* Two runs over parts that differ in the k-th alone.
LEMMA RunsSplit ==
    ASSUME NEW T, NEW n \in Nat, NEW k \in 1 .. n,
           NEW cs, NEW ds, NEW f, NEW g, RunsThrough(f, cs, n), RunsThrough(g, ds, n),
           Typed(cs, n, T), Typed(ds, n, T), AlikeBut(cs, ds, n, k)
    PROVE  SameAround(T, f[n], g[n], FrontOf(f, k), cs[k], ds[k])
<1>0. /\ \A i \in 1 .. n : cs[i] \in Seq(T) /\ ds[i] \in Seq(T)
      /\ \A i \in 1 .. n : i # k => cs[i] = ds[i]
  BY DEF Typed, AlikeBut
<1> USE <1>0
<1> DEFINE Alike == {m \in Nat : m \in 1 .. (k - 1) => f[m] = g[m]}
<1>1. 0 \in Alike
  OBVIOUS
<1>2. ASSUME NEW m \in Nat, m \in Alike PROVE m + 1 \in Alike
  <2> SUFFICES ASSUME m + 1 \in 1 .. (k - 1) PROVE f[m + 1] = g[m + 1]
    OBVIOUS
  <2>1. m + 1 \in 1 .. n /\ m + 1 # k /\ cs[m + 1] = ds[m + 1]
    OBVIOUS
  <2>2. CASE m = 0
    BY <2>1, <2>2 DEF RunsThrough
  <2>3. CASE m # 0
    <3>1. m \in 1 .. (k - 1) /\ m + 1 \in 2 .. n /\ (m + 1) - 1 = m
      BY <2>3
    <3>2. f[m + 1] = f[m] \o cs[m + 1] /\ g[m + 1] = g[m] \o ds[m + 1]
      BY <3>1 DEF RunsThrough
    <3> QED BY <1>2, <2>1, <3>1, <3>2
  <2> QED BY <2>2, <2>3
<1> HIDE DEF Alike
<1>3. \A m \in Nat : m \in Alike
  BY <1>1, <1>2, Successors
<1>4. FrontOf(f, k) = FrontOf(g, k) /\ FrontOf(f, k) \in Seq(T)
  <2>1. CASE k = 1
    BY <2>1 DEF FrontOf
  <2>2. CASE k # 1
    <3>1. k - 1 \in Nat /\ k - 1 \in 1 .. (k - 1) /\ k - 1 \in 1 .. n
      BY <2>2
    <3>2. f[k - 1] = g[k - 1]
      BY <1>3, <3>1 DEF Alike
    <3>3. f[k - 1] \in Seq(T)
      BY <3>1, RunsAreTyped
    <3> QED BY <2>2, <3>2, <3>3 DEF FrontOf
  <2> QED BY <2>1, <2>2
<1> DEFINE a == FrontOf(f, k)
           Splits(m) == \E b \in Seq(T) : f[m] = a \o cs[k] \o b /\ g[m] = a \o ds[k] \o b
           G == {m \in Nat : m \in k .. n => Splits(m)}
<1>5. f[k] = a \o cs[k] /\ g[k] = a \o ds[k] /\ a \o cs[k] \in Seq(T) /\ a \o ds[k] \in Seq(T)
  <2>1. cs[k] \in Seq(T) /\ ds[k] \in Seq(T)
    OBVIOUS
  <2>2. a \o cs[k] \in Seq(T) /\ a \o ds[k] \in Seq(T)
    <3> HIDE DEF a
    <3> QED BY <1>4, <2>1, ConcatProperties DEF a
  <2>3. CASE k = 1
    <3>1. a = <<>> /\ f[k] = cs[k] /\ g[k] = ds[k]
      BY <2>3 DEF FrontOf, RunsThrough
    <3> HIDE DEF a
    <3> QED BY <2>1, <2>2, <3>1, ConcatEmptySeq
  <2>4. CASE k # 1
    <3>1. k \in 2 .. n
      BY <2>4
    <3>2. f[k] = f[k - 1] \o cs[k] /\ g[k] = g[k - 1] \o ds[k]
      BY <3>1 DEF RunsThrough
    <3> QED BY <1>4, <2>2, <2>4, <3>2 DEF FrontOf
  <2> QED BY <2>3, <2>4
<1> HIDE DEF a
<1>6. Splits(k)
  <2>1. <<>> \in Seq(T) /\ (a \o cs[k]) \o <<>> = a \o cs[k] /\ (a \o ds[k]) \o <<>> = a \o ds[k]
    BY <1>5, ConcatEmptySeq
  <2> QED BY <1>5, <2>1
<1>7. 0 \in G
  OBVIOUS
<1>8. ASSUME NEW m \in Nat, m \in G PROVE m + 1 \in G
  <2> HIDE DEF Splits
  <2> SUFFICES ASSUME m + 1 \in k .. n PROVE Splits(m + 1)
    OBVIOUS
  <2>1. CASE m + 1 = k
    BY <1>6, <2>1
  <2>2. CASE m + 1 # k
    <3>1. m \in k .. n /\ m + 1 \in 2 .. n /\ m + 1 \in 1 .. n /\ (m + 1) - 1 = m
      BY <2>2
    <3>2. PICK b \in Seq(T) : f[m] = a \o cs[k] \o b /\ g[m] = a \o ds[k] \o b
      BY <1>8, <3>1 DEF Splits
    <3>3. f[m + 1] = f[m] \o cs[m + 1] /\ g[m + 1] = g[m] \o ds[m + 1]
      BY <3>1 DEF RunsThrough
    <3> DEFINE c == cs[m + 1]
    <3>4. c = ds[m + 1] /\ c \in Seq(T)
      BY <2>2, <3>1
    <3> HIDE DEF c
    <3>5. b \o c \in Seq(T)
      BY <3>2, <3>4, ConcatProperties
    <3>6. (a \o cs[k] \o b) \o c = (a \o cs[k]) \o (b \o c)
      <4> DEFINE x == a \o cs[k]
      <4>1. x \in Seq(T) /\ b \in Seq(T) /\ c \in Seq(T)
        BY <1>5, <3>2, <3>4
      <4> HIDE DEF x
      <4>2. (x \o b) \o c = x \o (b \o c)
        BY <4>1, ConcatAssociative
      <4> QED BY <4>2 DEF x
    <3>7. (a \o ds[k] \o b) \o c = (a \o ds[k]) \o (b \o c)
      <4> DEFINE x == a \o ds[k]
      <4>1. x \in Seq(T) /\ b \in Seq(T) /\ c \in Seq(T)
        BY <1>5, <3>2, <3>4
      <4> HIDE DEF x
      <4>2. (x \o b) \o c = x \o (b \o c)
        BY <4>1, ConcatAssociative
      <4> QED BY <4>2 DEF x
    <3>8. f[m + 1] = a \o cs[k] \o (b \o c) /\ g[m + 1] = a \o ds[k] \o (b \o c)
      BY <3>2, <3>3, <3>4, <3>6, <3>7 DEF c
    <3> QED BY <3>5, <3>8 DEF Splits
  <2> QED BY <2>1, <2>2
<1> HIDE DEF G
<1>9. n \in G
  BY <1>7, <1>8, Successors
<1>10. n \in k .. n
  OBVIOUS
<1>11. Splits(n)
  <2> HIDE DEF Splits
  <2> QED BY <1>9, <1>10 DEF G
<1> QED BY <1>11 DEF a, Splits, Joined, SameAround

-----------------------------------------------------------------------------

\* The names in a configuration, those of its own keys among them.
Names == STRING \cup {"max_velocity", "max_acceleration", "move_checkers", "axis_limiter"}

Tok == {Key(name) : name \in Names} \cup {Num(n) : n \in Int}
           \cup {Mark("{"), Mark("}"), Mark("["), Mark("]")}

\* A limit that is there gives way to one that is asked for.
Written(new, old) == IF new > 0 /\ old > 0 THEN new ELSE old

LEMMA KeysAndNumbers ==
    /\ \A name \in Names : Key(name) \in Tok
    /\ \A n \in Int : Num(n) \in Tok
<1>1. \A x : x \in {Key(name) : name \in Names} \/ x \in {Num(n) : n \in Int} => x \in Tok
  BY Zenon DEF Tok
<1> QED BY <1>1

LEMMA EntryIs ==
    ASSUME NEW name \in Names, NEW n \in Nat
    PROVE  /\ Entry(name, n) \in Seq(Tok)
           /\ n = 0 => Entry(name, n) = <<>>
           /\ n # 0 => Entry(name, n) = <<Key(name), Num(n)>>
<1>1. Key(name) \in Tok /\ Num(n) \in Tok
  BY KeysAndNumbers
<1> DEFINE k == Key(name)
           m == Num(n)
<1>2. <<k, m>> \in Seq(Tok) /\ <<>> \in Seq(Tok)
  <2> HIDE DEF k, m
  <2> QED BY <1>1 DEF k, m
<1> QED BY <1>2 DEF Entry

LEMMA NotTheKey ==
    ASSUME NEW name \in Names, NEW key \in Names, name # key
    PROVE  /\ ~Same(Key(name), Key(key)) /\ Same(Key(key), Key(key))
           /\ \A n : ~Same(Num(n), Key(key))
           /\ \A b : ~Same(Mark(b), Key(key))
BY DEF Same, Key, Num, Mark

LEMMA EntryAbsent ==
    ASSUME NEW name \in Names, NEW n \in Nat, NEW key \in Names, name # key
    PROVE  Absent(Entry(name, n), Key(key))
<1>1. CASE n = 0
  BY <1>1, EntryIs DEF Absent
<1>2. CASE n # 0
  <2> DEFINE k == Key(name)
             m == Num(n)
  <2>1. Entry(name, n) = <<k, m>>
    BY <1>2, EntryIs
  <2>2. ~Same(k, Key(key)) /\ ~Same(m, Key(key))
    BY NotTheKey
  <2> HIDE DEF k, m
  <2>3. Len(<<k, m>>) = 2 /\ <<k, m>>[1] = k /\ <<k, m>>[2] = m
    OBVIOUS
  <2>4. \A i \in 1 .. 2 : i = 1 \/ i = 2
    OBVIOUS
  <2> QED BY <2>1, <2>2, <2>3, <2>4 DEF Absent
<1> QED BY <1>1, <1>2

\* The p-th of these is where the checkers begin, and none up to it is the key.
BeforeCheckers(b, key, p) ==
    /\ b \in Seq(Tok) /\ p \in 1 .. Len(b) /\ Same(b[p], Key("move_checkers"))
    /\ \A i \in 1 .. p : ~Same(b[i], Key(key))
    /\ \A i \in 1 .. (p - 1) : ~Same(b[i], Key("move_checkers"))

\* A limit at the top level is found, or what is found stands in the checkers.
LEMMA TopLevelIsWritten ==
    ASSUME NEW a \in Seq(Tok), NEW key \in Names, key # "move_checkers",
           NEW v \in Nat, NEW n \in Int,
           Absent(a, Key(key)), Absent(a, Key("move_checkers")),
           NEW b, NEW p, BeforeCheckers(b, key, p)
    PROVE  OverrideConfigValue(a \o Entry(key, v) \o b, key, n)
             = a \o Entry(key, Written(n, v)) \o b
<1> DEFINE c == Entry(key, v)
           json == a \o c \o b
           at == FirstFrom(json, Key(key), 1)
           checkers == FirstFrom(json, Key("move_checkers"), 1)
<1>0. /\ b \in Seq(Tok) /\ p \in 1 .. Len(b) /\ Same(b[p], Key("move_checkers"))
      /\ \A i \in 1 .. p : ~Same(b[i], Key(key))
      /\ \A i \in 1 .. (p - 1) : ~Same(b[i], Key("move_checkers"))
  BY DEF BeforeCheckers
<1> USE <1>0
<1>1. c \in Seq(Tok)
  BY EntryIs
<1>2. /\ json \in Seq(Tok) /\ Len(json) = Len(a) + Len(c) + Len(b)
      /\ Len(a) \in Nat /\ Len(c) \in Nat /\ Len(b) \in Nat
      /\ \A i \in 1 .. Len(a) : json[i] = a[i]
      /\ \A i \in 1 .. Len(c) : json[Len(a) + i] = c[i]
      /\ \A i \in 1 .. Len(b) : json[Len(a) + Len(c) + i] = b[i]
  <2> HIDE DEF c
  <2>1. CutInto(a \o c \o b, Tok, a, c, b)
    BY <1>1, Zenon, IsCut
  <2> HIDE DEF json
  <2> QED BY <2>1 DEF CutInto, json
<1>3. OverrideConfigValue(json, key, n) =
        IF n <= 0 \/ at = 0 \/ (checkers # 0 /\ at > checkers) THEN json
        ELSE [json EXCEPT ![at + 1] = Num(n)]
  BY DEF OverrideConfigValue
<1>4. \A i \in 1 .. Len(a) : ~Same(json[i], Key(key)) /\ ~Same(json[i], Key("move_checkers"))
  BY <1>2 DEF Absent
<1> HIDE DEF json
<1>5. CASE n <= 0
  <2>1. Written(n, v) = v
    BY <1>5 DEF Written
  <2> QED BY <1>3, <1>5, <2>1 DEF json
<1>6. CASE n > 0 /\ v > 0
  <2> DEFINE k == Key(key)
             m == Num(v)
             x == Num(n)
  <2>1. c = <<k, m>> /\ Entry(key, Written(n, v)) = <<k, x>>
    <3>1. Written(n, v) = n /\ n \in Nat /\ n # 0 /\ v # 0
      BY <1>6 DEF Written
    <3> QED BY <3>1, EntryIs
  <2>2. x \in Tok /\ k \in Tok /\ m \in Tok
    BY KeysAndNumbers
  <2>3. Same(k, Key(key)) /\ ~Same(k, Key("move_checkers"))
    BY NotTheKey DEF Same, Key
  <2> HIDE DEF k, m, x, c
  <2>4. Len(c) = 2 /\ c[1] = k
    BY <2>1
  <2>5. json[Len(a) + 1] = k /\ Len(a) + 1 \in 1 .. Len(json) /\ Len(json) \in Nat
    BY <1>2, <2>4
  <2>6. at = Len(a) + 1
    <3> DEFINE q == Len(a) + 1
    <3>1. \A i \in 1 .. (q - 1) : ~Same(json[i], Key(key))
      BY <1>2, <1>4
    <3>2. q \in 1 .. Len(json) /\ Same(json[q], Key(key))
      BY <2>3, <2>5
    <3> HIDE DEF q
    <3>3. at = q
      BY <2>5, <3>1, <3>2, FoundAt
    <3> QED BY <3>3 DEF q
  <2>7. checkers \in Nat /\ (checkers = 0 \/ checkers > Len(a) + 1)
    <3> DEFINE q == Len(a) + 1
    <3>1. \A i \in 1 .. Len(json) : i <= q => ~Same(json[i], Key("move_checkers"))
      <4> SUFFICES ASSUME NEW i \in 1 .. Len(json), i <= q
                   PROVE  ~Same(json[i], Key("move_checkers"))
        OBVIOUS
      <4>1. CASE i = q
        BY <2>3, <2>5, <4>1
      <4>2. CASE i # q
        <5>1. i \in 1 .. Len(a)
          BY <1>2, <4>2
        <5> QED BY <1>4, <5>1
      <4> QED BY <4>1, <4>2
    <3>2. q \in Nat
      BY <1>2
    <3> HIDE DEF q
    <3>3. checkers \in Nat /\ (checkers = 0 \/ checkers > q)
      BY <2>5, <3>1, <3>2, NotFoundUpTo
    <3> QED BY <3>3 DEF q
  <2> HIDE DEF at, checkers
  <2>8. OverrideConfigValue(json, key, n) = [json EXCEPT ![at + 1] = x]
    <3>1. Len(a) \in Nat
      BY <1>2
    <3>2. ~(n <= 0) /\ ~(at = 0)
      BY <1>6, <2>6, <3>1
    <3>3. ~(checkers # 0 /\ at > checkers)
      BY <2>6, <2>7, <3>1
    <3> QED BY <1>3, <3>2, <3>3 DEF x
  <2>9. [json EXCEPT ![Len(a) + 2] = x] = a \o <<k, x>> \o b
    <3>1. 2 \in 1 .. Len(c) /\ EditedAt(c, 2, x) = <<k, x>>
      BY <2>1, <2>4 DEF EditedAt
    <3> DEFINE q == Len(a) + 2
    <3> HIDE DEF q
    <3>2. EditedAt(Joined(a, c, b), q, x) = Joined(a, EditedAt(c, 2, x), b)
      BY <1>1, <2>2, <3>1, EditInPart DEF q
    <3> QED BY <3>1, <3>2, Zenon DEF q, json, EditedAt, Joined
  <2>10. at + 1 = Len(a) + 2
    BY <1>2, <2>6
  <2>11. OverrideConfigValue(json, key, n) = a \o <<k, x>> \o b
    BY <2>8, <2>9, <2>10
  <2> QED BY <2>1, <2>11 DEF json, c
<1>7. CASE n > 0 /\ v = 0
  <2>1. c = <<>> /\ Written(n, v) = v
    BY <1>7, EntryIs DEF Written
  <2> HIDE DEF c
  <2>2. Len(c) = 0
    BY <2>1
  <2>3. \A i \in 1 .. Len(b) : json[Len(a) + i] = b[i]
    BY <1>2, <2>2
  <2> DEFINE q == Len(a) + p
  <2>4. q \in 1 .. Len(json) /\ Len(json) \in Nat /\ json[q] = b[p]
    BY <1>2, <2>2, <2>3
  <2>5. \A i \in 1 .. q : /\ ~Same(json[i], Key(key))
                          /\ i # q => ~Same(json[i], Key("move_checkers"))
    <3> SUFFICES ASSUME NEW i \in 1 .. q
                 PROVE  /\ ~Same(json[i], Key(key))
                        /\ i # q => ~Same(json[i], Key("move_checkers"))
      OBVIOUS
    <3>1. CASE i <= Len(a)
      <4>1. i \in 1 .. Len(a)
        BY <1>2, <3>1
      <4> QED BY <1>4, <4>1
    <3>2. CASE ~(i <= Len(a))
      <4> DEFINE j == i - Len(a)
      <4>0. Len(a) \in Nat /\ Len(b) \in Nat
        BY <1>2
      <4>1. /\ j \in 1 .. p /\ j \in 1 .. Len(b) /\ i = Len(a) + j
            /\ i # q => j \in 1 .. (p - 1)
        BY <3>2, <4>0
      <4> HIDE DEF j
      <4>2. json[i] = b[j]
        BY <2>3, <4>1
      <4> QED BY <4>1, <4>2
    <3> QED BY <3>1, <3>2
  <2> HIDE DEF q
  <2>6. checkers = q
    <3>1. \A i \in 1 .. (q - 1) : ~Same(json[i], Key("move_checkers"))
      BY <2>4, <2>5
    <3>2. Same(json[q], Key("move_checkers"))
      BY <2>4
    <3> QED BY <2>4, <3>1, <3>2, FoundAt
  <2>7. at = 0 \/ at > q
    <3>1. \A i \in 1 .. Len(json) : i <= q => ~Same(json[i], Key(key))
      BY <2>4, <2>5
    <3>2. q \in Nat
      BY <2>4
    <3> QED BY <2>4, <3>1, <3>2, NotFoundUpTo
  <2> HIDE DEF at, checkers
  <2>8. at = 0 \/ (checkers # 0 /\ at > checkers)
    BY <2>4, <2>6, <2>7
  <2>9. OverrideConfigValue(json, key, n) = json
    BY <1>3, <2>8
  <2> QED BY <2>1, <2>9 DEF json, c
<1>8. n <= 0 \/ (n > 0 /\ v > 0) \/ (n > 0 /\ v = 0)
  OBVIOUS
<1> QED BY <1>5, <1>6, <1>7, <1>8

-----------------------------------------------------------------------------
(***************************************************************************)
(* The limit of the axes, within the one checker that has their name.       *)
(***************************************************************************)

\* CloseOf, for any two brackets.
CloseBetween(json, open, opening, closing) ==
    LET Count(bracket, i) ==
            Cardinality({j \in open .. i : json[j].is = "mark" /\ json[j].text = bracket})
        closes == {i \in open .. Len(json) : Count(opening, i) = Count(closing, i)}
    IN  IF closes = {} THEN 0 ELSE Min(closes)

\* An object without objects of its own, w long.
Encloses(json, o, w, opening, closing) ==
    /\ Len(json) \in Nat /\ o \in Nat /\ w \in Nat /\ w # 0 /\ o + w <= Len(json)
    /\ Same(json[o], opening) /\ Same(json[o + w], closing)
    /\ \A i \in (o + 1) .. (o + w - 1) : ~Same(json[i], opening) /\ ~Same(json[i], closing)

\* The bracket that closes it.
LEMMA CloseIs ==
    ASSUME NEW json, NEW o, NEW w, NEW opening, NEW closing, opening # closing,
           Encloses(json, o, w, Mark(opening), Mark(closing))
    PROVE  CloseBetween(json, o, opening, closing) = o + w
<1>0. /\ Len(json) \in Nat /\ o \in Nat /\ w \in Nat /\ w # 0 /\ o + w <= Len(json)
      /\ Same(json[o], Mark(opening)) /\ Same(json[o + w], Mark(closing))
      /\ \A i \in (o + 1) .. (o + w - 1) :
            ~Same(json[i], Mark(opening)) /\ ~Same(json[i], Mark(closing))
  BY DEF Encloses
<1> USE <1>0
<1> DEFINE Are(bracket, i) ==
               {j \in o .. i : json[j].is = "mark" /\ json[j].text = bracket}
           closes == {i \in o .. Len(json) :
                         Cardinality(Are(opening, i)) = Cardinality(Are(closing, i))}
<1>1. CloseBetween(json, o, opening, closing) = IF closes = {} THEN 0 ELSE Min(closes)
  BY DEF CloseBetween
<1> DEFINE IsMark(j, bracket) == json[j].is = "mark" /\ json[j].text = bracket
<1>a. \A b, t : Same(t, Mark(b)) <=> t.is = "mark" /\ t.text = b
  BY DEF Same, Mark
<1>b. /\ IsMark(o, opening) /\ ~IsMark(o, closing)
      /\ ~IsMark(o + w, opening) /\ IsMark(o + w, closing)
      /\ \A i \in (o + 1) .. (o + w - 1) : ~IsMark(i, opening) /\ ~IsMark(i, closing)
  BY <1>a
<1> HIDE DEF IsMark
<1>c. \A j \in o .. (o + w) : /\ IsMark(j, opening) <=> j = o
                              /\ IsMark(j, closing) <=> j = o + w
  BY <1>b
<1>d. \A b, i : Are(b, i) = {j \in o .. i : IsMark(j, b)}
  BY DEF IsMark
<1> HIDE DEF Are
<1>2. ASSUME NEW i \in o .. (o + w) PROVE Are(opening, i) = {o}
  <2>1. \A j \in o .. i : j \in o .. (o + w)
    OBVIOUS
  <2>2. o \in o .. i
    OBVIOUS
  <2> DEFINE D == o .. i
  <2>3. Are(opening, i) = {j \in D : IsMark(j, opening)}
    BY <1>d
  <2>4. \A j \in D : IsMark(j, opening) <=> j = o
    BY <1>c, <2>1
  <2> HIDE DEF D
  <2> QED BY <2>2, <2>3, <2>4 DEF D
<1>3. ASSUME NEW i \in o .. (o + w - 1) PROVE Are(closing, i) = {}
  <2>1. \A j \in o .. i : j \in o .. (o + w) /\ j # o + w
    OBVIOUS
  <2> QED BY <1>c, <1>d, <2>1
<1>4. Are(closing, o + w) = {o + w}
  <2>1. o + w \in o .. (o + w)
    OBVIOUS
  <2> DEFINE D == o .. (o + w)
             e == o + w
  <2>2. Are(closing, e) = {j \in D : IsMark(j, closing)}
    BY <1>d
  <2>3. (\A j \in D : IsMark(j, closing) <=> j = e) /\ e \in D
    BY <1>c, <2>1
  <2> HIDE DEF D, e
  <2>4. Are(closing, e) = {e}
    BY <2>2, <2>3
  <2> QED BY <2>4 DEF e
<1>5. Cardinality({}) = 0 /\ \A x : Cardinality({x}) = 1
  <2>1. Cardinality({}) = 0
    BY FS_EmptySet
  <2>2. ASSUME NEW x PROVE Cardinality({x}) = 1
    BY FS_Singleton
  <2> QED BY Zenon, <2>1, <2>2
<1>6. o + w \in closes
  <2>1. Cardinality(Are(opening, o + w)) = 1 /\ Cardinality(Are(closing, o + w)) = 1
    <3>1. o + w \in o .. (o + w)
      OBVIOUS
    <3>2. Are(opening, o + w) = {o}
      BY <1>2, <3>1
    <3> QED BY <1>4, <1>5, <3>2
  <2>2. o + w \in o .. Len(json)
    OBVIOUS
  <2> QED BY <2>1, <2>2
<1>7. ASSUME NEW i \in closes PROVE o + w <= i
  <2>1. SUFFICES ASSUME i \in o .. (o + w - 1) PROVE FALSE
    OBVIOUS
  <2>2. Cardinality(Are(opening, i)) = 1 /\ Cardinality(Are(closing, i)) = 0
    <3>1. i \in o .. (o + w)
      BY <2>1
    <3>2. Are(opening, i) = {o} /\ Are(closing, i) = {}
      BY <1>2, <1>3, <2>1, <3>1
    <3> QED BY <1>5, <3>2
  <2>3. Cardinality(Are(opening, i)) = Cardinality(Are(closing, i))
    OBVIOUS
  <2> QED BY <2>2, <2>3
<1>8. closes \in SUBSET Int
  OBVIOUS
<1> HIDE DEF closes
<1>9. Min(closes) = o + w
  BY <1>6, <1>7, <1>8, MinIs
<1> QED BY <1>1, <1>6, <1>9

OpeningText == "{"
ClosingText == "}"
Opening == Mark(OpeningText)
Closing == Mark(ClosingText)

\* A checker in the text, of a name and a limit.
CheckerText(name, v) ==
    <<Opening, Key(name), Opening>> \o Entry("max_velocity", v) \o <<Closing, Closing>>

LEMMA ThreeAndTwo ==
    ASSUME NEW T, NEW o \in T, NEW k \in T, NEW p \in T, NEW m \in T, NEW n \in T
    PROVE  <<o, k, p>> \o <<m, n>> = <<o, k, p, m, n>>
<1> DEFINE s == <<o, k, p>>
           t == <<m, n>>
           u == <<o, k, p, m, n>>
           j == s \o t
<1>1. s \in Seq(T) /\ Len(s) = 3 /\ s[1] = o /\ s[2] = k /\ s[3] = p
  OBVIOUS
<1>2. t \in Seq(T) /\ Len(t) = 2 /\ t[1] = m /\ t[2] = n
  OBVIOUS
<1>3. u \in Seq(T) /\ Len(u) = 5
      /\ u[1] = o /\ u[2] = k /\ u[3] = p /\ u[4] = m /\ u[5] = n
  OBVIOUS
<1> HIDE DEF s, t, u
<1>4. /\ j \in Seq(T) /\ Len(j) = Len(s) + Len(t)
      /\ \A i \in 1 .. Len(s) + Len(t) : j[i] = IF i <= Len(s) THEN s[i] ELSE t[i - Len(s)]
  BY <1>1, <1>2, ConcatProperties
<1> HIDE DEF j
<1>5. \A i \in 1 .. 5 : i = 1 \/ i = 2 \/ i = 3 \/ i = 4 \/ i = 5
  OBVIOUS
<1>6. Len(j) = 5 /\ \A i \in 1 .. 5 : j[i] = IF i <= 3 THEN s[i] ELSE t[i - 3]
  BY <1>1, <1>2, <1>4
<1>7. j[1] = o /\ j[2] = k /\ j[3] = p /\ j[4] = m /\ j[5] = n
  BY <1>1, <1>2, <1>6
<1>8. \A i \in 1 .. Len(j) : j[i] = u[i]
  BY <1>3, <1>5, <1>6, <1>7
<1>9. j = u
  BY <1>3, <1>4, <1>6, <1>8, SeqEqual
<1> QED BY <1>9 DEF j, s, t, u

LEMMA FiveAndTwo ==
    ASSUME NEW T, NEW o \in T, NEW k \in T, NEW p \in T, NEW m \in T, NEW n \in T,
           NEW q \in T, NEW r \in T
    PROVE  <<o, k, p, m, n>> \o <<q, r>> = <<o, k, p, m, n, q, r>>
<1> DEFINE s == <<o, k, p, m, n>>
           t == <<q, r>>
           u == <<o, k, p, m, n, q, r>>
           j == s \o t
<1>1. s \in Seq(T) /\ Len(s) = 5
      /\ s[1] = o /\ s[2] = k /\ s[3] = p /\ s[4] = m /\ s[5] = n
  OBVIOUS
<1>2. t \in Seq(T) /\ Len(t) = 2 /\ t[1] = q /\ t[2] = r
  OBVIOUS
<1>3. u \in Seq(T) /\ Len(u) = 7
      /\ u[1] = o /\ u[2] = k /\ u[3] = p /\ u[4] = m /\ u[5] = n /\ u[6] = q /\ u[7] = r
  OBVIOUS
<1> HIDE DEF s, t, u
<1>4. /\ j \in Seq(T) /\ Len(j) = Len(s) + Len(t)
      /\ \A i \in 1 .. Len(s) + Len(t) : j[i] = IF i <= Len(s) THEN s[i] ELSE t[i - Len(s)]
  BY <1>1, <1>2, ConcatProperties
<1> HIDE DEF j
<1>5. \A i \in 1 .. 7 : i = 1 \/ i = 2 \/ i = 3 \/ i = 4 \/ i = 5 \/ i = 6 \/ i = 7
  OBVIOUS
<1>6. Len(j) = 7 /\ \A i \in 1 .. 7 : j[i] = IF i <= 5 THEN s[i] ELSE t[i - 5]
  BY <1>1, <1>2, <1>4
<1>7. /\ j[1] = o /\ j[2] = k /\ j[3] = p /\ j[4] = m /\ j[5] = n
      /\ j[6] = q /\ j[7] = r
  BY <1>1, <1>2, <1>6
<1>8. \A i \in 1 .. Len(j) : j[i] = u[i]
  BY <1>3, <1>5, <1>6, <1>7
<1>9. j = u
  BY <1>3, <1>4, <1>6, <1>8, SeqEqual
<1> QED BY <1>9 DEF j, s, t, u

LEMMA TuplesJoin ==
    ASSUME NEW T, NEW o \in T, NEW k \in T, NEW m \in T, NEW n \in T, NEW q \in T
    PROVE  /\ <<o, k, o>> \o <<>> \o <<q, q>> = <<o, k, o, q, q>>
           /\ <<o, k, o>> \o <<m, n>> \o <<q, q>> = <<o, k, o, m, n, q, q>>
<1>1. <<o, k, o>> \o <<>> = <<o, k, o>>
  <2> DEFINE s == <<o, k, o>>
  <2>1. s \in Seq(T)
    OBVIOUS
  <2> HIDE DEF s
  <2>2. s \o <<>> = s
    BY <2>1, ConcatEmptySeq
  <2> QED BY <2>2 DEF s
<1>2. <<o, k, o>> \o <<m, n>> = <<o, k, o, m, n>>
  BY ThreeAndTwo
<1>3. <<o, k, o>> \o <<q, q>> = <<o, k, o, q, q>>
  BY ThreeAndTwo
<1>4. <<o, k, o, m, n>> \o <<q, q>> = <<o, k, o, m, n, q, q>>
  BY FiveAndTwo
<1> QED BY <1>1, <1>2, <1>3, <1>4, Zenon

LEMMA BracketsAre ==
    Opening \in Tok /\ Closing \in Tok
BY Zenon DEF Tok, Opening, Closing, OpeningText, ClosingText

LEMMA CheckerIs ==
    ASSUME NEW name \in Names, NEW v \in Nat
    PROVE  LET open == Opening
               close == Closing
           IN  /\ CheckerText(name, v) \in Seq(Tok)
               /\ v = 0 => CheckerText(name, v) = <<open, Key(name), open, close, close>>
               /\ v # 0 => CheckerText(name, v) =
                             <<open, Key(name), open, Key("max_velocity"), Num(v), close, close>>
<1> DEFINE k == Key(name)
           m == Key("max_velocity")
           n == Num(v)
           e == Entry("max_velocity", v)
           open == Opening
           close == Closing
<1>1. open \in Tok /\ close \in Tok
  BY BracketsAre
<1>2. k \in Tok /\ m \in Tok /\ n \in Tok
  <2>1. "max_velocity" \in Names
    BY DEF Names
  <2> QED BY <2>1, KeysAndNumbers
<1>3. /\ v = 0 => e = <<>>
      /\ v # 0 => e = <<m, n>>
  <2>1. "max_velocity" \in Names
    BY DEF Names
  <2> QED BY Zenon, <2>1, EntryIs
<1>4. CheckerText(name, v) = <<open, k, open>> \o e \o <<close, close>>
  BY DEF CheckerText
<1> HIDE DEF k, m, n, e, open, close
<1>5. CASE v = 0
  <2>1. <<open, k, open>> \o <<>> \o <<close, close>> = <<open, k, open, close, close>>
    BY <1>1, <1>2, TuplesJoin
  <2>2. <<open, k, open, close, close>> \in Seq(Tok)
    BY <1>1, <1>2
  <2>3. CheckerText(name, v) = <<open, k, open, close, close>>
    BY <1>3, <1>4, <1>5, <2>1
  <2> QED BY <1>5, <2>2, <2>3 DEF k, open, close
<1>6. CASE v # 0
  <2>1. <<open, k, open>> \o <<m, n>> \o <<close, close>>
          = <<open, k, open, m, n, close, close>>
    BY <1>1, <1>2, TuplesJoin
  <2>2. <<open, k, open, m, n, close, close>> \in Seq(Tok)
    BY <1>1, <1>2
  <2>3. CheckerText(name, v) = <<open, k, open, m, n, close, close>>
    BY <1>3, <1>4, <1>6, <2>1
  <2> QED BY <1>6, <2>2, <2>3 DEF k, m, n, open, close
<1> QED BY <1>5, <1>6

LEMMA CloseOfIs ==
    ASSUME NEW json, NEW o, NEW w, Encloses(json, o, w, Opening, Closing)
    PROVE  CloseOf(json, o) = o + w
<1>1. OpeningText # ClosingText
  BY Zenon DEF OpeningText, ClosingText
<1>2. CloseBetween(json, o, OpeningText, ClosingText) = o + w
  BY <1>1, CloseIs DEF Opening, Closing
<1>3. CloseOf(json, o) = CloseBetween(json, o, OpeningText, ClosingText)
  BY Zenon DEF CloseOf, CloseBetween, OpeningText, ClosingText
<1> QED BY <1>2, <1>3

LEMMA KindsDiffer ==
    /\ \A name, key : name # key => ~Same(Key(name), Key(key))
    /\ \A name : Same(Key(name), Key(name))
    /\ \A name, b : ~Same(Key(name), Mark(b)) /\ ~Same(Mark(b), Key(name))
    /\ \A n, b : ~Same(Num(n), Mark(b))
    /\ \A n, name : ~Same(Num(n), Key(name))
    /\ \A b : Same(Mark(b), Mark(b))
    /\ \A b, c : b # c => ~Same(Mark(b), Mark(c))
<1>1. \A name, key : name # key => ~Same(Key(name), Key(key))
  BY DEF Same, Key
<1>2. \A name : Same(Key(name), Key(name))
  BY DEF Same, Key
<1>3. \A name, b : ~Same(Key(name), Mark(b)) /\ ~Same(Mark(b), Key(name))
  BY DEF Same, Key, Mark
<1>4. \A n, b : ~Same(Num(n), Mark(b))
  BY DEF Same, Num, Mark
<1>5. \A n, name : ~Same(Num(n), Key(name))
  BY DEF Same, Num, Key
<1>6. \A b : Same(Mark(b), Mark(b))
  BY DEF Same
<1>7. \A b, c : b # c => ~Same(Mark(b), Mark(c))
  BY DEF Same, Mark
<1> QED BY <1>1, <1>2, <1>3, <1>4, <1>5, <1>6, <1>7

LEMMA BracketsDiffer ==
    /\ Same(Opening, Opening) /\ ~Same(Opening, Closing)
    /\ Same(Closing, Closing) /\ ~Same(Closing, Opening)
    /\ \A name : /\ ~Same(Key(name), Opening) /\ ~Same(Key(name), Closing)
                 /\ ~Same(Opening, Key(name)) /\ ~Same(Closing, Key(name))
    /\ \A n : ~Same(Num(n), Opening) /\ ~Same(Num(n), Closing)
<1>1. OpeningText # ClosingText
  BY Zenon DEF OpeningText, ClosingText
<1> QED BY <1>1, KindsDiffer DEF Opening, Closing

\* OverrideNestedValue, with the places it looks for.
LEMMA NestedIs ==
    ASSUME NEW json, NEW axis, NEW key, NEW n
    PROVE  LET sectionAt == FirstFrom(json, Key(axis), 1)
               open == FirstFrom(json, Opening, sectionAt)
               close == CloseOf(json, open)
               at == FirstFrom(json, Key(key), open)
           IN  OverrideNestedValue(json, axis, key, n) =
                 IF n <= 0 \/ sectionAt = 0 \/ open = 0 THEN json
                 ELSE IF close = 0 \/ at = 0 \/ at > close THEN json
                 ELSE EditedAt(json, at + 1, Num(n))
BY Zenon DEF OverrideNestedValue, Opening, OpeningText, EditedAt

\* The front of the section that is looked for.
SectionStarts(json, L, axis) ==
    /\ \A i \in 1 .. L : ~Same(json[i], Key(axis))
    /\ json[L + 1] = Opening /\ json[L + 2] = Key(axis) /\ json[L + 3] = Opening

LEMMA SectionIsFound ==
    ASSUME NEW json, Len(json) \in Nat, NEW L \in Nat, L + 3 <= Len(json), NEW axis,
           SectionStarts(json, L, axis)
    PROVE  /\ FirstFrom(json, Key(axis), 1) = L + 2
           /\ FirstFrom(json, Opening, L + 2) = L + 3
<1>1. FirstFrom(json, Key(axis), 1) = L + 2
  <2> DEFINE p == L + 2
  <2>1. p \in 1 .. Len(json) /\ Same(json[p], Key(axis))
    BY KindsDiffer DEF SectionStarts
  <2>2. \A i \in 1 .. (p - 1) : ~Same(json[i], Key(axis))
    <3> SUFFICES ASSUME NEW i \in 1 .. (p - 1) PROVE ~Same(json[i], Key(axis))
      OBVIOUS
    <3>1. CASE i \in 1 .. L
      BY <3>1 DEF SectionStarts
    <3>2. CASE i = L + 1
      BY <3>2, BracketsDiffer DEF SectionStarts
    <3> QED BY <3>1, <3>2
  <2> HIDE DEF p
  <2>3. FirstFrom(json, Key(axis), 1) = p
    BY <2>1, <2>2, FoundAt
  <2> QED BY <2>3 DEF p
<1>2. FirstFrom(json, Opening, L + 2) = L + 3
  <2> DEFINE p == L + 3
             o == L + 2
  <2>1. p \in o .. Len(json) /\ o \in Nat /\ Same(json[p], Opening)
    BY BracketsDiffer DEF SectionStarts
  <2>2. \A i \in o .. (p - 1) : ~Same(json[i], Opening)
    <3>1. \A i \in o .. (p - 1) : i = L + 2
      OBVIOUS
    <3>2. ~Same(json[L + 2], Opening)
      BY BracketsDiffer DEF SectionStarts
    <3> QED BY <3>1, <3>2
  <2> HIDE DEF p, o
  <2>3. FirstFrom(json, Opening, o) = p
    BY <2>1, <2>2, FoundAt
  <2> QED BY <2>3 DEF p, o
<1> QED BY <1>1, <1>2

\* A limit that is there is written over.
LEMMA NestedIsFound ==
    ASSUME NEW json, Len(json) \in Nat, NEW L \in Nat, L + 7 <= Len(json),
           NEW axis, NEW key, NEW v, NEW n \in Int, n > 0,
           SectionStarts(json, L, axis),
           json[L + 4] = Key(key), json[L + 5] = Num(v), json[L + 6] = Closing
    PROVE  OverrideNestedValue(json, axis, key, n) = EditedAt(json, L + 5, Num(n))
<1> DEFINE o == L + 3
           close == CloseOf(json, o)
           at == FirstFrom(json, Key(key), o)
<1>1. /\ FirstFrom(json, Key(axis), 1) = L + 2
      /\ FirstFrom(json, Opening, L + 2) = o
  BY SectionIsFound
<1>2. close = o + 3
  <2>1. o \in Nat /\ o + 3 <= Len(json) /\ Same(json[o], Opening)
    BY BracketsDiffer DEF SectionStarts
  <2>2. Same(json[o + 3], Closing)
    <3>1. o + 3 = L + 6
      OBVIOUS
    <3> QED BY <3>1, BracketsDiffer
  <2>3. \A i \in (o + 1) .. (o + 3 - 1) : ~Same(json[i], Opening) /\ ~Same(json[i], Closing)
    <3>1. \A i \in (o + 1) .. (o + 3 - 1) : i = L + 4 \/ i = L + 5
      OBVIOUS
    <3>2. /\ ~Same(json[L + 4], Opening) /\ ~Same(json[L + 4], Closing)
          /\ ~Same(json[L + 5], Opening) /\ ~Same(json[L + 5], Closing)
      BY BracketsDiffer
    <3> QED BY <3>1, <3>2
  <2> HIDE DEF o
  <2>4. Encloses(json, o, 3, Opening, Closing)
    BY <2>1, <2>2, <2>3 DEF Encloses
  <2> QED BY <2>4, CloseOfIs
<1>3. at = o + 1
  <2> DEFINE p == o + 1
  <2>1. p \in o .. Len(json) /\ o \in Nat
    OBVIOUS
  <2>2. Same(json[p], Key(key))
    <3>1. p = L + 4
      OBVIOUS
    <3> QED BY <3>1, KindsDiffer
  <2>3. \A i \in o .. (p - 1) : ~Same(json[i], Key(key))
    <3>1. \A i \in o .. (p - 1) : i = L + 3
      OBVIOUS
    <3>2. ~Same(json[L + 3], Key(key))
      BY BracketsDiffer DEF SectionStarts
    <3> QED BY <3>1, <3>2
  <2> HIDE DEF p, o
  <2>4. at = p
    BY <2>1, <2>2, <2>3, FoundAt
  <2> QED BY <2>4 DEF p
<1> HIDE DEF close, at
<1>4. OverrideNestedValue(json, axis, key, n) =
        IF n <= 0 \/ L + 2 = 0 \/ o = 0 THEN json
        ELSE IF close = 0 \/ at = 0 \/ at > close THEN json
        ELSE EditedAt(json, at + 1, Num(n))
  <2> HIDE DEF o
  <2> QED BY <1>1, NestedIs, Zenon DEF close, at
<1>5. ~(n <= 0) /\ L + 2 # 0 /\ o # 0 /\ close # 0 /\ at # 0 /\ ~(at > close) /\ at + 1 = L + 5
  BY <1>2, <1>3
<1> HIDE DEF o
<1> QED BY <1>4, <1>5

\* Where there is none, what comes behind the section is left alone.
LEMMA NestedIsMissing ==
    ASSUME NEW json, Len(json) \in Nat, NEW L \in Nat, L + 5 <= Len(json),
           NEW axis, NEW key, NEW n \in Int, n > 0,
           SectionStarts(json, L, axis), json[L + 4] = Closing
    PROVE  OverrideNestedValue(json, axis, key, n) = json
<1> DEFINE o == L + 3
           close == CloseOf(json, o)
           at == FirstFrom(json, Key(key), o)
<1>1. /\ FirstFrom(json, Key(axis), 1) = L + 2
      /\ FirstFrom(json, Opening, L + 2) = o
  BY SectionIsFound
<1>2. close = o + 1
  <2>1. o \in Nat /\ o + 1 <= Len(json) /\ Same(json[o], Opening)
    BY BracketsDiffer DEF SectionStarts
  <2>2. Same(json[o + 1], Closing)
    <3>1. o + 1 = L + 4
      OBVIOUS
    <3> QED BY <3>1, BracketsDiffer
  <2>3. \A i \in (o + 1) .. (o + 1 - 1) : ~Same(json[i], Opening) /\ ~Same(json[i], Closing)
    OBVIOUS
  <2> HIDE DEF o
  <2>4. Encloses(json, o, 1, Opening, Closing)
    BY <2>1, <2>2, <2>3 DEF Encloses
  <2> QED BY <2>4, CloseOfIs
<1>3. at = 0 \/ (at \in Nat /\ at > o + 1)
  <2>1. \A i \in o .. Len(json) : i <= o + 1 => i = L + 3 \/ i = L + 4
    OBVIOUS
  <2>2. ~Same(json[L + 3], Key(key)) /\ ~Same(json[L + 4], Key(key))
    BY BracketsDiffer DEF SectionStarts
  <2>3. \A i \in o .. Len(json) : i <= o + 1 => ~Same(json[i], Key(key))
    BY <2>1, <2>2
  <2>4. o \in Nat /\ o >= 1 /\ o + 1 \in Nat
    OBVIOUS
  <2> HIDE DEF o
  <2> QED BY <2>3, <2>4, NotFoundUpTo
<1> HIDE DEF close, at
<1>4. OverrideNestedValue(json, axis, key, n) =
        IF n <= 0 \/ L + 2 = 0 \/ o = 0 THEN json
        ELSE IF close = 0 \/ at = 0 \/ at > close THEN json
        ELSE EditedAt(json, at + 1, Num(n))
  <2> HIDE DEF o
  <2> QED BY <1>1, NestedIs, Zenon DEF close, at
<1>5. at = 0 \/ at > close
  BY <1>2, <1>3
<1> HIDE DEF o
<1> QED BY <1>4, <1>5

LEMMA NestedIsLeft ==
    ASSUME NEW json, NEW axis, NEW key, NEW n,
           n <= 0 \/ FirstFrom(json, Key(axis), 1) = 0
    PROVE  OverrideNestedValue(json, axis, key, n) = json
<1> DEFINE sectionAt == FirstFrom(json, Key(axis), 1)
           open == FirstFrom(json, Opening, sectionAt)
           close == CloseOf(json, open)
           at == FirstFrom(json, Key(key), open)
<1>1. OverrideNestedValue(json, axis, key, n) =
        IF n <= 0 \/ sectionAt = 0 \/ open = 0 THEN json
        ELSE IF close = 0 \/ at = 0 \/ at > close THEN json
        ELSE EditedAt(json, at + 1, Num(n))
  BY NestedIs
<1> HIDE DEF open, close, at
<1> QED BY <1>1

LEMMA AbsentIsNotFound ==
    ASSUME NEW json, Len(json) \in Nat, NEW token, Absent(json, token)
    PROVE  FirstFrom(json, token, 1) = 0
<1> DEFINE at == {i \in 1 .. Len(json) : json[i].is = token.is /\ json[i].text = token.text}
<1>1. at = {}
  BY DEF Absent, Same
<1> QED BY <1>1 DEF FirstFrom

\* The limit of the axes is written where it stands, into the checker that has
\* their name.
LEMMA AxisIsWritten ==
    ASSUME NEW a \in Seq(Tok), NEW b \in Seq(Tok), NEW axis \in Names, NEW v \in Nat,
           NEW n \in Int, Absent(a, Key(axis))
    PROVE  OverrideNestedValue(Joined(a, CheckerText(axis, v), b), axis, "max_velocity", n)
             = Joined(a, CheckerText(axis, Written(n, v)), b)
<1> DEFINE c == CheckerText(axis, v)
           json == Joined(a, c, b)
           L == Len(a)
           key == "max_velocity"
<1>1. /\ c \in Seq(Tok)
      /\ v = 0 => c = <<Opening, Key(axis), Opening, Closing, Closing>>
      /\ v # 0 => c = <<Opening, Key(axis), Opening, Key(key), Num(v), Closing, Closing>>
  BY CheckerIs
<1> HIDE DEF c
<1>2. CutInto(json, Tok, a, c, b)
  BY <1>1, IsCut DEF Joined
<1> HIDE DEF json, key
<1>3. /\ L \in Nat /\ Len(json) \in Nat /\ Len(c) \in Nat /\ L + Len(c) <= Len(json)
      /\ \A i \in 1 .. L : json[i] = a[i]
      /\ \A i \in 1 .. Len(c) : json[L + i] = c[i]
  BY <1>2 DEF CutInto
<1> HIDE DEF L
<1>4. \A i \in 1 .. L : ~Same(json[i], Key(axis))
  BY <1>3 DEF Absent, L
<1>5. CASE n <= 0
  <2>1. Written(n, v) = v
    BY <1>5 DEF Written
  <2>2. OverrideNestedValue(json, axis, key, n) = json
    BY <1>5, NestedIsLeft
  <2> QED BY <2>1, <2>2 DEF json, c, key
<1>6. CASE n > 0 /\ v = 0
  <2>1. Written(n, v) = v
    BY <1>6 DEF Written
  <2>2. Len(c) = 5 /\ c[1] = Opening /\ c[2] = Key(axis) /\ c[3] = Opening /\ c[4] = Closing
    BY <1>1, <1>6
  <2>3. /\ json[L + 1] = Opening /\ json[L + 2] = Key(axis)
        /\ json[L + 3] = Opening /\ json[L + 4] = Closing
    BY <1>3, <2>2
  <2>4. SectionStarts(json, L, axis)
    BY <1>4, <2>3 DEF SectionStarts
  <2>5. L + 5 <= Len(json)
    BY <1>3, <2>2
  <2>6. OverrideNestedValue(json, axis, key, n) = json
    BY <1>3, <1>6, <2>3, <2>4, <2>5, NestedIsMissing
  <2> QED BY <2>1, <2>6 DEF json, c, key
<1>7. CASE n > 0 /\ v # 0
  <2> DEFINE d == CheckerText(axis, Written(n, v))
             x == Num(n)
  <2>1. Written(n, v) = n /\ n \in Nat /\ n # 0
    BY <1>7 DEF Written
  <2>2. d = <<Opening, Key(axis), Opening, Key(key), x, Closing, Closing>>
    BY <2>1, CheckerIs DEF key
  <2>3. x \in Tok
    BY KeysAndNumbers
  <2> HIDE DEF d, x
  <2>4. /\ Len(c) = 7 /\ c[1] = Opening /\ c[2] = Key(axis) /\ c[3] = Opening
        /\ c[4] = Key(key) /\ c[5] = Num(v) /\ c[6] = Closing
    BY <1>1, <1>7
  <2>5. /\ json[L + 1] = Opening /\ json[L + 2] = Key(axis) /\ json[L + 3] = Opening
        /\ json[L + 4] = Key(key) /\ json[L + 5] = Num(v) /\ json[L + 6] = Closing
    <3>1. \A i \in 1 .. 7 : json[L + i] = c[i]
      BY <1>3, <2>4
    <3>2. /\ json[L + 1] = c[1] /\ json[L + 2] = c[2] /\ json[L + 3] = c[3]
          /\ json[L + 4] = c[4] /\ json[L + 5] = c[5] /\ json[L + 6] = c[6]
      BY <3>1
    <3> QED BY <2>4, <3>2, Zenon
  <2>6. SectionStarts(json, L, axis)
    BY <1>4, <2>5 DEF SectionStarts
  <2>7. L + 7 <= Len(json)
    BY <1>3, <2>4
  <2>8. OverrideNestedValue(json, axis, key, n) = EditedAt(json, L + 5, x)
    <3>1. L \in Nat /\ Len(json) \in Nat /\ n > 0
      BY <1>3, <1>7
    <3> QED BY <2>5, <2>6, <2>7, <3>1, NestedIsFound DEF x
  <2>9. EditedAt(json, L + 5, x) = Joined(a, EditedAt(c, 5, x), b)
    <3> DEFINE q == L + 5
    <3>1. 5 \in 1 .. Len(c)
      BY <2>4
    <3>2. q = Len(a) + 5
      BY DEF L
    <3> HIDE DEF q
    <3>3. EditedAt(Joined(a, c, b), q, x) = Joined(a, EditedAt(c, 5, x), b)
      BY <1>1, <2>3, <3>1, <3>2, EditInPart
    <3> QED BY <3>3 DEF q, json
  <2>10. EditedAt(c, 5, x) = d
    <3> DEFINE o == Opening
               k == Key(axis)
               m == Key(key)
               y == Num(v)
               z == Closing
    <3>1. c = <<o, k, o, m, y, z, z>> /\ d = <<o, k, o, m, x, z, z>>
      BY <1>1, <1>7, <2>2
    <3> HIDE DEF o, k, m, y, z
    <3> QED BY <3>1 DEF EditedAt
  <2> QED BY <2>8, <2>9, <2>10 DEF d, json, c, key
<1> QED BY <1>5, <1>6, <1>7

-----------------------------------------------------------------------------
(***************************************************************************)
(* The whole text: two limits, the checkers, and what closes them.          *)
(***************************************************************************)

Lead == <<Opening>>
CheckersStart == <<Key("move_checkers"), Mark("[")>>
CheckersEnd == <<Mark("]"), Closing>>

TextOf(v, a, flat) ==
    Lead \o Entry("max_velocity", v) \o Entry("max_acceleration", a)
        \o CheckersStart \o flat \o CheckersEnd

LEMMA FrameIs ==
    /\ Lead \in Seq(Tok) /\ Len(Lead) = 1 /\ Lead[1] = Opening
    /\ CheckersStart \in Seq(Tok) /\ Len(CheckersStart) = 2
    /\ CheckersStart[1] = Key("move_checkers") /\ CheckersStart[2] = Mark("[")
    /\ CheckersEnd \in Seq(Tok)
    /\ "max_velocity" \in Names /\ "max_acceleration" \in Names
    /\ "move_checkers" \in Names /\ "axis_limiter" \in Names
<1> DEFINE k == Key("move_checkers")
           l == Mark("[")
           r == Mark("]")
<1>1. l \in Tok /\ r \in Tok
  BY Zenon DEF Tok
<1>2. /\ "max_velocity" \in Names /\ "max_acceleration" \in Names
      /\ "move_checkers" \in Names /\ "axis_limiter" \in Names
  BY DEF Names
<1>3. k \in Tok
  BY <1>2, KeysAndNumbers
<1>4. Opening \in Tok /\ Closing \in Tok
  BY BracketsAre
<1> HIDE DEF k, l, r
<1>5. Lead \in Seq(Tok) /\ Len(Lead) = 1 /\ Lead[1] = Opening
  BY <1>4 DEF Lead
<1>6. <<k, l>> \in Seq(Tok) /\ Len(<<k, l>>) = 2 /\ <<k, l>>[1] = k /\ <<k, l>>[2] = l
  BY <1>1, <1>3
<1>7. <<r, Closing>> \in Seq(Tok)
  BY <1>1, <1>4
<1> QED BY <1>2, <1>5, <1>6, <1>7, Zenon DEF CheckersStart, CheckersEnd, k, l, r

Cat(s, t) == s \o t

LEMMA CatIs ==
    ASSUME NEW T
    PROVE  /\ \A s, t \in Seq(T) : Cat(s, t) \in Seq(T)
           /\ \A s, t, u \in Seq(T) : Cat(Cat(s, t), u) = Cat(s, Cat(t, u))
           /\ \A s \in Seq(T) : Cat(<<>>, s) = s
<1>1. ASSUME NEW s \in Seq(T), NEW t \in Seq(T) PROVE Cat(s, t) \in Seq(T)
  BY ConcatProperties DEF Cat
<1>2. ASSUME NEW s \in Seq(T), NEW t \in Seq(T), NEW u \in Seq(T)
      PROVE  Cat(Cat(s, t), u) = Cat(s, Cat(t, u))
  BY ConcatAssociative DEF Cat
<1>3. ASSUME NEW s \in Seq(T) PROVE Cat(<<>>, s) = s
  BY ConcatEmptySeq DEF Cat
<1> QED BY <1>1, <1>2, <1>3

SixParts(o, d, e, m, f, t) == o \o d \o e \o m \o f \o t

\* The three places at which the text is cut.
Regrouped(T, o, d, e, m, f, t) ==
    /\ Cat(f, t) \in Seq(T) /\ Cat(o, d) \in Seq(T) /\ Cat(Cat(Cat(o, d), e), m) \in Seq(T)
    /\ SixParts(o, d, e, m, f, t) = Joined(o, d, Joined(e, m, Cat(f, t)))
    /\ SixParts(o, d, e, m, f, t) = Joined(Cat(o, d), e, Joined(<<>>, m, Cat(f, t)))
    /\ SixParts(o, d, e, m, f, t) = Joined(Cat(Cat(Cat(o, d), e), m), f, t)

LEMMA Regroup ==
    ASSUME NEW T, NEW o \in Seq(T), NEW d \in Seq(T), NEW e \in Seq(T), NEW m \in Seq(T),
           NEW f \in Seq(T), NEW t \in Seq(T)
    PROVE  Regrouped(T, o, d, e, m, f, t)
<1> DEFINE x == Cat(o, d)
           y == Cat(x, e)
           z == Cat(y, m)
           r == Cat(f, t)
           q == Cat(m, r)
<1>1. x \in Seq(T) /\ y \in Seq(T) /\ z \in Seq(T) /\ r \in Seq(T) /\ q \in Seq(T)
  BY CatIs
<1>2. Cat(Cat(z, f), t) = Cat(z, r)
  BY <1>1, CatIs
<1>3. Cat(z, r) = Cat(y, q)
  BY <1>1, CatIs
<1>4. Cat(y, q) = Cat(x, Cat(e, q))
  BY <1>1, CatIs
<1>5. Cat(e, q) = Cat(Cat(e, m), r)
  BY <1>1, CatIs
<1>6. Cat(Cat(<<>>, m), r) = q
  BY <1>1, CatIs
<1>7. /\ Cat(Cat(z, f), t) = Cat(x, Cat(Cat(e, m), r))
      /\ Cat(Cat(z, f), t) = Cat(y, Cat(Cat(<<>>, m), r))
  BY <1>2, <1>3, <1>4, <1>5, <1>6
<1> QED BY <1>1, <1>7, Zenon DEF Regrouped, Cat, Joined, SixParts

\* A limit of the top level, with nothing but other limits in front of the
\* checkers.
LEMMA LimitIsWritten ==
    ASSUME NEW a \in Seq(Tok), NEW e \in Seq(Tok), NEW r \in Seq(Tok),
           NEW key \in Names, key # "move_checkers", NEW v \in Nat, NEW n \in Int,
           Absent(a, Key(key)), Absent(a, Key("move_checkers")),
           Absent(e, Key(key)), Absent(e, Key("move_checkers"))
    PROVE  OverrideConfigValue(Joined(a, Entry(key, v), Joined(e, CheckersStart, r)), key, n)
             = Joined(a, Entry(key, Written(n, v)), Joined(e, CheckersStart, r))
<1> DEFINE b == Joined(e, CheckersStart, r)
           p == Len(e) + 1
<1>1. CutInto(b, Tok, e, CheckersStart, r)
  BY FrameIs, IsCut DEF Joined
<1> HIDE DEF b
<1>2. /\ b \in Seq(Tok) /\ Len(e) \in Nat /\ Len(r) \in Nat /\ Len(b) = Len(e) + 2 + Len(r)
      /\ \A i \in 1 .. Len(e) : b[i] = e[i]
      /\ b[Len(e) + 1] = Key("move_checkers")
  BY <1>1, FrameIs DEF CutInto
<1>3. p \in 1 .. Len(b)
  BY <1>2
<1>4. Same(b[p], Key("move_checkers")) /\ ~Same(b[p], Key(key))
  BY <1>2, KindsDiffer
<1>5. \A i \in 1 .. (p - 1) : ~Same(b[i], Key(key)) /\ ~Same(b[i], Key("move_checkers"))
  <2>1. \A i \in 1 .. (p - 1) : i \in 1 .. Len(e)
    BY <1>2
  <2> QED BY <1>2, <2>1 DEF Absent
<1>6. \A i \in 1 .. p : ~Same(b[i], Key(key))
  <2>1. p \in Nat
    BY <1>2
  <2> HIDE DEF p
  <2>2. \A i \in 1 .. p : i = p \/ i \in 1 .. (p - 1)
    BY <2>1
  <2> QED BY <1>4, <1>5, <2>2
<1> HIDE DEF p
<1>7. BeforeCheckers(b, key, p)
  BY <1>2, <1>3, <1>4, <1>5, <1>6 DEF BeforeCheckers
<1>8. OverrideConfigValue(a \o Entry(key, v) \o b, key, n) = a \o Entry(key, Written(n, v)) \o b
  BY <1>7, TopLevelIsWritten
<1> QED BY <1>8 DEF b, Joined

LEMMA FrameAbsent ==
    ASSUME NEW key
    PROVE  /\ Absent(Lead, Key(key)) /\ Absent(<<>>, Key(key))
           /\ key # "move_checkers" => Absent(CheckersStart, Key(key))
<1>1. Absent(Lead, Key(key))
  <2>1. \A i \in 1 .. 1 : i = 1
    OBVIOUS
  <2>2. ~Same(Lead[1], Key(key)) /\ Len(Lead) = 1
    BY FrameIs, BracketsDiffer
  <2> QED BY <2>1, <2>2 DEF Absent
<1>2. Absent(<<>>, Key(key))
  BY DEF Absent
<1>3. ASSUME key # "move_checkers" PROVE Absent(CheckersStart, Key(key))
  <2>1. \A i \in 1 .. 2 : i = 1 \/ i = 2
    OBVIOUS
  <2>2. /\ ~Same(CheckersStart[1], Key(key)) /\ ~Same(CheckersStart[2], Key(key))
        /\ Len(CheckersStart) = 2
    BY <1>3, FrameIs, KindsDiffer
  <2> QED BY <2>1, <2>2 DEF Absent
<1> QED BY <1>1, <1>2, <1>3

LEMMA KeyNamesDiffer ==
    /\ "max_velocity" # "max_acceleration" /\ "max_velocity" # "move_checkers"
    /\ "max_velocity" # "axis_limiter" /\ "max_acceleration" # "move_checkers"
    /\ "max_acceleration" # "axis_limiter" /\ "move_checkers" # "axis_limiter"
BY Zenon

\* Each limit of the top level goes into its own entry.
LEMMA LimitsAreWritten ==
    ASSUME NEW v \in Nat, NEW a \in Nat, NEW f \in Seq(Tok), NEW n \in Int
    PROVE  /\ OverrideConfigValue(TextOf(v, a, f), "max_velocity", n)
                = TextOf(Written(n, v), a, f)
           /\ OverrideConfigValue(TextOf(v, a, f), "max_acceleration", n)
                = TextOf(v, Written(n, a), f)
<1> DEFINE mv == "max_velocity"
           ma == "max_acceleration"
           mc == "move_checkers"
           r == f \o CheckersEnd
<1>1. /\ mv \in Names /\ ma \in Names /\ mc \in Names
      /\ mv # ma /\ mv # mc /\ ma # mc /\ ma # mv
      /\ Lead \in Seq(Tok) /\ CheckersStart \in Seq(Tok) /\ CheckersEnd \in Seq(Tok)
  BY FrameIs, KeyNamesDiffer
<1> HIDE DEF mv, ma, mc
<1>2. \A name \in Names, k \in Nat : Entry(name, k) \in Seq(Tok)
  BY EntryIs
<1>3. Written(n, v) \in Nat /\ Written(n, a) \in Nat
  BY DEF Written
<1>4. ASSUME NEW y \in Nat, NEW z \in Nat
      PROVE  /\ r \in Seq(Tok) /\ Lead \o Entry(mv, y) \in Seq(Tok)
             /\ TextOf(y, z, f) = Joined(Lead, Entry(mv, y), Joined(Entry(ma, z), CheckersStart, r))
             /\ TextOf(y, z, f)
                  = Joined(Lead \o Entry(mv, y), Entry(ma, z), Joined(<<>>, CheckersStart, r))
  <2> DEFINE d == Entry(mv, y)
             e == Entry(ma, z)
  <2>1. d \in Seq(Tok) /\ e \in Seq(Tok)
    BY <1>1, <1>2
  <2>2. TextOf(y, z, f) = SixParts(Lead, d, e, CheckersStart, f, CheckersEnd)
    BY Zenon DEF TextOf, SixParts, mv, ma
  <2> HIDE DEF d, e
  <2>3. Regrouped(Tok, Lead, d, e, CheckersStart, f, CheckersEnd)
    BY <1>1, <2>1, Regroup
  <2> QED BY <2>2, <2>3, Zenon DEF d, e, r, Cat, Regrouped
<1> HIDE DEF r
<1>5. OverrideConfigValue(TextOf(v, a, f), mv, n) = TextOf(Written(n, v), a, f)
  <2> DEFINE e == Entry(ma, a)
  <2>1. e \in Seq(Tok) /\ r \in Seq(Tok)
    BY <1>1, <1>2, <1>4
  <2>2. Absent(e, Key(mv)) /\ Absent(e, Key(mc))
    BY <1>1, EntryAbsent
  <2>3. Absent(Lead, Key(mv)) /\ Absent(Lead, Key(mc))
    BY FrameAbsent
  <2> HIDE DEF e
  <2>4. OverrideConfigValue(Joined(Lead, Entry(mv, v), Joined(e, CheckersStart, r)), mv, n)
          = Joined(Lead, Entry(mv, Written(n, v)), Joined(e, CheckersStart, r))
    BY <1>1, <2>1, <2>2, <2>3, LimitIsWritten DEF mc
  <2> QED BY <1>3, <1>4, <2>4 DEF e
<1>6. OverrideConfigValue(TextOf(v, a, f), ma, n) = TextOf(v, Written(n, a), f)
  <2> DEFINE x == Lead \o Entry(mv, v)
             e == <<>>
  <2>1. x \in Seq(Tok) /\ r \in Seq(Tok) /\ e \in Seq(Tok)
    BY <1>4
  <2>2. Absent(x, Key(ma)) /\ Absent(x, Key(mc))
    <3>1. /\ Absent(Entry(mv, v), Key(ma)) /\ Absent(Entry(mv, v), Key(mc))
          /\ Entry(mv, v) \in Seq(Tok)
      BY <1>1, <1>2, EntryAbsent
    <3>2. Absent(Lead, Key(ma)) /\ Absent(Lead, Key(mc))
      BY FrameAbsent
    <3> QED BY <1>1, <3>1, <3>2, JoinedAbsent
  <2>3. Absent(e, Key(ma)) /\ Absent(e, Key(mc))
    BY FrameAbsent
  <2> HIDE DEF x, e
  <2>4. OverrideConfigValue(Joined(x, Entry(ma, a), Joined(e, CheckersStart, r)), ma, n)
          = Joined(x, Entry(ma, Written(n, a)), Joined(e, CheckersStart, r))
    BY <1>1, <2>1, <2>2, <2>3, LimitIsWritten DEF mc
  <2> QED BY <1>3, <1>4, <2>4 DEF x, e
<1> QED BY <1>5, <1>6 DEF mv, ma

\* What stands in front of the checkers.
LEMMA LeadingIs ==
    ASSUME NEW v \in Nat, NEW a \in Nat, NEW f \in Seq(Tok)
    PROVE  \E z \in Seq(Tok) :
               /\ \A g \in Seq(Tok) : TextOf(v, a, g) = Joined(z, g, CheckersEnd)
               /\ Absent(z, Key("axis_limiter"))
<1> DEFINE d == Entry("max_velocity", v)
           e == Entry("max_acceleration", a)
           axis == Key("axis_limiter")
           z == Cat(Cat(Cat(Lead, d), e), CheckersStart)
<1>1. /\ d \in Seq(Tok) /\ e \in Seq(Tok)
      /\ Lead \in Seq(Tok) /\ CheckersStart \in Seq(Tok) /\ CheckersEnd \in Seq(Tok)
  BY FrameIs, EntryIs
<1>2. Absent(d, axis) /\ Absent(e, axis)
  BY FrameIs, KeyNamesDiffer, EntryAbsent
<1>3. Absent(Lead, axis) /\ Absent(CheckersStart, axis)
  BY FrameAbsent, KeyNamesDiffer
<1>4. ASSUME NEW g \in Seq(Tok) PROVE TextOf(v, a, g) = SixParts(Lead, d, e, CheckersStart, g, CheckersEnd)
  BY Zenon DEF TextOf, SixParts
<1> HIDE DEF d, e, axis
<1>5. ASSUME NEW g \in Seq(Tok)
      PROVE  z \in Seq(Tok)
             /\ SixParts(Lead, d, e, CheckersStart, g, CheckersEnd) = Joined(z, g, CheckersEnd)
  <2>1. Regrouped(Tok, Lead, d, e, CheckersStart, g, CheckersEnd)
    BY <1>1, Regroup
  <2> QED BY <2>1, Zenon DEF Regrouped
<1>6. Absent(z, axis)
  <2> DEFINE x == Cat(Lead, d)
             y == Cat(x, e)
  <2>1. x \in Seq(Tok) /\ Absent(x, axis)
    BY <1>1, <1>2, <1>3, ConcatProperties, JoinedAbsent DEF Cat
  <2> HIDE DEF x
  <2>2. y \in Seq(Tok) /\ Absent(y, axis)
    BY <1>1, <1>2, <2>1, ConcatProperties, JoinedAbsent DEF Cat
  <2> HIDE DEF y
  <2>3. Absent(Cat(y, CheckersStart), axis)
    BY <1>1, <1>3, <2>2, JoinedAbsent DEF Cat
  <2> QED BY <2>3 DEF x, y
<1>7. z \in Seq(Tok)
  BY <1>5
<1> HIDE DEF z
<1>8. \A g \in Seq(Tok) : TextOf(v, a, g) = Joined(z, g, CheckersEnd)
  BY <1>4, <1>5
<1> QED BY <1>6, <1>7, <1>8 DEF axis

\* The limit of the axes, in the text of all checkers.
LEMMA AxisInText ==
    ASSUME NEW v \in Nat, NEW a \in Nat, NEW x \in Seq(Tok), NEW b \in Seq(Tok),
           NEW w \in Nat, NEW n \in Int, Absent(x, Key("axis_limiter"))
    PROVE  OverrideNestedValue(TextOf(v, a, Joined(x, CheckerText("axis_limiter", w), b)),
                               "axis_limiter", "max_velocity", n)
             = TextOf(v, a, Joined(x, CheckerText("axis_limiter", Written(n, w)), b))
<1> DEFINE axis == "axis_limiter"
           y == Cat(b, CheckersEnd)
<1>1. axis \in Names /\ CheckersEnd \in Seq(Tok)
  BY FrameIs
<1>2. PICK z \in Seq(Tok) :
          /\ \A g \in Seq(Tok) : TextOf(v, a, g) = Joined(z, g, CheckersEnd)
          /\ Absent(z, Key(axis))
  BY LeadingIs
<1> HIDE DEF axis
<1>3. y \in Seq(Tok)
  BY <1>1, CatIs
<1> HIDE DEF y
<1>4. Cat(z, x) \in Seq(Tok) /\ Absent(Cat(z, x), Key(axis))
  <2>1. Absent(x, Key(axis))
    BY DEF axis
  <2> QED BY <1>2, <2>1, ConcatProperties, JoinedAbsent DEF Cat
<1>5. ASSUME NEW c \in Seq(Tok)
      PROVE  /\ Joined(x, c, b) \in Seq(Tok)
             /\ Joined(z, Joined(x, c, b), CheckersEnd) = Joined(Cat(z, x), c, y)
  <2> DEFINE xc == Cat(x, c)
             t == CheckersEnd
             xcb == Cat(xc, b)
             zx == Cat(z, x)
             zxc == Cat(zx, c)
  <2>1. /\ xc \in Seq(Tok) /\ xcb \in Seq(Tok) /\ t \in Seq(Tok)
        /\ zx \in Seq(Tok) /\ zxc \in Seq(Tok)
    BY <1>1, CatIs
  <2>2. Cat(z, xcb) = Cat(Cat(z, xc), b)
    BY <2>1, CatIs
  <2>3. Cat(z, xc) = zxc
    BY <2>1, CatIs
  <2>4. Cat(Cat(zxc, b), t) = Cat(zxc, Cat(b, t))
    BY <2>1, CatIs
  <2>5. Cat(Cat(z, xcb), t) = Cat(zxc, y)
    BY <2>2, <2>3, <2>4 DEF y
  <2> QED BY <2>1, <2>5, Zenon DEF Cat, Joined
<1>6. \A m \in Nat : CheckerText(axis, m) \in Seq(Tok)
  BY <1>1, CheckerIs
<1>7. Written(n, w) \in Nat
  BY DEF Written
<1>8. OverrideNestedValue(Joined(Cat(z, x), CheckerText(axis, w), y), axis, "max_velocity", n)
        = Joined(Cat(z, x), CheckerText(axis, Written(n, w)), y)
  BY <1>1, <1>3, <1>4, AxisIsWritten
<1>9. \A m \in Nat : TextOf(v, a, Joined(x, CheckerText(axis, m), b))
                       = Joined(Cat(z, x), CheckerText(axis, m), y)
  BY <1>2, <1>5, <1>6
<1> QED BY <1>7, <1>8, <1>9 DEF axis

LEMMA NoAxisInText ==
    ASSUME NEW v \in Nat, NEW a \in Nat, NEW f \in Seq(Tok), NEW n \in Int,
           Absent(f, Key("axis_limiter"))
    PROVE  OverrideNestedValue(TextOf(v, a, f), "axis_limiter", "max_velocity", n)
             = TextOf(v, a, f)
<1> DEFINE axis == "axis_limiter"
           json == TextOf(v, a, f)
<1>1. PICK z \in Seq(Tok) :
          /\ \A g \in Seq(Tok) : TextOf(v, a, g) = Joined(z, g, CheckersEnd)
          /\ Absent(z, Key(axis))
  BY LeadingIs
<1>2. Absent(CheckersEnd, Key(axis)) /\ CheckersEnd \in Seq(Tok)
  <2>1. Len(CheckersEnd) = 2 /\ CheckersEnd[1] = Mark("]") /\ CheckersEnd[2] = Closing
    BY DEF CheckersEnd
  <2>2. ~Same(Mark("]"), Key(axis)) /\ ~Same(Closing, Key(axis))
    BY KindsDiffer, BracketsDiffer
  <2>3. \A i \in 1 .. 2 : i = 1 \/ i = 2
    OBVIOUS
  <2> QED BY <2>1, <2>2, <2>3, FrameIs DEF Absent
<1>3. Absent(f, Key(axis))
  OBVIOUS
<1> HIDE DEF axis
<1>4. Cat(z, f) \in Seq(Tok) /\ Absent(Cat(z, f), Key(axis))
  BY <1>1, <1>3, ConcatProperties, JoinedAbsent DEF Cat
<1>5. Cat(Cat(z, f), CheckersEnd) \in Seq(Tok)
      /\ Absent(Cat(Cat(z, f), CheckersEnd), Key(axis))
  BY <1>2, <1>4, ConcatProperties, JoinedAbsent DEF Cat
<1>6. json = Cat(Cat(z, f), CheckersEnd)
  BY <1>1, Zenon DEF Joined, Cat
<1> HIDE DEF json
<1>7. Len(json) \in Nat /\ Absent(json, Key(axis))
  BY <1>5, <1>6, LenProperties
<1>8. FirstFrom(json, Key(axis), 1) = 0
  BY <1>7, AbsentIsNotFound
<1>9. OverrideNestedValue(json, axis, "max_velocity", n) = json
  BY <1>8, NestedIsLeft
<1> QED BY <1>9 DEF json, axis

-----------------------------------------------------------------------------
(***************************************************************************)
(* The limits a form asks for, in a configuration that has them.            *)
(***************************************************************************)

CheckerTexts(checkers) ==
    [i \in DOMAIN checkers |-> CheckerText(checkers[i].name, checkers[i].velocity)]

LEMMA ConfigTextIs ==
    ASSUME NEW values
    PROVE  ConfigText(values) = TextOf(values.maxVelocity, values.maxAcceleration,
                                       FlattenSeq(CheckerTexts(values.checkers)))
BY Zenon DEF ConfigText, TextOf, CheckerTexts, CheckerText, Lead, CheckersStart, CheckersEnd,
             Opening, Closing, OpeningText, ClosingText

LEMMA CheckerAbsent ==
    ASSUME NEW name \in Names, NEW v \in Nat, name # "axis_limiter"
    PROVE  CheckerText(name, v) \in Seq(Tok) /\ Absent(CheckerText(name, v), Key("axis_limiter"))
<1> DEFINE axis == Key("axis_limiter")
           e == Entry("max_velocity", v)
           k == Key(name)
           s == <<Opening, k, Opening>>
           t == <<Closing, Closing>>
<1>1. CheckerText(name, v) \in Seq(Tok)
  BY CheckerIs
<1>2. e \in Seq(Tok) /\ Absent(e, axis)
  BY FrameIs, KeyNamesDiffer, EntryIs, EntryAbsent
<1>3. ~Same(Opening, axis) /\ ~Same(Closing, axis) /\ ~Same(k, axis)
  BY BracketsDiffer, KindsDiffer
<1>4. Opening \in Tok /\ Closing \in Tok /\ k \in Tok
  BY BracketsAre, KeysAndNumbers
<1>5. CheckerText(name, v) = Cat(Cat(s, e), t)
  BY Zenon DEF CheckerText, Cat
<1> HIDE DEF axis, e, k
<1>6. s \in Seq(Tok) /\ Absent(s, axis)
  <2>1. s \in Seq(Tok) /\ Len(s) = 3 /\ s[1] = Opening /\ s[2] = k /\ s[3] = Opening
    BY <1>4
  <2>2. \A i \in 1 .. 3 : i = 1 \/ i = 2 \/ i = 3
    OBVIOUS
  <2> HIDE DEF s
  <2> QED BY <1>3, <2>1, <2>2 DEF Absent
<1>7. t \in Seq(Tok) /\ Absent(t, axis)
  <2>1. t \in Seq(Tok) /\ Len(t) = 2 /\ t[1] = Closing /\ t[2] = Closing
    BY <1>4
  <2>2. \A i \in 1 .. 2 : i = 1 \/ i = 2
    OBVIOUS
  <2> HIDE DEF t
  <2> QED BY <1>3, <2>1, <2>2 DEF Absent
<1> HIDE DEF s, t
<1>8. Cat(s, e) \in Seq(Tok) /\ Absent(Cat(s, e), axis)
  BY <1>2, <1>6, ConcatProperties, JoinedAbsent DEF Cat
<1>9. Absent(Cat(Cat(s, e), t), axis)
  BY <1>7, <1>8, JoinedAbsent DEF Cat
<1> QED BY <1>1, <1>5, <1>9 DEF axis

Axis == "axis_limiter"

LEMMA RunLacks ==
    ASSUME NEW N \in Nat, NEW f, NEW cs, RunsThrough(f, cs, N), Typed(cs, N, Tok), NEW token,
           NEW k \in 1 .. N, Lacking(cs, k, token)
    PROVE  f[k] \in Seq(Tok) /\ Absent(f[k], token)
<1>1. f[k] \in Seq(Tok)
  BY RunsAreTyped
<1>2. Absent(f[k], token)
  BY RunsAbsent
<1> QED BY <1>1, <1>2

LEMMA FrontLacks ==
    ASSUME NEW N \in Nat, NEW f, NEW cs, RunsThrough(f, cs, N), Typed(cs, N, Tok), NEW key,
           NEW k \in 1 .. N, \A i \in 1 .. N : i # k => Absent(cs[i], Key(key))
    PROVE  FrontOf(f, k) \in Seq(Tok) /\ Absent(FrontOf(f, k), Key(key))
<1>1. CASE k = 1
  <2>1. <<>> \in Seq(Tok) /\ Absent(<<>>, Key(key))
    BY FrameAbsent
  <2> QED BY <1>1, <2>1 DEF FrontOf
<1>2. CASE k # 1
  <2> DEFINE l == k - 1
  <2>1. l \in 1 .. N /\ \A i \in 1 .. l : i \in 1 .. N /\ i # k
    BY <1>2
  <2>2. FrontOf(f, k) = f[l]
    BY <1>2 DEF FrontOf
  <2> HIDE DEF l
  <2>3. Lacking(cs, l, Key(key))
    BY <2>1 DEF Lacking
  <2>4. f[l] \in Seq(Tok) /\ Absent(f[l], Key(key))
    BY <2>1, <2>3, RunLacks
  <2> QED BY <2>2, <2>4
<1> QED BY <1>1, <1>2

\* The texts of N checkers.
TextsAre(cs, N, name, limit) ==
    /\ cs \in Seq(Seq(Tok)) /\ Len(cs) = N
    /\ \A i \in 1 .. N : cs[i] = CheckerText(name[i], limit[i])

\* The same limits, but for that of the axes.
AxisWritten(N, name, old, new, n) ==
    \A i \in 1 .. N : new[i] = IF name[i] = Axis THEN Written(n, old[i]) ELSE old[i]

NamesAndLimits(N, name, old) ==
    /\ \A i \in 1 .. N : name[i] \in Names /\ old[i] \in Nat
    /\ \A i, j \in 1 .. N : name[i] = name[j] => i = j

\* The texts of the checkers, and those with the limit of the axes written.
LEMMA AxisInCheckers ==
    ASSUME NEW N \in Nat, NEW name, NEW old, NEW new, NEW cs, NEW ds, NEW n \in Int,
           NamesAndLimits(N, name, old), AxisWritten(N, name, old, new, n),
           TextsAre(cs, N, name, old), TextsAre(ds, N, name, new),
           NEW v \in Nat, NEW a \in Nat
    PROVE  OverrideNestedValue(TextOf(v, a, FlattenSeq(cs)), Axis, "max_velocity", n)
             = TextOf(v, a, FlattenSeq(ds))
<1>0. cs \in Seq(Seq(Tok)) /\ Len(cs) = N /\ ds \in Seq(Seq(Tok)) /\ Len(ds) = N
  BY DEF TextsAre
<1>1. CASE N = 0
  <2>1. cs = <<>> /\ ds = <<>>
    BY <1>0, <1>1
  <2>2. FlattenSeq(<<>>) = <<>>
    BY DEF FlattenSeq
  <2>3. <<>> \in Seq(Tok) /\ Absent(<<>>, Key(Axis))
    BY FrameAbsent
  <2> QED BY <2>1, <2>2, <2>3, NoAxisInText DEF Axis
<1>2. CASE N # 0
  <2>1. PICK f : FlattenSeq(cs) = f[N] /\ RunsThrough(f, cs, N)
    BY <1>0, <1>2, FlatRuns
  <2>2. PICK g : FlattenSeq(ds) = g[N] /\ RunsThrough(g, ds, N)
    BY <1>0, <1>2, FlatRuns
  <2>3. Typed(cs, N, Tok) /\ Typed(ds, N, Tok)
    BY <1>0 DEF Typed
  <2>4. ASSUME NEW i \in 1 .. N, name[i] # Axis
        PROVE  Absent(cs[i], Key(Axis)) /\ cs[i] = ds[i]
    <3>1. name[i] \in Names /\ old[i] \in Nat /\ new[i] = old[i]
      BY <2>4 DEF NamesAndLimits, AxisWritten
    <3>2. cs[i] = CheckerText(name[i], old[i]) /\ ds[i] = CheckerText(name[i], new[i])
      BY DEF TextsAre
    <3>3. Absent(CheckerText(name[i], old[i]), Key(Axis))
      BY <2>4, <3>1, CheckerAbsent DEF Axis
    <3> QED BY <3>1, <3>2, <3>3
  <2>5. N \in 1 .. N
    BY <1>2
  <2>6. CASE \A i \in 1 .. N : name[i] # Axis
    <3>1. Lacking(cs, N, Key(Axis))
      BY <2>4, <2>6 DEF Lacking
    <3>2. Absent(f[N], Key(Axis)) /\ f[N] \in Seq(Tok)
      BY <2>1, <2>3, <2>5, <3>1, RunLacks
    <3>3. cs = ds
      <4>1. \A i \in 1 .. N : cs[i] = ds[i]
        BY <2>4, <2>6
      <4> QED BY <1>0, <4>1, SeqEqual
    <3> QED BY <2>1, <3>2, <3>3, NoAxisInText DEF Axis
  <2>7. CASE \E k \in 1 .. N : name[k] = Axis
    <3>1. PICK k \in 1 .. N : name[k] = Axis
      BY <2>7
    <3>2. \A i \in 1 .. N : i # k => name[i] # Axis
      BY <3>1 DEF NamesAndLimits
    <3>3. AlikeBut(cs, ds, N, k) /\ \A i \in 1 .. N : i # k => Absent(cs[i], Key(Axis))
      BY <2>4, <3>2 DEF AlikeBut
    <3> DEFINE x == FrontOf(f, k)
    <3>4. PICK b \in Seq(Tok) : f[N] = Joined(x, cs[k], b) /\ g[N] = Joined(x, ds[k], b)
      <4>1. SameAround(Tok, f[N], g[N], x, cs[k], ds[k])
        BY <2>1, <2>2, <2>3, <3>3, RunsSplit
      <4> QED BY <4>1 DEF SameAround
    <3>5. x \in Seq(Tok) /\ Absent(x, Key(Axis))
      BY <2>1, <2>3, <3>3, FrontLacks
    <3> HIDE DEF x
    <3>6. cs[k] = CheckerText(Axis, old[k]) /\ ds[k] = CheckerText(Axis, Written(n, old[k]))
          /\ old[k] \in Nat
      BY <3>1 DEF TextsAre, AxisWritten, NamesAndLimits
    <3>7. OverrideNestedValue(TextOf(v, a, Joined(x, CheckerText(Axis, old[k]), b)), Axis,
                              "max_velocity", n)
            = TextOf(v, a, Joined(x, CheckerText(Axis, Written(n, old[k])), b))
      BY <3>5, <3>6, AxisInText DEF Axis
    <3> QED BY <2>1, <2>2, <3>4, <3>6, <3>7
  <2> QED BY <2>6, <2>7
<1> QED BY <1>1, <1>2

IsConfig(values) ==
    LET checkers == values.checkers
    IN  /\ values.maxVelocity \in Nat /\ values.maxAcceleration \in Nat
        /\ checkers \in Seq([name : STRING, velocity : Nat])
        /\ \A i, j \in DOMAIN checkers : checkers[i].name = checkers[j].name => i = j

Limits == [maxVelocity : Int, maxAcceleration : Int, zVelocity : Int]

\* What asks for nothing changes nothing, so the settings may all be applied.
LEMMA ConfigForIs ==
    ASSUME NEW json, NEW s \in Limits
    PROVE  ConfigFor(json, s) =
             OverrideNestedValue(
                 OverrideConfigValue(OverrideConfigValue(json, "max_velocity", s.maxVelocity),
                                     "max_acceleration", s.maxAcceleration),
                 "axis_limiter", "max_velocity", s.zVelocity)
<1> DEFINE v == s.maxVelocity
           a == s.maxAcceleration
           z == s.zVelocity
<1>1. v \in Int /\ a \in Int /\ z \in Int
  BY DEF Limits
<1>2. CASE OverridesPrinterLimits(s)
  BY <1>2, Zenon DEF ConfigFor
<1>3. CASE ~OverridesPrinterLimits(s)
  <2>1. v <= 0 /\ a <= 0 /\ z <= 0
    BY <1>1, <1>3 DEF OverridesPrinterLimits
  <2>2. ConfigFor(json, s) = json
    BY <1>3, Zenon DEF ConfigFor
  <2> HIDE DEF v, a, z
  <2>3. \A key : /\ OverrideConfigValue(json, key, v) = json
                 /\ OverrideConfigValue(json, key, a) = json
    BY <2>1, Zenon DEF OverrideConfigValue
  <2>4. \A axis, key : OverrideNestedValue(json, axis, key, z) = json
    BY <2>1, NestedIsLeft
  <2>5. OverrideConfigValue(OverrideConfigValue(json, "max_velocity", v),
                            "max_acceleration", a) = json
    BY <2>3, Zenon
  <2> QED BY <2>2, <2>4, <2>5, Zenon DEF v, a, z
<1> QED BY <1>2, <1>3

LEMMA CheckersAre ==
    ASSUME NEW values, IsConfig(values)
    PROVE  \A i \in DOMAIN values.checkers : values.checkers[i] \in [name : STRING, velocity : Nat]
<1> DEFINE T == [name : STRING, velocity : Nat]
           checkers == values.checkers
<1>1. checkers \in Seq(T)
  BY Zenon DEF IsConfig
<1> HIDE DEF T, checkers
<1>2. DOMAIN checkers = 1 .. Len(checkers) /\ \A i \in 1 .. Len(checkers) : checkers[i] \in T
  BY <1>1, ElementOfSeq, LenProperties
<1> QED BY <1>2, Zenon DEF T, checkers

LEMMA AmendedIs ==
    ASSUME NEW values, IsConfig(values), NEW s \in Limits
    PROVE  LET d == Amended(values, s)
           IN  /\ d.maxVelocity = Written(s.maxVelocity, values.maxVelocity)
               /\ d.maxAcceleration = Written(s.maxAcceleration, values.maxAcceleration)
               /\ DOMAIN d.checkers = DOMAIN values.checkers
               /\ \A i \in DOMAIN values.checkers :
                     /\ d.checkers[i].name = values.checkers[i].name
                     /\ d.checkers[i].velocity =
                          IF values.checkers[i].name = Axis
                          THEN Written(s.zVelocity, values.checkers[i].velocity)
                          ELSE values.checkers[i].velocity
<1> DEFINE checkers == values.checkers
           D == DOMAIN checkers
           axis == {i \in D : checkers[i].name = Axis}
           Amend(i) == IF i \in axis
                       THEN [checkers[i] EXCEPT !.velocity = Written(s.zVelocity, @)]
                       ELSE checkers[i]
<1>1. /\ Amended(values, s).maxVelocity = Written(s.maxVelocity, values.maxVelocity)
      /\ Amended(values, s).maxAcceleration = Written(s.maxAcceleration, values.maxAcceleration)
      /\ Amended(values, s).checkers = [i \in D |-> Amend(i)]
  BY DEF Amended, Written, Axis
<1>2. \A i \in D : checkers[i] \in [name : STRING, velocity : Nat]
  BY CheckersAre, Zenon
<1> HIDE DEF checkers, D
<1>3. ASSUME NEW i \in D
      PROVE  /\ Amend(i).name = checkers[i].name
             /\ Amend(i).velocity = IF checkers[i].name = Axis
                                    THEN Written(s.zVelocity, checkers[i].velocity)
                                    ELSE checkers[i].velocity
  <2> DEFINE c == checkers[i]
             w == Written(s.zVelocity, c.velocity)
  <2>1. c \in [name : STRING, velocity : Nat] /\ (i \in axis <=> c.name = Axis)
    BY <1>2
  <2>2. Amend(i) = IF i \in axis THEN [c EXCEPT !.velocity = w] ELSE c
    OBVIOUS
  <2> HIDE DEF Amend, axis, c, w
  <2>3. [c EXCEPT !.velocity = w].name = c.name /\ [c EXCEPT !.velocity = w].velocity = w
    BY <2>1
  <2> QED BY <2>1, <2>2, <2>3 DEF c, w
<1> HIDE DEF Amend
<1>4. /\ DOMAIN Amended(values, s).checkers = D
      /\ \A i \in D : Amended(values, s).checkers[i] = Amend(i)
  BY <1>1
<1> QED BY <1>1, <1>3, <1>4 DEF D, checkers

\* Every limit that is asked for is written over the one it belongs to, and nothing
\* else of the estimator's configuration changes, for every configuration and
\* whatever is asked for.
THEOREM ConfigIsAmended ==
    \A values, s : IsConfig(values) /\ s \in Limits
        => ConfigFor(ConfigText(values), s) = ConfigText(Amended(values, s))
<1> SUFFICES ASSUME NEW values, NEW s, IsConfig(values), s \in Limits
             PROVE  ConfigFor(ConfigText(values), s) = ConfigText(Amended(values, s))
  OBVIOUS
<1> DEFINE checkers == values.checkers
           d == Amended(values, s)
           N == Len(checkers)
           name == [i \in 1 .. N |-> checkers[i].name]
           old == [i \in 1 .. N |-> checkers[i].velocity]
           new == [i \in 1 .. N |-> IF name[i] = Axis THEN Written(s.zVelocity, old[i]) ELSE old[i]]
           cs == CheckerTexts(checkers)
           ds == CheckerTexts(d.checkers)
           v == values.maxVelocity
           a == values.maxAcceleration
<1>1. /\ v \in Nat /\ a \in Nat /\ N \in Nat /\ DOMAIN checkers = 1 .. N
      /\ \A i \in 1 .. N : checkers[i] \in [name : STRING, velocity : Nat]
      /\ \A i, j \in 1 .. N : checkers[i].name = checkers[j].name => i = j
  <2> DEFINE T == [name : STRING, velocity : Nat]
  <2>1. /\ v \in Nat /\ a \in Nat /\ checkers \in Seq(T)
        /\ \A i, j \in DOMAIN checkers : checkers[i].name = checkers[j].name => i = j
    BY Zenon DEF IsConfig
  <2>2. \A i \in DOMAIN checkers : checkers[i] \in T
    BY CheckersAre, Zenon
  <2> HIDE DEF T, checkers, v, a
  <2>3. N \in Nat /\ DOMAIN checkers = 1 .. N
    BY <2>1, LenProperties
  <2> HIDE DEF N
  <2> QED BY <2>1, <2>2, <2>3, Zenon DEF T
<1>2. s.maxVelocity \in Int /\ s.maxAcceleration \in Int /\ s.zVelocity \in Int
  BY DEF Limits
<1>3. /\ d.maxVelocity = Written(s.maxVelocity, v) /\ d.maxAcceleration = Written(s.maxAcceleration, a)
      /\ DOMAIN d.checkers = 1 .. N
      /\ \A i \in 1 .. N : d.checkers[i].name = name[i] /\ d.checkers[i].velocity = new[i]
  BY <1>1, AmendedIs
<1> HIDE DEF checkers, d, N
<1>4. NamesAndLimits(N, name, old)
  <2>1. \A i \in 1 .. N : checkers[i].name \in STRING /\ checkers[i].velocity \in Nat
    BY <1>1
  <2>2. \A i \in 1 .. N : checkers[i].name \in Names
    BY <2>1 DEF Names
  <2> QED BY <1>1, <2>1, <2>2 DEF NamesAndLimits
<1>5. AxisWritten(N, name, old, new, s.zVelocity)
  BY DEF AxisWritten
<1>6. \A i \in 1 .. N : name[i] = checkers[i].name /\ old[i] = checkers[i].velocity
  OBVIOUS
<1>7. \A i \in 1 .. N : new[i] \in Nat
  <2>1. \A i \in 1 .. N : old[i] \in Nat
    BY <1>4 DEF NamesAndLimits
  <2> HIDE DEF name, old
  <2> QED BY <1>2, <2>1 DEF Written
<1> HIDE DEF name, old, new
<1>8. /\ DOMAIN cs = 1 .. N /\ DOMAIN ds = 1 .. N
      /\ \A i \in 1 .. N : cs[i] = CheckerText(name[i], old[i])
      /\ \A i \in 1 .. N : ds[i] = CheckerText(name[i], new[i])
      /\ cs = [i \in 1 .. N |-> cs[i]] /\ ds = [i \in 1 .. N |-> ds[i]]
  BY <1>1, <1>3, <1>6 DEF CheckerTexts
<1> HIDE DEF cs, ds
<1>9. TextsAre(cs, N, name, old) /\ TextsAre(ds, N, name, new)
  <2>1. \A i \in 1 .. N : name[i] \in Names /\ old[i] \in Nat
    BY <1>4 DEF NamesAndLimits
  <2>2. \A i \in 1 .. N : cs[i] \in Seq(Tok) /\ ds[i] \in Seq(Tok)
    BY <1>7, <1>8, <2>1, CheckerIs
  <2>3. cs \in Seq(Seq(Tok)) /\ ds \in Seq(Seq(Tok)) /\ Len(cs) = N /\ Len(ds) = N
    <3> DEFINE T == Seq(Tok)
    <3> HIDE DEF T
    <3>1. \A i \in 1 .. N : cs[i] \in T /\ ds[i] \in T
      BY <2>2 DEF T
    <3>2. cs \in [1 .. N -> T] /\ ds \in [1 .. N -> T]
      <4>1. [i \in 1 .. N |-> cs[i]] \in [1 .. N -> T] /\ [i \in 1 .. N |-> ds[i]] \in [1 .. N -> T]
        BY <3>1
      <4> QED BY <1>8, <4>1, Zenon
    <3>3. cs \in Seq(T) /\ ds \in Seq(T)
      BY <1>1, <3>2, FunctionIsSeq, Zenon
    <3>4. Len(cs) = N /\ Len(ds) = N
      BY <1>1, <1>8, <3>3, LenProperties
    <3> QED BY <3>3, <3>4 DEF T
  <2> QED BY <1>8, <2>3 DEF TextsAre
<1>10. FlattenSeq(cs) \in Seq(Tok)
  <2>1. cs \in Seq(Seq(Tok)) /\ Len(cs) = N
    BY <1>9 DEF TextsAre
  <2>2. CASE N = 0
    <3>1. cs = <<>> /\ FlattenSeq(<<>>) = <<>> /\ <<>> \in Seq(Tok)
      BY <2>1, <2>2 DEF FlattenSeq
    <3> QED BY <3>1
  <2>3. CASE N # 0
    <3>1. PICK f : FlattenSeq(cs) = f[N] /\ RunsThrough(f, cs, N)
      BY <1>1, <2>1, <2>3, FlatRuns
    <3>2. Typed(cs, N, Tok)
      BY <2>1 DEF Typed
    <3>3. N \in 1 .. N
      BY <1>1, <2>3
    <3> QED BY <1>1, <3>1, <3>2, <3>3, RunsAreTyped
  <2> QED BY <2>2, <2>3
<1> DEFINE w == Written(s.maxVelocity, v)
           b == Written(s.maxAcceleration, a)
<1>11. w \in Nat /\ b \in Nat
  BY <1>1, <1>2 DEF Written
<1>12. OverrideConfigValue(TextOf(v, a, FlattenSeq(cs)), "max_velocity", s.maxVelocity)
         = TextOf(w, a, FlattenSeq(cs))
  BY <1>1, <1>2, <1>10, LimitsAreWritten
<1> HIDE DEF w, b
<1>13. OverrideConfigValue(TextOf(w, a, FlattenSeq(cs)), "max_acceleration", s.maxAcceleration)
         = TextOf(w, b, FlattenSeq(cs))
  <2> DEFINE y == FlattenSeq(cs)
             m == s.maxAcceleration
  <2>1. y \in Seq(Tok) /\ m \in Int
    BY <1>2, <1>10
  <2> HIDE DEF y, m
  <2>2. w \in Nat /\ a \in Nat
    BY <1>1, <1>11
  <2>3. OverrideConfigValue(TextOf(w, a, y), "max_acceleration", m) = TextOf(w, Written(m, a), y)
    BY <2>1, <2>2, LimitsAreWritten, Zenon
  <2> QED BY <2>3, Zenon DEF y, m, b
<1>14. OverrideNestedValue(TextOf(w, b, FlattenSeq(cs)), "axis_limiter", "max_velocity", s.zVelocity)
         = TextOf(w, b, FlattenSeq(ds))
  BY <1>1, <1>2, <1>4, <1>5, <1>9, <1>11, AxisInCheckers DEF Axis
<1>15. ConfigText(values) = TextOf(v, a, FlattenSeq(cs))
  BY ConfigTextIs, Zenon DEF cs, checkers
<1>16. ConfigText(d) = TextOf(w, b, FlattenSeq(ds))
  <2>1. ConfigText(d) = TextOf(d.maxVelocity, d.maxAcceleration, FlattenSeq(ds))
    BY ConfigTextIs, Zenon DEF ds
  <2> QED BY <1>3, <2>1 DEF w, b
<1>17. ConfigFor(ConfigText(values), s) = TextOf(w, b, FlattenSeq(ds))
  <2>1. ConfigFor(ConfigText(values), s) =
          OverrideNestedValue(
              OverrideConfigValue(
                  OverrideConfigValue(ConfigText(values), "max_velocity", s.maxVelocity),
                  "max_acceleration", s.maxAcceleration),
              "axis_limiter", "max_velocity", s.zVelocity)
    BY ConfigForIs
  <2> QED BY <1>12, <1>13, <1>14, <1>15, <2>1, Zenon
<1> QED BY <1>16, <1>17 DEF d
-----------------------------------------------------------------------------
(***************************************************************************)
(* The form.  From Assemble to Handle the fields are those of the query,    *)
(* over those of the body that was taken.                                   *)
(***************************************************************************)

Asks(r) == Settings(Fields(r.query) @@ Fields(r.body))

\* What a client asks for is what the form it means to send says.
AskedIsSaid ==
    \A c \in Connections : \A r \in Requests(c) : r.asked \in Limits /\ Asks(r) = r.asked

Heard(r, place, req) == place = "handling" => req.fields = Parsed[r.query] @@ Parsed[req.body]

HeardAt(c) == sent[c] \in Requests(c) /\ Heard(sent[c], stage[c], request[c])

HeardInv == \A c \in Connections : HeardAt(c)

LEMMA WholeText ==
    ASSUME NEW T, NEW text \in Seq(T)
    PROVE  text \in {SubSeq(text, 1, n) : n \in 0 .. Len(text)}
<1>1. Len(text) \in Nat
  BY LenProperties
<1>2. SubSeq(text, 1, Len(text)) = text
  <2>1. \A i \in 1 .. Len(text) : text[i] \in T
    BY ElementOfSeq
  <2>2. /\ SubSeq(text, 1, Len(text)) \in Seq(T)
        /\ Len(SubSeq(text, 1, Len(text))) = Len(text)
        /\ \A i \in 1 .. Len(text) : SubSeq(text, 1, Len(text))[i] = text[i]
    BY <1>1, <2>1, SubSeqProperties
  <2> QED BY <2>2, SeqEqual
<1>3. Len(text) \in 0 .. Len(text)
  BY <1>1
<1> QED BY <1>2, <1>3, Zenon

\* Of the texts that are evaluated once are those of every request.
LEMMA ParsedIs ==
    ASSUME NEW c \in Connections, NEW r \in Requests(c)
    PROVE  Parsed[r.query] = Fields(r.query) /\ Parsed[r.body] = Fields(r.body)
<1> DEFINE requests == UNION {Requests(d) : d \in Connections}
           Parts(text) == {SubSeq(text, 1, n) : n \in 0 .. Len(text)}
           all == UNION {Parts(q.body) \cup Parts(q.query) : q \in requests}
           f == [text \in all |-> Fields(text)]
<1>1. r \in requests
  OBVIOUS
<1>2. r.query \in Parts(r.query) /\ r.body \in Parts(r.body)
  <2>1. r.query \in Seq(STRING) /\ r.body \in Seq(STRING)
    BY RequestsAreText, Zenon
  <2> QED BY <2>1, WholeText, Zenon
<1>3. Parsed = f
  BY Zenon DEF Parsed
<1> HIDE DEF requests, Parts
<1>4. r.query \in all /\ r.body \in all
  <2>1. Parts(r.body) \cup Parts(r.query) \in {Parts(q.body) \cup Parts(q.query) : q \in requests}
    BY <1>1
  <2>2. r.query \in Parts(r.body) \cup Parts(r.query) /\ r.body \in Parts(r.body) \cup Parts(r.query)
    BY <1>2
  <2> QED BY <2>1, <2>2, Zenon
<1> HIDE DEF all
<1>5. \A text \in all : f[text] = Fields(text)
  OBVIOUS
<1> QED BY <1>3, <1>4, <1>5, Zenon

LEMMA HeardInit == ServerInit => HeardInv
<1> SUFFICES ASSUME ServerInit, NEW c \in Connections PROVE HeardAt(c)
  BY DEF HeardInv
<1>1. sent[c] \in Requests(c)
  BY DEF ServerInit
<1>2. stage[c] = "connecting"
  BY DEF ServerInit
<1> QED BY <1>1, <1>2 DEF HeardAt, Heard

\* Nothing but Assemble makes up a request.
LEMMA OnlyAssembleMakes ==
    ASSUME Domains, NEW c \in Connections, ServeStep(c) \/ GiveUp(c) \/ ClientStops(c),
           ~Assemble(c), NEW d \in Connections, stage'[d] = "handling"
    PROVE  stage[d] = "handling" /\ request'[d] = request[d]
<1>1. ASSUME NEW place, place # "handling", GoTo(c, place), UNCHANGED request
      PROVE  stage[d] = "handling" /\ request'[d] = request[d]
  BY <1>1 DEF GoTo, Domains
<1>2. CASE ReadHead(c)
  <2>1. PICK piece \in Pieces(c) : GoTo(c, Waiting(raw[c] \o piece)) /\ UNCHANGED request
    BY <1>2 DEF ReadHead
  <2>2. Waiting(raw[c] \o piece) # "handling"
    BY DEF Waiting
  <2> QED BY <1>1, <2>1, <2>2
<1>3. CASE UNCHANGED <<stage, request>>
  BY <1>3
<1>4. CASE Accept(c) \/ HeadEnds(c) \/ Handle(c) \/ Send(c)
  <2>1. PICK place \in {"head", "closed", "sending"} : GoTo(c, place) /\ UNCHANGED request
    BY <1>4 DEF Accept, HeadEnds, Handle, Send
  <2> QED BY <1>1, <2>1
<1>5. CASE ReadBody(c) \/ ClientStops(c)
  BY <1>3, <1>5 DEF ReadBody, ClientStops
<1> QED BY <1>2, <1>4, <1>5 DEF ServeStep, GiveUp

\* The request line is the first of what has come.
LEMMA TargetIs ==
    ASSUME NEW r, NEW text, IsRequest(r), PartOf(text, r), HeaderEnd(text) # 0
    PROVE  text[1].value.query = r.query
<1> DEFINE w == OnTheWire(r)
<1>1. w[1] = Line([path |-> r.path, query |-> r.query])
  BY WireIs
<1>2. HeaderEnd(text) = H(r) + 2 /\ Len(text) >= H(r) + 3
  BY HeaderEndIs
<1>3. H(r) \in Nat /\ Len(text) \in Nat
  BY LengthsOf
<1>4. 1 \in 1 .. Len(text)
  BY <1>2, <1>3
<1>5. text[1] = w[1]
  BY <1>4 DEF PartOf
<1> HIDE DEF w
<1> QED BY <1>1, <1>5 DEF Line

LEMMA HeardStep == ServerInv /\ HeardInv /\ [ServerNext]_serverVars => HeardInv'
<1> SUFFICES ASSUME ServerInv, HeardInv, [ServerNext]_serverVars, NEW d \in Connections
             PROVE  HeardAt(d)'
  BY DEF HeardInv
<1>0. Domains /\ HeardAt(d)
  BY DEF ServerInv, HeardInv
<1>1. CASE UNCHANGED serverVars
  BY <1>0, <1>1 DEF HeardAt, Heard, serverVars
<1>2. CASE ServerNext
  <2>1. PICK c \in Connections : ServeStep(c) \/ GiveUp(c) \/ ClientStops(c)
    BY <1>2 DEF ServerNext
  <2>2. sent' = sent
    BY <2>1 DEF ServeStep, GiveUp, ClientStops, Accept, ReadHead, ReadBody, Handle, Send,
                Assemble, HeadEnds
  <2>3. CASE ~Assemble(c)
    <3>1. stage'[d] = "handling" => stage[d] = "handling" /\ request'[d] = request[d]
      BY <1>0, <2>1, <2>3, OnlyAssembleMakes
    <3> QED BY <1>0, <2>2, <3>1 DEF HeardAt, Heard
  <2>4. CASE Assemble(c) /\ d # c
    <3>1. stage'[d] = stage[d] /\ request'[d] = request[d]
      BY <2>4 DEF Assemble, GoTo
    <3> QED BY <1>0, <2>2, <3>1 DEF HeardAt, Heard
  <2>5. CASE Assemble(c) /\ d = c
    <3> DEFINE units == Taken(raw[c])
               body == [i \in DOMAIN units |-> units[i].value]
               target == raw[c][1].value
               req == [path |-> target.path, body |-> body,
                       fields |-> Parsed[target.query] @@ Parsed[body]]
    <3>1. stage[c] = "body" /\ request' = [request EXCEPT ![c] = req]
      BY <2>5 DEF Assemble
    <3>2. GoodAt(c)
      BY DEF ServerInv
    <3>3. target.query = sent[c].query
      BY <3>1, <3>2, TargetIs DEF GoodAt, Good
    <3>4. req.body = body /\ req.fields = Parsed[target.query] @@ Parsed[body]
      OBVIOUS
    <3> HIDE DEF body, target, req
    <3>5. request'[c] = req
      BY <1>0, <3>1 DEF Domains
    <3>6. Heard(sent[c], stage'[c], request'[c])
      BY <3>3, <3>4, <3>5 DEF Heard
    <3> QED BY <1>0, <2>2, <2>5, <3>6 DEF HeardAt
  <2> QED BY <2>3, <2>4, <2>5
<1> QED BY <1>1, <1>2

LEMMA HeardIsKept ==
    AskedIsSaid /\ HeardInv => LimitsGoWhereTheyBelong
<1> SUFFICES ASSUME AskedIsSaid, HeardInv, NEW c \in Connections,
                    stage[c] = "handling", request[c].body = sent[c].body, NEW values \in Configs
             PROVE  ConfigFor(ConfigText(values), Settings(request[c].fields))
                      = ConfigText(Amended(values, sent[c].asked))
  BY Zenon DEF LimitsGoWhereTheyBelong
<1> DEFINE r == sent[c]
<1>1. r \in Requests(c) /\ request[c].fields = Parsed[r.query] @@ Parsed[r.body]
  BY DEF HeardInv, HeardAt, Heard
<1>2. request[c].fields = Fields(r.query) @@ Fields(r.body)
  BY <1>1, ParsedIs, Zenon
<1>3. r.asked \in Limits /\ Settings(request[c].fields) = r.asked
  BY <1>1, <1>2, Zenon DEF AskedIsSaid, Asks
<1>4. IsConfig(values)
  BY ConfigsAreWritten, Zenon DEF IsConfig
<1> QED BY <1>3, <1>4, ConfigIsAmended, Zenon

\* Of a form that has arrived whole every limit goes where it belongs in the
\* configuration and nowhere else: for any number of connections, any configuration
\* the estimator writes, and clients whose forms say what they ask for.
THEOREM LimitsGoHome == AskedIsSaid => (ServerSpec => []LimitsGoWhereTheyBelong)
<1> SUFFICES ASSUME AskedIsSaid PROVE ServerSpec => []LimitsGoWhereTheyBelong
  OBVIOUS
<1>1. ServerInit => ServerInv /\ HeardInv
  BY ServerInitGood, HeardInit
<1>2. ServerInv /\ HeardInv /\ [ServerNext]_serverVars => (ServerInv /\ HeardInv)'
  BY ServerStepGood, HeardStep
<1>3. HeardInv => LimitsGoWhereTheyBelong
  BY HeardIsKept
<1> QED BY <1>1, <1>2, <1>3, PTL DEF ServerSpec
=============================================================================
