------------------------- MODULE ProfileStore_proofs -------------------------
(***************************************************************************)
(* The round trip and the store, for any lists of printers, any block size  *)
(* and any number of digits.                                               *)
(*                                                                         *)
(* First what fromJson makes of the text toJson writes, whole or cut off:   *)
(* brackets find their counterparts, objects are found one behind the       *)
(* other, keys are found where they stand, and numbers are printed as they  *)
(* were read.  Then the store: the inductive invariant of the save, and     *)
(* what it keeps where the file system lets it down, which is less than the *)
(* header promises.                                                        *)
(***************************************************************************)
EXTENDS ProfileStore, SetSums

(***************************************************************************)
(* Brackets.                                                               *)
(***************************************************************************)

LeftBrace == "{"
RightBrace == "}"
LeftBracket == "["
RightBracket == "]"

Lefts == {LeftBrace, LeftBracket}
Closer(left) == IF left = LeftBrace THEN RightBrace ELSE RightBracket

\* A string that is neither taken for a key nor for an open end.
PlainToken(token) == token.is = "string" => token.text \notin BackslashTails \cup Keys
PlainText(text) == Len(text) \in Nat /\ \A i \in 1 .. Len(text) : PlainToken(text[i])

MarksUpTo(text, open, i, bracket) == {j \in open .. i : IsMark(text[j], bracket)}

Balanced(text, open, left, right) ==
    {i \in open .. Len(text) :
        /\ IsMark(text[i], right)
        /\ Cardinality(MarksUpTo(text, open, i, right))
             = Cardinality(MarksUpTo(text, open, i, left))}

\* The four brackets are four, and none is the empty text.
LEMMA SidesDiffer ==
    /\ LeftBrace # RightBrace /\ LeftBracket # RightBracket
    /\ LeftBrace # LeftBracket /\ LeftBrace # RightBracket
    /\ RightBrace # LeftBracket /\ RightBrace # RightBracket
    /\ LeftBrace # "" /\ RightBrace # "" /\ LeftBracket # "" /\ RightBracket # ""
BY Zenon DEF LeftBrace, RightBrace, LeftBracket, RightBracket

\* Outside of an open string a bracket counts where it is a mark.
LEMMA CountedBrackets ==
    ASSUME NEW token, NEW bracket, bracket # ""
    PROVE  Counts(FALSE, token) /\ Brace(token) = bracket <=> IsMark(token, bracket)
<1>1. CASE token.is = "string"
  <2>1. ~Counts(FALSE, token) /\ ~IsMark(token, bracket)
    BY <1>1, Zenon DEF Counts, IsMark
  <2> QED BY <2>1
<1>2. CASE token.is # "string"
  <2>1. Counts(FALSE, token)
    BY <1>2, Zenon DEF Counts
  <2>2. CASE token.is = "mark"
    <3>1. Brace(token) = token.text
      BY <2>2, Zenon DEF Brace
    <3> QED BY <2>1, <2>2, <3>1 DEF IsMark
  <2>3. CASE token.is # "mark"
    <3>1. Brace(token) = ""
      BY <1>2, <2>3, Zenon DEF Brace
    <3> QED BY <2>3, <3>1, Zenon DEF IsMark
  <2> QED BY <2>2, <2>3
<1> QED BY <1>1, <1>2

\* In a plain text brackets are those that are written as such.
LEMMA MatchBraceIs ==
    ASSUME NEW text, PlainText(text), NEW open \in 1 .. Len(text), NEW left \in Lefts,
           IsMark(text[open], left)
    PROVE  MatchBrace(text, open) = FirstOf(Balanced(text, open, left, Closer(left)))
<1> DEFINE L == Len(text)
           bracket == Brace(text[open])
           close == IF bracket = "{" THEN "}" ELSE "]"
           quotes == {i \in open .. L : EscapesQuote(text[i])}
                         \cup (IF text[open].is = "string" THEN {open} ELSE {})
           toggles == IF text[open].is = "string" /\ EscapesQuote(text[open])
                      THEN quotes \ {open} ELSE quotes
           InString(i) == Cardinality({j \in toggles : j < i}) % 2 = 1
           counted == {i \in open .. L : i = open \/ Counts(InString(i), text[i])}
           opens == {i \in counted : Brace(text[i]) = bracket}
           closes == {i \in counted : Brace(text[i]) = close}
           right == Closer(left)
<1>0. L \in Nat /\ open \in Nat /\ open >= 1 /\ open <= L /\ open \in open .. L
  BY DEF PlainText
<1>1. text[open].is = "mark" /\ text[open].text = left /\ text[open].is # "string"
  BY Zenon DEF IsMark
<1>2. bracket = left /\ left # "" /\ right # "" /\ left # right
  <2>1. bracket = left
    BY <1>1, Zenon DEF Brace
  <2>2. left # "" /\ right # "" /\ left # right
    BY SidesDiffer, Zenon DEF Lefts, Closer
  <2> QED BY <2>1, <2>2
<1>3. close = right
  BY <1>2, Zenon DEF Closer, LeftBrace, RightBrace, RightBracket
<1>4. MatchBrace(text, open) =
        FirstOf({i \in closes : Cardinality({j \in closes : j <= i})
                                  = Cardinality({j \in opens : j <= i})})
  BY Zenon DEF MatchBrace
<1>5. toggles = {}
  <2>1. \A i \in open .. L : ~EscapesQuote(text[i])
    <3> SUFFICES ASSUME NEW i \in open .. L PROVE ~EscapesQuote(text[i])
      OBVIOUS
    <3>1. i \in 1 .. L
      BY <1>0
    <3>2. PlainToken(text[i])
      BY <3>1 DEF PlainText
    <3> QED BY <3>2 DEF PlainToken, EscapesQuote
  <2>2. quotes = {}
    BY <1>1, <2>1, Zenon
  <2> QED BY <1>1, <2>2, Zenon
<1> HIDE DEF toggles
<1>6. \A i : InString(i) = FALSE
  <2>1. \A i : {j \in toggles : j < i} = {}
    BY <1>5
  <2>2. Cardinality({}) = 0
    BY FS_EmptySet
  <2>3. \A i : Cardinality({j \in toggles : j < i}) = 0
    BY <2>1, <2>2, Zenon
  <2>4. 0 % 2 # 1
    OBVIOUS
  <2> QED BY <2>3, <2>4
<1> HIDE DEF InString
<1>7. \A i \in open .. L : i \in counted <=> i = open \/ Counts(FALSE, text[i])
  BY <1>6, Zenon
<1> HIDE DEF L, bracket, close, right
<1>8. \A i : i \in opens <=> i \in open .. L /\ IsMark(text[i], left)
  <2> SUFFICES ASSUME NEW i \in open .. L
               PROVE  i \in counted /\ Brace(text[i]) = bracket <=> IsMark(text[i], left)
    BY Zenon
  <2>1. Counts(FALSE, text[i]) /\ Brace(text[i]) = left <=> IsMark(text[i], left)
    BY <1>2, CountedBrackets
  <2> QED BY <1>2, <1>7, <2>1, Zenon
<1>9. \A i : i \in closes <=> i \in open .. L /\ IsMark(text[i], right)
  <2> SUFFICES ASSUME NEW i \in open .. L
               PROVE  i \in counted /\ Brace(text[i]) = close <=> IsMark(text[i], right)
    BY Zenon
  <2>1. Counts(FALSE, text[i]) /\ Brace(text[i]) = right <=> IsMark(text[i], right)
    BY <1>2, CountedBrackets
  <2>2. i = open => Brace(text[i]) # right /\ ~IsMark(text[i], right)
    BY <1>1, <1>2, Zenon DEF IsMark, bracket
  <2> QED BY <1>3, <1>7, <2>1, <2>2, Zenon
<1> HIDE DEF opens, closes
<1>10. \A i \in open .. L : /\ {j \in closes : j <= i} = MarksUpTo(text, open, i, right)
                            /\ {j \in opens : j <= i} = MarksUpTo(text, open, i, left)
  BY <1>0, <1>8, <1>9 DEF MarksUpTo
<1>11. {i \in closes : Cardinality({j \in closes : j <= i}) = Cardinality({j \in opens : j <= i})}
         = Balanced(text, open, left, right)
  BY <1>9, <1>10, Zenon DEF Balanced, L
<1> QED BY <1>4, <1>11, Zenon DEF right

\* The first `k` values of a function that takes none twice.
FirstOnes(a, k) == {a[m] : m \in 1 .. k}
Distinct(a, n) == \A k, m \in 1 .. n : k # m => a[k] # a[m]

\* The first k of distinct places are k.
LEMMA FirstOnesCount ==
    ASSUME NEW a, NEW n \in Nat, Distinct(a, n), NEW k \in 0 .. n
    PROVE  IsFiniteSet(FirstOnes(a, k)) /\ Cardinality(FirstOnes(a, k)) = k
<1> DEFINE G == {j \in Nat : j <= n => /\ IsFiniteSet(FirstOnes(a, j))
                                       /\ Cardinality(FirstOnes(a, j)) = j}
<1>1. 0 \in G
  <2>1. FirstOnes(a, 0) = {}
    BY DEF FirstOnes
  <2> QED BY <2>1, FS_EmptySet
<1>2. ASSUME NEW j \in Nat, j \in G PROVE j + 1 \in G
  <2> SUFFICES ASSUME j + 1 <= n
               PROVE  /\ IsFiniteSet(FirstOnes(a, j + 1))
                      /\ Cardinality(FirstOnes(a, j + 1)) = j + 1
    OBVIOUS
  <2> DEFINE S == FirstOnes(a, j)
             x == a[j + 1]
  <2>1. IsFiniteSet(S) /\ Cardinality(S) = j
    BY <1>2
  <2>2. FirstOnes(a, j + 1) = S \cup {x}
    <3>1. \A m : m \in 1 .. (j + 1) <=> m \in 1 .. j \/ m = j + 1
      OBVIOUS
    <3> QED BY <3>1 DEF FirstOnes
  <2>3. x \notin S
    <3>1. ASSUME NEW m \in 1 .. j PROVE a[m] # a[j + 1]
      <4>1. m \in 1 .. n /\ j + 1 \in 1 .. n /\ m # j + 1
        OBVIOUS
      <4> QED BY <4>1 DEF Distinct
    <3> QED BY <3>1 DEF FirstOnes
  <2> HIDE DEF S, x
  <2>4. IsFiniteSet(S \cup {x}) /\ Cardinality(S \cup {x}) = j + 1
    BY <2>1, <2>3, FS_AddElement
  <2> QED BY <2>2, <2>4
<1> HIDE DEF G
<1>3. k \in G
  BY <1>1, <1>2, Successors
<1> QED BY <1>3 DEF G

\* Between a bracket and its counterpart stand pairs, one behind the other.
Pairs(n, a, b, open, close) ==
    /\ \A k \in 1 .. n : /\ a[k] \in Nat /\ b[k] \in Nat
                         /\ open < a[k] /\ a[k] < b[k] /\ b[k] < close
    /\ \A k, m \in 1 .. n : k < m => b[k] < a[m]

MarksAre(text, open, close, n, a, b, left, right) ==
    \A i \in open .. Len(text) :
        i <= close =>
            /\ IsMark(text[i], left) <=> i = open \/ \E k \in 1 .. n : i = a[k]
            /\ IsMark(text[i], right) <=> i = close \/ \E k \in 1 .. n : i = b[k]

\* What stands up to the end of the k-th pair.
LEMMA UpToPair ==
    ASSUME NEW n \in Nat, NEW a, NEW b, NEW open \in Nat, NEW close \in Nat,
           Pairs(n, a, b, open, close), NEW k \in 1 .. n, NEW m \in 1 .. n
    PROVE  /\ a[m] <= b[k] <=> m <= k
           /\ b[m] <= b[k] <=> m <= k
<1>1. /\ a[m] \in Nat /\ b[m] \in Nat /\ a[k] \in Nat /\ b[k] \in Nat
      /\ a[m] < b[m] /\ a[k] < b[k]
      /\ k < m => b[k] < a[m]
      /\ m < k => b[m] < a[k]
  BY DEF Pairs
<1> QED BY <1>1

\* Brackets in pairs stand at different places.
LEMMA PairsAreDistinct ==
    ASSUME NEW n \in Nat, NEW a, NEW b, NEW open \in Nat, NEW close \in Nat,
           Pairs(n, a, b, open, close)
    PROVE  Distinct(a, n) /\ Distinct(b, n)
<1> SUFFICES ASSUME NEW k \in 1 .. n, NEW m \in 1 .. n, k # m
             PROVE  a[k] # a[m] /\ b[k] # b[m]
  BY DEF Distinct
<1>1. /\ a[m] \in Nat /\ b[m] \in Nat /\ a[k] \in Nat /\ b[k] \in Nat
      /\ a[m] < b[m] /\ a[k] < b[k]
      /\ k < m => b[k] < a[m]
      /\ m < k => b[m] < a[k]
  BY DEF Pairs
<1>2. k < m \/ m < k
  OBVIOUS
<1> QED BY <1>1, <1>2

\* Behind a pair that is not the last one, one more has opened than has closed.
LEMMA CountsUpToPair ==
    ASSUME NEW text, Len(text) \in Nat, NEW n \in Nat, NEW a, NEW b,
           NEW open \in Nat, NEW close \in Nat, NEW left, NEW right,
           Pairs(n, a, b, open, close), open < close,
           MarksAre(text, open, close, n, a, b, left, right),
           NEW k \in 1 .. n, b[k] <= Len(text)
    PROVE  Cardinality(MarksUpTo(text, open, b[k], right))
             # Cardinality(MarksUpTo(text, open, b[k], left))
<1>1. Distinct(a, n) /\ Distinct(b, n)
  BY PairsAreDistinct
<1>2. \A m \in 1 .. n : /\ a[m] \in Nat /\ b[m] \in Nat
                        /\ open < a[m] /\ open < b[m] /\ b[m] < close
                        /\ a[m] <= b[k] <=> m <= k
                        /\ b[m] <= b[k] <=> m <= k
  <2>1. ASSUME NEW m \in 1 .. n
        PROVE  /\ a[m] \in Nat /\ b[m] \in Nat
               /\ open < a[m] /\ open < b[m] /\ b[m] < close
    BY DEF Pairs
  <2> QED BY <2>1, UpToPair
<1>3. \A i \in open .. b[k] : /\ i \in Int /\ i \in open .. Len(text) /\ i <= close /\ i # close
                              /\ i <= b[k]
  BY <1>2
<1>4. MarksUpTo(text, open, b[k], right) = FirstOnes(b, k)
  <2>1. ASSUME NEW i \in open .. b[k], IsMark(text[i], right) PROVE i \in FirstOnes(b, k)
    <3>1. PICK m \in 1 .. n : i = b[m]
      BY <1>3, <2>1 DEF MarksAre
    <3>2. m \in 1 .. k
      BY <1>2, <1>3, <3>1
    <3> QED BY <3>1, <3>2 DEF FirstOnes
  <2>2. ASSUME NEW m \in 1 .. k PROVE b[m] \in open .. b[k] /\ IsMark(text[b[m]], right)
    <3>1. m \in 1 .. n /\ m <= k
      OBVIOUS
    <3>2. b[m] \in open .. b[k]
      BY <1>2, <3>1
    <3> QED BY <1>3, <3>1, <3>2 DEF MarksAre
  <2> QED BY <2>1, <2>2 DEF MarksUpTo, FirstOnes
<1>5. MarksUpTo(text, open, b[k], left) = FirstOnes(a, k) \cup {open}
  <2>1. ASSUME NEW i \in open .. b[k], IsMark(text[i], left)
        PROVE  i \in FirstOnes(a, k) \cup {open}
    <3>1. CASE i = open
      BY <3>1
    <3>2. CASE i # open
      <4>1. PICK m \in 1 .. n : i = a[m]
        BY <1>3, <2>1, <3>2 DEF MarksAre
      <4>2. m \in 1 .. k
        BY <1>2, <1>3, <4>1
      <4> QED BY <4>1, <4>2 DEF FirstOnes
    <3> QED BY <3>1, <3>2
  <2>2. ASSUME NEW m \in 1 .. k PROVE a[m] \in open .. b[k] /\ IsMark(text[a[m]], left)
    <3>1. m \in 1 .. n /\ m <= k
      OBVIOUS
    <3>2. a[m] \in open .. b[k]
      BY <1>2, <3>1
    <3> QED BY <1>3, <3>1, <3>2 DEF MarksAre
  <2>3. open \in open .. b[k] /\ IsMark(text[open], left)
    <3>1. open \in open .. b[k]
      BY <1>2
    <3> QED BY <1>3, <3>1 DEF MarksAre
  <2> QED BY <2>1, <2>2, <2>3 DEF MarksUpTo, FirstOnes
<1>6. open \notin FirstOnes(a, k)
  <2>1. \A m \in 1 .. k : m \in 1 .. n /\ open # a[m]
    BY <1>2
  <2> QED BY <2>1 DEF FirstOnes
<1>7. k \in 0 .. n
  OBVIOUS
<1>8. Cardinality(FirstOnes(b, k)) = k
  BY <1>1, <1>7, FirstOnesCount
<1>9. IsFiniteSet(FirstOnes(a, k)) /\ Cardinality(FirstOnes(a, k)) = k
  BY <1>1, <1>7, FirstOnesCount
<1>10. Cardinality(FirstOnes(a, k) \cup {open}) = k + 1
  BY <1>6, <1>9, FS_AddElement
<1> QED BY <1>4, <1>5, <1>8, <1>10

\* At the last closing bracket as many have closed as have opened.
LEMMA CountsAtClose ==
    ASSUME NEW text, Len(text) \in Nat, NEW n \in Nat, NEW a, NEW b,
           NEW open \in Nat, NEW close \in Nat, NEW left, NEW right,
           Pairs(n, a, b, open, close), open < close, close <= Len(text),
           MarksAre(text, open, close, n, a, b, left, right)
    PROVE  Cardinality(MarksUpTo(text, open, close, right))
             = Cardinality(MarksUpTo(text, open, close, left))
<1>1. Distinct(a, n) /\ Distinct(b, n)
  BY PairsAreDistinct
<1>2. \A m \in 1 .. n : /\ a[m] \in Nat /\ b[m] \in Nat
                        /\ open < a[m] /\ a[m] < close /\ open < b[m] /\ b[m] < close
  BY DEF Pairs
<1>3. \A i \in open .. close : i \in Int /\ i \in open .. Len(text) /\ i <= close
  OBVIOUS
<1>4. MarksUpTo(text, open, close, right) = FirstOnes(b, n) \cup {close}
  <2>1. ASSUME NEW i \in open .. close
        PROVE  IsMark(text[i], right) <=> i = close \/ \E k \in 1 .. n : i = b[k]
    BY <1>3 DEF MarksAre
  <2>2. close \in open .. close /\ \A k \in 1 .. n : b[k] \in open .. close
    BY <1>2
  <2> QED BY <2>1, <2>2 DEF MarksUpTo, FirstOnes
<1>5. MarksUpTo(text, open, close, left) = FirstOnes(a, n) \cup {open}
  <2>1. ASSUME NEW i \in open .. close
        PROVE  IsMark(text[i], left) <=> i = open \/ \E k \in 1 .. n : i = a[k]
    BY <1>3 DEF MarksAre
  <2>2. open \in open .. close /\ \A k \in 1 .. n : a[k] \in open .. close
    BY <1>2
  <2> QED BY <2>1, <2>2 DEF MarksUpTo, FirstOnes
<1>6. open \notin FirstOnes(a, n) /\ close \notin FirstOnes(b, n)
  <2>1. \A m \in 1 .. n : open # a[m] /\ close # b[m]
    BY <1>2
  <2> QED BY <2>1 DEF FirstOnes
<1>7. n \in 0 .. n
  OBVIOUS
<1>8. IsFiniteSet(FirstOnes(b, n)) /\ Cardinality(FirstOnes(b, n)) = n
  BY <1>1, <1>7, FirstOnesCount
<1>9. IsFiniteSet(FirstOnes(a, n)) /\ Cardinality(FirstOnes(a, n)) = n
  BY <1>1, <1>7, FirstOnesCount
<1>10. Cardinality(FirstOnes(a, n) \cup {open}) = n + 1
  BY <1>6, <1>9, FS_AddElement
<1>11. Cardinality(FirstOnes(b, n) \cup {close}) = n + 1
  BY <1>6, <1>8, FS_AddElement
<1> QED BY <1>4, <1>5, <1>10, <1>11

\* The first of some places is the one that none comes before.
LEMMA FirstOfIs ==
    /\ FirstOf({}) = 0
    /\ \A S \in SUBSET Int : \A x \in S : (\A y \in S : x <= y) => FirstOf(S) = x
<1>1. FirstOf({}) = 0
  BY DEF FirstOf
<1>2. ASSUME NEW S \in SUBSET Int, NEW x \in S, \A y \in S : x <= y PROVE FirstOf(S) = x
  <2>1. Min(S) = x
    BY <1>2, MinIs
  <2> QED BY <2>1 DEF FirstOf
<1> QED BY <1>1, <1>2

\* The counterpart is found, if it has not been cut off.
LEMMA Matched ==
    ASSUME NEW text, PlainText(text), NEW left \in Lefts, NEW n \in Nat, NEW a, NEW b,
           NEW open \in 1 .. Len(text), NEW close \in Nat, open < close,
           Pairs(n, a, b, open, close),
           MarksAre(text, open, close, n, a, b, left, Closer(left))
    PROVE  MatchBrace(text, open) = IF close <= Len(text) THEN close ELSE 0
<1> DEFINE L == Len(text)
           right == Closer(left)
           S == Balanced(text, open, left, right)
<1>0. L \in Nat /\ open \in Nat /\ open <= L /\ open \in open .. L /\ open <= close
  BY DEF PlainText
<1>1. IsMark(text[open], left)
  BY <1>0 DEF MarksAre
<1>2. MatchBrace(text, open) = FirstOf(S)
  BY <1>1, MatchBraceIs
<1>3. ASSUME NEW i \in S, i < close PROVE FALSE
  <2>1. i \in open .. L /\ IsMark(text[i], right)
        /\ Cardinality(MarksUpTo(text, open, i, right)) = Cardinality(MarksUpTo(text, open, i, left))
    BY DEF Balanced
  <2>2. i <= close /\ i # close /\ i <= L
    BY <1>0, <1>3, <2>1
  <2>3. PICK k \in 1 .. n : i = b[k]
    BY <2>1, <2>2 DEF MarksAre
  <2> QED BY <1>0, <2>1, <2>2, <2>3, CountsUpToPair
<1>4. S \in SUBSET Int /\ \A i \in S : i <= L /\ close <= i
  <2>1. \A i \in S : i \in open .. L
    BY DEF Balanced
  <2> HIDE DEF S
  <2> QED BY <1>0, <1>3, <2>1
<1>5. CASE close <= L
  <2>1. close \in open .. L
    BY <1>0, <1>5
  <2>2. IsMark(text[close], right)
    BY <2>1 DEF MarksAre
  <2>3. close \in S
    BY <1>0, <1>5, <2>1, <2>2, CountsAtClose DEF Balanced
  <2> HIDE DEF S
  <2>4. FirstOf(S) = close
    BY <1>4, <2>3, FirstOfIs
  <2> QED BY <1>2, <1>5, <2>4
<1>6. CASE ~(close <= L)
  <2> HIDE DEF S, L
  <2>1. S = {}
    BY <1>0, <1>4, <1>6
  <2>2. FirstOf(S) = 0
    BY <2>1, FirstOfIs
  <2> QED BY <1>2, <1>6, <2>2 DEF L
<1> QED BY <1>5, <1>6

(***************************************************************************)
(* The objects of a list.                                                  *)
(***************************************************************************)

\* One turn of the loop over the objects, and what it makes of the rest.
NextOpen(text, cursor) == FirstOf({i \in cursor .. Len(text) : Brace(text[i]) = "{"})
Ends(text, end, cursor) ==
    \/ NextOpen(text, cursor) = 0
    \/ NextOpen(text, cursor) >= end
    \/ MatchBrace(text, NextOpen(text, cursor)) = 0
Place(text, cursor) ==
    [open |-> NextOpen(text, cursor), close |-> MatchBrace(text, NextOpen(text, cursor))]
PlacesFrom(g, text, end, cursor) ==
    IF Ends(text, end, cursor) THEN <<>>
    ELSE <<Place(text, cursor)>> \o g[Place(text, cursor).close + 1]

\* The loop as a function of where it stands.
IsLoop(g, text, end, low) ==
    g = [cursor \in low .. (Len(text) + 1) |-> PlacesFrom(g, text, end, cursor)]

\* A position that a search finds is one of those it looks at.
LEMMA FirstOfIn ==
    ASSUME NEW S \in SUBSET Nat
    PROVE  FirstOf(S) = 0 \/ FirstOf(S) \in S
<1>1. CASE S = {}
  BY <1>1 DEF FirstOf
<1>2. CASE S # {}
  BY <1>2, MinNat DEF FirstOf
<1> QED BY <1>1, <1>2

\* The counterpart of a bracket is behind it, or there is none.
LEMMA MatchBraceRange ==
    ASSUME NEW text, Len(text) \in Nat, NEW open \in 1 .. Len(text)
    PROVE  MatchBrace(text, open) = 0 \/ MatchBrace(text, open) \in open .. Len(text)
<1> DEFINE bracket == Brace(text[open])
           close == IF bracket = "{" THEN "}" ELSE "]"
           quotes == {i \in open .. Len(text) : EscapesQuote(text[i])}
                         \cup (IF text[open].is = "string" THEN {open} ELSE {})
           toggles == IF text[open].is = "string" /\ EscapesQuote(text[open])
                      THEN quotes \ {open} ELSE quotes
           InString(i) == Cardinality({j \in toggles : j < i}) % 2 = 1
           counted == {i \in open .. Len(text) : i = open \/ Counts(InString(i), text[i])}
           opens == {i \in counted : Brace(text[i]) = bracket}
           closes == {i \in counted : Brace(text[i]) = close}
           S == {i \in closes : Cardinality({j \in closes : j <= i})
                                  = Cardinality({j \in opens : j <= i})}
<1>1. MatchBrace(text, open) = FirstOf(S)
  BY Zenon DEF MatchBrace
<1>2. \A i \in S : i \in open .. Len(text)
  BY Zenon
<1> HIDE DEF S
<1>3. S \in SUBSET Nat
  BY <1>2
<1>4. FirstOf(S) = 0 \/ FirstOf(S) \in S
  BY <1>3, FirstOfIn
<1> QED BY <1>1, <1>2, <1>4

\* The loop moves on.
LEMMA LoopMovesOn ==
    ASSUME NEW text, Len(text) \in Nat, NEW end, NEW cursor \in 1 .. (Len(text) + 1),
           ~Ends(text, end, cursor)
    PROVE  /\ Place(text, cursor).close \in cursor .. Len(text)
           /\ NextOpen(text, cursor) \in cursor .. Len(text)
<1> DEFINE open == NextOpen(text, cursor)
           close == MatchBrace(text, open)
           S == {i \in cursor .. Len(text) : Brace(text[i]) = "{"}
<1>1. open = FirstOf(S) /\ \A i \in S : i \in cursor .. Len(text)
  BY Zenon DEF NextOpen
<1> HIDE DEF S
<1>2. S \in SUBSET Nat
  BY <1>1
<1>3. open # 0 /\ close # 0
  BY Zenon DEF Ends
<1>4. open \in cursor .. Len(text)
  BY <1>1, <1>2, <1>3, FirstOfIn
<1>5. close \in open .. Len(text)
  BY <1>3, <1>4, MatchBraceRange
<1>6. Place(text, cursor).close = close
  BY DEF Place
<1> HIDE DEF open, close
<1>7. close \in cursor .. Len(text)
  BY <1>4, <1>5
<1> QED BY <1>4, <1>6, <1>7 DEF open

\* The loop of objects is a function: every step moves on.
LEMMA LoopExists ==
    ASSUME NEW text, Len(text) \in Nat, NEW end
    PROVE  \E g : IsLoop(g, text, end, 1)
<1> DEFINE L == Len(text)
           G == {d \in Nat : d <= L => \E g : IsLoop(g, text, end, L + 1 - d)}
<1>1. 0 \in G
  <2>1. Ends(text, end, L + 1)
    <3>1. ASSUME ~Ends(text, end, L + 1) PROVE FALSE
      <4>1. NextOpen(text, L + 1) \in (L + 1) .. L
        BY <3>1, LoopMovesOn
      <4> QED BY <4>1
    <3> QED BY <3>1
  <2> DEFINE g == [cursor \in (L + 1 - 0) .. (L + 1) |-> <<>>]
  <2>2. \A cursor \in (L + 1 - 0) .. (L + 1) : PlacesFrom(g, text, end, cursor) = <<>>
    <3>1. \A cursor \in (L + 1 - 0) .. (L + 1) : cursor = L + 1
      OBVIOUS
    <3> QED BY <2>1, <3>1 DEF PlacesFrom
  <2>3. g = [cursor \in (L + 1 - 0) .. (L + 1) |-> PlacesFrom(g, text, end, cursor)]
    BY <2>2
  <2>4. IsLoop(g, text, end, L + 1 - 0)
    BY <2>3 DEF IsLoop
  <2> QED BY <2>4
<1>2. ASSUME NEW d \in Nat, d \in G PROVE d + 1 \in G
  <2> SUFFICES ASSUME d + 1 <= L PROVE \E h : IsLoop(h, text, end, L + 1 - (d + 1))
    OBVIOUS
  <2> DEFINE low == L + 1 - d
             now == L + 1 - (d + 1)
  <2>0. low \in Nat /\ now \in Nat /\ low = now + 1 /\ now >= 1 /\ now <= L
        /\ L \in Nat /\ now \in now .. (L + 1)
    OBVIOUS
  <2>1. PICK g : IsLoop(g, text, end, low)
    BY <1>2
  <2> HIDE DEF low, now, L
  <2> DEFINE h == [cursor \in now .. (L + 1) |-> IF cursor = now THEN PlacesFrom(g, text, end, now)
                                                ELSE g[cursor]]
  <2>2. \A cursor \in low .. (L + 1) : h[cursor] = g[cursor]
    BY <2>0
  <2>3. h[now] = PlacesFrom(g, text, end, now)
    BY <2>0
  <2>4. \A cursor \in low .. (L + 1) : g[cursor] = PlacesFrom(g, text, end, cursor)
    <3> DEFINE k == [cursor \in low .. (L + 1) |-> PlacesFrom(g, text, end, cursor)]
    <3>1. g = k
      BY <2>1 DEF IsLoop, L
    <3>2. \A cursor \in low .. (L + 1) : k[cursor] = PlacesFrom(g, text, end, cursor)
      OBVIOUS
    <3> HIDE DEF k
    <3> QED BY <3>1, <3>2
  <2> DEFINE e == [cursor \in now .. (L + 1) |-> PlacesFrom(h, text, end, cursor)]
  <2>5. h = e
    <3>1. ASSUME NEW cursor \in now .. (L + 1)
          PROVE  PlacesFrom(g, text, end, cursor) = PlacesFrom(h, text, end, cursor)
      <4> HIDE DEF h
      <4>1. CASE Ends(text, end, cursor)
        BY <4>1 DEF PlacesFrom
      <4>2. CASE ~Ends(text, end, cursor)
        <5>1. cursor \in 1 .. (Len(text) + 1)
          BY <2>0 DEF L
        <5>2. Place(text, cursor).close \in cursor .. Len(text)
          BY <4>2, <5>1, LoopMovesOn
        <5>3. Place(text, cursor).close + 1 \in low .. (L + 1)
          BY <2>0, <5>2 DEF L
        <5> QED BY <2>2, <4>2, <5>3 DEF PlacesFrom
      <4> QED BY <4>1, <4>2
    <3>2. \A cursor \in now .. (L + 1) : h[cursor] = PlacesFrom(h, text, end, cursor)
      <4> SUFFICES ASSUME NEW cursor \in now .. (L + 1)
                   PROVE  h[cursor] = PlacesFrom(h, text, end, cursor)
        OBVIOUS
      <4> HIDE DEF h
      <4>1. CASE cursor = now
        BY <2>3, <3>1, <4>1
      <4>2. CASE cursor # now
        <5>1. cursor \in low .. (L + 1)
          BY <2>0, <4>2
        <5> QED BY <2>2, <2>4, <3>1, <5>1
      <4> QED BY <4>1, <4>2
    <3> HIDE DEF PlacesFrom
    <3> QED BY <3>2
  <2>6. IsLoop(h, text, end, now)
    <3> HIDE DEF h
    <3> QED BY <2>5 DEF IsLoop, L
  <2> HIDE DEF h
  <2> QED BY <2>6 DEF now, L
<1>3. L \in G
  <2> HIDE DEF G
  <2> QED BY <1>1, <1>2, Successors
<1>4. L + 1 - L = 1 /\ L <= L
  OBVIOUS
<1> QED BY <1>3, <1>4

\* Objects that stand one behind the other; `q` says where each begins, and where
\* the text goes on behind the last one that is whole.
Chain(text, at, end, m, q) ==
    /\ q[1] = at + 1
    /\ \A j \in 1 .. m : /\ q[j] \in 1 .. Len(text) /\ q[j] < end
                         /\ Brace(text[q[j]]) = LeftBrace
                         /\ q[j + 1] \in Nat /\ q[j] < q[j + 1]
                         /\ MatchBrace(text, q[j]) = q[j + 1] - 1
    /\ q[m + 1] \in 1 .. (Len(text) + 1)
    /\ \/ q[m + 1] = Len(text) + 1
       \/ q[m + 1] >= end
       \/ Brace(text[q[m + 1]]) = LeftBrace /\ MatchBrace(text, q[m + 1]) = 0

Stretch(q, j) == [open |-> q[j], close |-> q[j + 1] - 1]

\* The next opening brace is the next link of the chain.
LEMMA NextOpenIs ==
    ASSUME NEW text, Len(text) \in Nat, NEW cursor \in 1 .. Len(text),
           Brace(text[cursor]) = LeftBrace
    PROVE  NextOpen(text, cursor) = cursor
<1> DEFINE S == {i \in cursor .. Len(text) : Brace(text[i]) = LeftBrace}
<1>1. NextOpen(text, cursor) = FirstOf(S)
  BY Zenon DEF NextOpen, LeftBrace
<1>2. cursor \in S /\ S \in SUBSET Int /\ \A i \in S : cursor <= i
  OBVIOUS
<1> HIDE DEF S
<1> QED BY <1>1, <1>2, FirstOfIs

\* Behind the last link there is no object before the end.
LEMMA EndOfChain ==
    ASSUME NEW text, Len(text) \in Nat, NEW end \in Nat, NEW at \in Nat, NEW m \in Nat, NEW q,
           Chain(text, at, end, m, q)
    PROVE  Ends(text, end, q[m + 1])
<1> DEFINE c == q[m + 1]
           open == NextOpen(text, c)
           S == {i \in c .. Len(text) : Brace(text[i]) = "{"}
<1>0. /\ c \in 1 .. (Len(text) + 1)
      /\ \/ c = Len(text) + 1
         \/ c >= end
         \/ Brace(text[c]) = LeftBrace /\ MatchBrace(text, c) = 0
  BY DEF Chain
<1> SUFFICES Ends(text, end, c)
  OBVIOUS
<1> HIDE DEF c
<1>1. open = FirstOf(S) /\ \A i \in S : i \in c .. Len(text)
  BY Zenon DEF NextOpen
<1>2. open = 0 \/ open \in c .. Len(text)
  <2> HIDE DEF S
  <2>1. S \in SUBSET Nat
    BY <1>0, <1>1
  <2> QED BY <1>1, <2>1, FirstOfIn
<1> HIDE DEF open
<1>5. Ends(text, end, c) <=> open = 0 \/ open >= end \/ MatchBrace(text, open) = 0
  BY Zenon DEF Ends, open
<1>3. CASE open = 0 \/ open >= end
  BY <1>5, <1>3, Zenon
<1>4. CASE open # 0 /\ ~(open >= end)
  <2>1. open \in c .. Len(text)
    BY <1>2, <1>4
  <2>2. c \in 1 .. Len(text) /\ c < end
    BY <1>0, <1>4, <2>1
  <2>3. Brace(text[c]) = LeftBrace /\ MatchBrace(text, c) = 0
    BY <1>0, <2>2
  <2>4. open = c
    BY <2>2, <2>3, NextOpenIs DEF open
  <2> QED BY <1>5, <2>3, <2>4, Zenon
<1> QED BY <1>3, <1>4

\* At a link the object runs up to before the next one.
LEMMA LinkOfChain ==
    ASSUME NEW text, Len(text) \in Nat, NEW end \in Nat, NEW at \in Nat, NEW m \in Nat, NEW q,
           Chain(text, at, end, m, q), NEW j \in 1 .. m
    PROVE  ~Ends(text, end, q[j]) /\ Place(text, q[j]) = Stretch(q, j)
<1> DEFINE c == q[j]
           d == q[j + 1]
<1>1. /\ c \in 1 .. Len(text) /\ c < end
      /\ Brace(text[c]) = LeftBrace
      /\ d \in Nat /\ c < d
      /\ MatchBrace(text, c) = d - 1
  BY DEF Chain
<1>2. Place(text, c) = [open |-> c, close |-> d - 1] /\ ~Ends(text, end, c)
  <2> HIDE DEF c, d
  <2>1. NextOpen(text, c) = c
    BY <1>1, NextOpenIs
  <2>2. c # 0 /\ ~(c >= end) /\ d - 1 # 0
    BY <1>1
  <2> QED BY <1>1, <2>1, <2>2 DEF Place, Ends
<1> QED BY <1>2 DEF Stretch

\* Of a list whose objects stand one behind the other those are found, in order.
LEMMA ObjectsAre ==
    ASSUME NEW text, Len(text) \in Nat, NEW at \in 1 .. Len(text), NEW m \in Nat, NEW q,
           NEW end \in Nat,
           end = IF MatchBrace(text, at) = 0 THEN Len(text) + 1 ELSE MatchBrace(text, at),
           Chain(text, at, end, m, q)
    PROVE  Objects(text, at) = [j \in 1 .. m |-> Stretch(q, j)]
<1> DEFINE L == Len(text)
           loop == CHOOSE g : IsLoop(g, text, end, 1)
<1>1. Objects(text, at) = loop[at + 1]
  <2> DEFINE from == CHOOSE g : g = [cursor \in 1 .. (Len(text) + 1) |->
                         IF NextOpen(text, cursor) = 0 \/ NextOpen(text, cursor) >= end THEN <<>>
                         ELSE IF MatchBrace(text, NextOpen(text, cursor)) = 0 THEN <<>>
                         ELSE <<Place(text, cursor)>> \o g[MatchBrace(text, NextOpen(text, cursor)) + 1]]
  <2>1. Objects(text, at) = from[at + 1]
    BY Zenon DEF Objects, NextOpen, Place
  <2>2. \A g : \A cursor :
           (IF NextOpen(text, cursor) = 0 \/ NextOpen(text, cursor) >= end THEN <<>>
            ELSE IF MatchBrace(text, NextOpen(text, cursor)) = 0 THEN <<>>
            ELSE <<Place(text, cursor)>> \o g[MatchBrace(text, NextOpen(text, cursor)) + 1])
           = PlacesFrom(g, text, end, cursor)
    <3>1. \A cursor : Place(text, cursor).close = MatchBrace(text, NextOpen(text, cursor))
      BY DEF Place
    <3> QED BY <3>1, Zenon DEF PlacesFrom, Ends
  <2>3. from = loop
    <3>1. ASSUME NEW g
          PROVE  g = [cursor \in 1 .. (Len(text) + 1) |->
                         IF NextOpen(text, cursor) = 0 \/ NextOpen(text, cursor) >= end THEN <<>>
                         ELSE IF MatchBrace(text, NextOpen(text, cursor)) = 0 THEN <<>>
                         ELSE <<Place(text, cursor)>> \o g[MatchBrace(text, NextOpen(text, cursor)) + 1]]
                 <=> IsLoop(g, text, end, 1)
      <4> HIDE DEF PlacesFrom, Place, NextOpen
      <4> QED BY <2>2, Zenon DEF IsLoop
    <3> QED BY <3>1, Zenon
  <2> QED BY <2>1, <2>3
<1>2. IsLoop(loop, text, end, 1)
  <2>1. \E g : IsLoop(g, text, end, 1)
    BY LoopExists
  <2> QED BY <2>1, Zenon
<1> HIDE DEF loop
<1>3. \A cursor \in 1 .. (L + 1) : loop[cursor] = PlacesFrom(loop, text, end, cursor)
  <2> DEFINE k == [cursor \in 1 .. (L + 1) |-> PlacesFrom(loop, text, end, cursor)]
  <2>1. loop = k
    BY <1>2 DEF IsLoop
  <2>2. \A cursor \in 1 .. (L + 1) : k[cursor] = PlacesFrom(loop, text, end, cursor)
    OBVIOUS
  <2> HIDE DEF k
  <2> QED BY <2>1, <2>2
<1>4. q[1] = at + 1 /\ q[m + 1] \in 1 .. (L + 1) /\ \A j \in 1 .. m : q[j] \in 1 .. (L + 1)
  BY DEF Chain
<1>5. loop[q[m + 1]] = <<>>
  <2>1. Ends(text, end, q[m + 1])
    BY EndOfChain
  <2> QED BY <1>3, <1>4, <2>1 DEF PlacesFrom
<1>6. ASSUME NEW j \in 1 .. m
      PROVE  loop[q[j]] = <<Stretch(q, j)>> \o loop[q[j + 1]]
  <2>1. ~Ends(text, end, q[j]) /\ Place(text, q[j]) = Stretch(q, j)
    BY LinkOfChain
  <2>2. Stretch(q, j).close + 1 = q[j + 1]
    <3>1. q[j + 1] \in Nat
      BY DEF Chain
    <3>2. Stretch(q, j).close = q[j + 1] - 1
      BY DEF Stretch
    <3> QED BY <3>1, <3>2
  <2> QED BY <1>3, <1>4, <2>1, <2>2 DEF PlacesFrom
<1> DEFINE Rest(d) == [i \in 1 .. d |-> Stretch(q, m - d + i)]
           G == {d \in Nat : d <= m => loop[q[m + 1 - d]] = Rest(d)}
<1>7. 0 \in G
  <2>1. m + 1 - 0 = m + 1
    OBVIOUS
  <2>2. Rest(0) = <<>>
    OBVIOUS
  <2> HIDE DEF Rest
  <2> QED BY <1>5, <2>1, <2>2
<1>8. ASSUME NEW d \in Nat, d \in G PROVE d + 1 \in G
  <2> SUFFICES ASSUME d + 1 <= m PROVE loop[q[m + 1 - (d + 1)]] = Rest(d + 1)
    BY DEF G
  <2>1. m + 1 - (d + 1) = m - d /\ m - d + 1 = m + 1 - d /\ m - d \in 1 .. m
    OBVIOUS
  <2>2. loop[q[m + 1 - d]] = Rest(d)
    BY <1>8 DEF G
  <2>3. loop[q[m - d]] = <<Stretch(q, m - d)>> \o Rest(d)
    BY <1>6, <2>1, <2>2
  <2>4. <<Stretch(q, m - d)>> \o Rest(d) = Rest(d + 1)
    <3> DEFINE P(j) == Stretch(q, j)
    <3>1. \A i \in 1 .. (d + 1) : m - (d + 1) + i = IF i = 1 THEN m - d ELSE m - d + (i - 1)
      OBVIOUS
    <3> HIDE DEF P
    <3>2. <<P(m - d)>> \o [i \in 1 .. d |-> P(m - d + i)] = [i \in 1 .. (d + 1) |-> P(m - (d + 1) + i)]
      <4> DEFINE v == [i \in 1 .. d |-> P(m - d + i)]
      <4>1. <<P(m - d)>> \o v = [i \in 1 .. (d + 1) |-> IF i = 1 THEN P(m - d) ELSE v[i - 1]]
        OBVIOUS
      <4>2. \A i \in 1 .. (d + 1) : (IF i = 1 THEN P(m - d) ELSE v[i - 1]) = P(m - (d + 1) + i)
        <5>1. ASSUME NEW i \in 1 .. (d + 1), i # 1 PROVE v[i - 1] = P(m - d + (i - 1))
          <6>1. i - 1 \in 1 .. d
            BY <5>1
          <6> QED BY <6>1
        <5> HIDE DEF v
        <5> QED BY <3>1, <5>1
      <4> HIDE DEF v
      <4> QED BY <4>1, <4>2
    <3> QED BY <3>2 DEF P
  <2> QED BY <2>1, <2>3, <2>4
<1>9. m \in G
  <2> HIDE DEF G
  <2> QED BY <1>7, <1>8, Successors
<1>10. loop[q[m + 1 - m]] = Rest(m)
  BY <1>9 DEF G
<1>11. m + 1 - m = 1
  OBVIOUS
<1>12. Rest(m) = [j \in 1 .. m |-> Stretch(q, j)]
  <2>1. \A i \in 1 .. m : m - m + i = i
    OBVIOUS
  <2> QED BY <2>1
<1> QED BY <1>1, <1>4, <1>10, <1>11, <1>12

(***************************************************************************)
(* What is flattened, part by part.                                        *)
(***************************************************************************)

\* Part k lies behind position s[k].
Offsets(s, cs, n) ==
    /\ s[1] = 0
    /\ \A k \in 1 .. (n + 1) : s[k] \in Nat
    /\ \A k \in 1 .. n : Len(cs[k]) \in Nat /\ s[k + 1] = s[k] + Len(cs[k])

PartsLie(flat, cs, m, s) ==
    \A k \in 1 .. m : /\ s[k] + Len(cs[k]) <= Len(flat)
                      /\ \A i \in 1 .. Len(cs[k]) : flat[s[k] + i] = cs[k][i]

\* In a run that flattens sequences each of them lies at its offset.
LEMMA PartsOfRun ==
    ASSUME NEW T, NEW n \in Nat, NEW cs, NEW f, RunsThrough(f, cs, n), Typed(cs, n, T),
           NEW s, s = [k \in 1 .. (n + 1) |-> IF k = 1 THEN 0 ELSE Len(f[k - 1])]
    PROVE  /\ Offsets(s, cs, n)
           /\ \A m \in 1 .. n : Len(f[m]) = s[m + 1] /\ PartsLie(f[m], cs, m, s)
<1>1. \A m \in 1 .. n : f[m] \in Seq(T) /\ cs[m] \in Seq(T)
  BY RunsAreTyped DEF Typed
<1>2. \A m \in 1 .. n : Len(f[m]) \in Nat /\ Len(cs[m]) \in Nat
  BY <1>1, LenProperties
<1>3. s[1] = 0 /\ \A m \in 1 .. n : s[m + 1] = Len(f[m])
  <2>1. 1 \in 1 .. (n + 1)
    OBVIOUS
  <2>2. \A m \in 1 .. n : m + 1 \in 1 .. (n + 1) /\ m + 1 # 1 /\ m + 1 - 1 = m
    OBVIOUS
  <2> QED BY <2>1, <2>2
<1>4. \A k \in 1 .. (n + 1) : s[k] \in Nat
  <2> SUFFICES ASSUME NEW k \in 1 .. (n + 1) PROVE s[k] \in Nat
    OBVIOUS
  <2>1. CASE k = 1
    BY <1>3, <2>1
  <2>2. CASE k # 1
    <3>1. k - 1 \in 1 .. n /\ k - 1 + 1 = k
      BY <2>2
    <3> QED BY <1>2, <1>3, <3>1
  <2> QED BY <2>1, <2>2
<1>5. \A m \in 1 .. n : m # 1 => f[m] = f[m - 1] \o cs[m] /\ m - 1 \in 1 .. n
  <2>1. \A m \in 1 .. n : m # 1 => m \in 2 .. n /\ m - 1 \in 1 .. n
    OBVIOUS
  <2> QED BY <2>1 DEF RunsThrough
<1>6. f[1] = cs[1]
  BY DEF RunsThrough
<1>7. \A m \in 1 .. n : m # 1 =>
        /\ Len(f[m]) = Len(f[m - 1]) + Len(cs[m])
        /\ \A i \in 1 .. Len(f[m - 1]) : f[m][i] = f[m - 1][i]
        /\ \A i \in 1 .. Len(cs[m]) : f[m][Len(f[m - 1]) + i] = cs[m][i]
  <2> SUFFICES ASSUME NEW m \in 1 .. n, m # 1
               PROVE  /\ Len(f[m]) = Len(f[m - 1]) + Len(cs[m])
                      /\ \A i \in 1 .. Len(f[m - 1]) : f[m][i] = f[m - 1][i]
                      /\ \A i \in 1 .. Len(cs[m]) : f[m][Len(f[m - 1]) + i] = cs[m][i]
    OBVIOUS
  <2> DEFINE a == f[m - 1]
             c == cs[m]
             j == a \o c
  <2>1. f[m] = j /\ a \in Seq(T) /\ c \in Seq(T)
    BY <1>1, <1>5
  <2> HIDE DEF a, c, j
  <2>2. Len(j) = Len(a) + Len(c)
        /\ \A i \in 1 .. Len(a) + Len(c) : j[i] = IF i <= Len(a) THEN a[i] ELSE c[i - Len(a)]
    BY <2>1, ConcatProperties DEF j
  <2>3. Len(a) \in Nat /\ Len(c) \in Nat
    BY <2>1, LenProperties
  <2>4. \A i \in 1 .. Len(a) : j[i] = a[i]
    BY <2>2, <2>3
  <2>5. \A i \in 1 .. Len(c) : j[Len(a) + i] = c[i]
    <3> SUFFICES ASSUME NEW i \in 1 .. Len(c) PROVE j[Len(a) + i] = c[i]
      OBVIOUS
    <3>1. Len(a) + i \in 1 .. Len(a) + Len(c) /\ ~(Len(a) + i <= Len(a)) /\ Len(a) + i - Len(a) = i
      BY <2>3
    <3> QED BY <2>2, <3>1
  <2> QED BY <2>1, <2>2, <2>4, <2>5 DEF a, c
<1>8. Offsets(s, cs, n)
  <2>1. ASSUME NEW k \in 1 .. n PROVE s[k + 1] = s[k] + Len(cs[k])
    <3>1. CASE k = 1
      BY <1>2, <1>3, <1>6, <3>1
    <3>2. CASE k # 1
      <4>1. k - 1 \in 1 .. n /\ k - 1 + 1 = k
        BY <3>2
      <4>2. s[k - 1 + 1] = Len(f[k - 1]) /\ s[k + 1] = Len(f[k])
        BY <1>3, <4>1
      <4>3. Len(f[k]) = Len(f[k - 1]) + Len(cs[k])
        BY <1>7, <3>2, Zenon
      <4> QED BY <4>1, <4>2, <4>3
    <3> QED BY <3>1, <3>2
  <2> QED BY <1>2, <1>3, <1>4, <2>1 DEF Offsets
<1> DEFINE G == {m \in Nat : m \in 1 .. n => PartsLie(f[m], cs, m, s)}
<1>9. 0 \in G
  OBVIOUS
<1>10. ASSUME NEW m \in Nat, m \in G PROVE m + 1 \in G
  <2> SUFFICES ASSUME NEW M \in 1 .. n, M = m + 1 PROVE PartsLie(f[M], cs, M, s)
    OBVIOUS
  <2> SUFFICES ASSUME NEW k \in 1 .. M
               PROVE  /\ s[k] + Len(cs[k]) <= Len(f[M])
                      /\ \A i \in 1 .. Len(cs[k]) : f[M][s[k] + i] = cs[k][i]
    BY DEF PartsLie
  <2>1. CASE m = 0
    <3>1. k = 1 /\ M = 1
      BY <2>1
    <3>2. f[M] = cs[k]
      BY <1>6, <3>1
    <3>5. s[k] = 0 /\ Len(cs[k]) \in Nat
      BY <1>2, <1>3, <3>1
    <3>3. s[k] + Len(cs[k]) <= Len(f[M])
      BY <3>2, <3>5
    <3>4. ASSUME NEW i \in 1 .. Len(cs[k]) PROVE f[M][s[k] + i] = cs[k][i]
      <4>1. i \in Nat
        BY <3>5
      <4>2. s[k] + i = i
        <5>1. \A o : o = 0 => o + i = i
          BY <4>1
        <5> QED BY <3>5, <5>1, Zenon
      <4> QED BY <3>2, <4>2, Zenon
    <3> QED BY <3>3, <3>4
  <2>2. CASE m # 0
    <3>1. m \in 1 .. n /\ M # 1 /\ M - 1 = m
      BY <2>2
    <3>2. PartsLie(f[m], cs, m, s)
      BY <1>10, <3>1
    <3>3. /\ Len(f[M]) = Len(f[m]) + Len(cs[M])
          /\ \A i \in 1 .. Len(f[m]) : f[M][i] = f[m][i]
          /\ \A i \in 1 .. Len(cs[M]) : f[M][Len(f[m]) + i] = cs[M][i]
      <4>1. \A e : e = m => /\ Len(f[e]) = Len(f[m])
                           /\ f[e] = f[m]
        OBVIOUS
      <4>2. M - 1 = m
        BY <3>1
      <4>3. /\ Len(f[M]) = Len(f[M - 1]) + Len(cs[M])
            /\ \A i \in 1 .. Len(f[M - 1]) : f[M][i] = f[M - 1][i]
            /\ \A i \in 1 .. Len(cs[M]) : f[M][Len(f[M - 1]) + i] = cs[M][i]
        BY <1>7, <3>1, Zenon
      <4> QED BY <4>2, <4>3, Zenon
    <3>4. s[M] = Len(f[m]) /\ Len(f[m]) \in Nat /\ Len(cs[M]) \in Nat
      BY <1>2, <1>3, <3>1
    <3>5. CASE k = M
      <4>1. s[k] = Len(f[m]) /\ cs[k] = cs[M]
        BY <3>4, <3>5
      <4>2. s[k] + Len(cs[k]) = Len(f[M])
        BY <3>3, <4>1, Zenon
      <4>3. Len(f[M]) \in Nat
        BY <1>2
      <4>4. \A i \in 1 .. Len(cs[k]) : f[M][s[k] + i] = cs[k][i]
        BY <3>3, <4>1, Zenon
      <4>5. s[k] + Len(cs[k]) <= Len(f[M])
        BY <4>2, <4>3
      <4> QED BY <4>4, <4>5, Zenon
    <3>6. CASE k # M
      <4>1. k \in 1 .. m /\ k \in 1 .. (n + 1) /\ k \in 1 .. n
        BY <3>6
      <4>2. s[k] + Len(cs[k]) <= Len(f[m])
            /\ \A i \in 1 .. Len(cs[k]) : f[m][s[k] + i] = cs[k][i]
        BY <3>2, <4>1 DEF PartsLie
      <4>3. s[k] \in Nat /\ Len(cs[k]) \in Nat
        BY <1>2, <1>4, <4>1
      <4> DEFINE a == s[k]
                 l == Len(cs[k])
                 e == Len(f[m])
      <4>4. ASSUME NEW i \in 1 .. l PROVE a + i \in 1 .. e
        <5>1. a \in Nat /\ l \in Nat /\ e \in Nat /\ a + l <= e
          BY <3>4, <4>2, <4>3
        <5> HIDE DEF a, l, e
        <5> QED BY <5>1
      <4>5. s[k] + Len(cs[k]) <= Len(f[M])
        <5>1. a \in Nat /\ l \in Nat /\ e \in Nat /\ a + l <= e /\ Len(f[M]) = e + Len(cs[M])
          BY <3>3, <3>4, <4>2, <4>3
        <5>2. Len(cs[M]) \in Nat
          BY <3>4
        <5> HIDE DEF a, l, e
        <5>3. a + l <= Len(f[M])
          BY <5>1, <5>2
        <5> QED BY <5>3 DEF a, l
      <4>6. ASSUME NEW i \in 1 .. Len(cs[k]) PROVE f[M][s[k] + i] = cs[k][i]
        <5>1. s[k] + i \in 1 .. Len(f[m])
          BY <4>4
        <5>2. f[M][s[k] + i] = f[m][s[k] + i]
          BY <3>3, <5>1
        <5> QED BY <4>2, <5>2
      <4> QED BY <4>5, <4>6
    <3> QED BY <3>5, <3>6
  <2> QED BY <2>1, <2>2
<1>11. \A m \in Nat : m \in G
  <2> HIDE DEF G
  <2> QED BY <1>9, <1>10, Successors
<1>12. \A m \in 1 .. n : PartsLie(f[m], cs, m, s)
  BY <1>11 DEF G
<1> QED BY <1>3, <1>8, <1>12

\* What is flattened is there, part by part, at offsets that add up.
LEMMA FlatParts ==
    ASSUME NEW T, NEW n \in Nat, NEW cs, cs \in [1 .. n -> Seq(T)], Len(cs) = n
    PROVE  \E s : /\ FlattenSeq(cs) \in Seq(T)
                  /\ Offsets(s, cs, n) /\ Len(FlattenSeq(cs)) = s[n + 1]
                  /\ PartsLie(FlattenSeq(cs), cs, n, s)
<1>0. Typed(cs, n, T)
  BY DEF Typed
<1>1. CASE n = 0
  <2>1. FlattenSeq(cs) = cs
    BY <1>1 DEF FlattenSeq
  <2>2. cs = <<>>
    BY <1>1
  <2>3. <<>> \in Seq(T) /\ Len(<<>>) = 0
    BY EmptySeq
  <2> DEFINE s == [k \in 1 .. 1 |-> 0]
  <2>4. s[1] = 0
    OBVIOUS
  <2> HIDE DEF s
  <2>5. Offsets(s, cs, n) /\ PartsLie(FlattenSeq(cs), cs, n, s)
    BY <1>1, <2>4 DEF Offsets, PartsLie
  <2> QED BY <1>1, <2>1, <2>2, <2>3, <2>4, <2>5
<1>2. CASE n # 0
  <2>1. PICK f : FlattenSeq(cs) = f[n] /\ RunsThrough(f, cs, n)
    BY <1>2, FlatRuns
  <2> DEFINE s == [k \in 1 .. (n + 1) |-> IF k = 1 THEN 0 ELSE Len(f[k - 1])]
  <2>2. /\ Offsets(s, cs, n)
        /\ \A m \in 1 .. n : Len(f[m]) = s[m + 1] /\ PartsLie(f[m], cs, m, s)
    BY <1>0, <2>1, PartsOfRun
  <2>3. f[n] \in Seq(T)
    BY <1>0, <1>2, <2>1, RunsAreTyped
  <2> HIDE DEF s
  <2>4. n \in 1 .. n
    BY <1>2
  <2> QED BY <2>1, <2>2, <2>3, <2>4
<1> QED BY <1>1, <1>2

\* Every position lies in one of the parts.
LEMMA InSomePart ==
    ASSUME NEW s, NEW cs, NEW n \in Nat, Offsets(s, cs, n), NEW i \in 1 .. s[n + 1]
    PROVE  \E k \in 1 .. n : \E j \in 1 .. Len(cs[k]) : i = s[k] + j
<1> DEFINE G == {m \in Nat : m <= n => (i <= s[m + 1] =>
                    \E k \in 1 .. n : \E j \in 1 .. Len(cs[k]) : i = s[k] + j)}
<1>0. s[n + 1] \in Nat /\ i \in Nat /\ i >= 1 /\ i <= s[n + 1]
  BY DEF Offsets
<1>1. 0 \in G
  BY <1>0 DEF Offsets
<1>2. ASSUME NEW m \in Nat, m \in G PROVE m + 1 \in G
  <2> SUFFICES ASSUME m + 1 <= n, i <= s[m + 1 + 1]
               PROVE  \E k \in 1 .. n : \E j \in 1 .. Len(cs[k]) : i = s[k] + j
    OBVIOUS
  <2>1. CASE i <= s[m + 1]
    BY <1>2, <2>1
  <2>2. CASE ~(i <= s[m + 1])
    <3>1. m + 1 \in 1 .. n /\ m + 1 \in 1 .. (n + 1)
      OBVIOUS
    <3>2. s[m + 1] \in Nat /\ Len(cs[m + 1]) \in Nat /\ s[m + 1 + 1] = s[m + 1] + Len(cs[m + 1])
      BY <3>1 DEF Offsets
    <3>3. i - s[m + 1] \in 1 .. Len(cs[m + 1]) /\ i = s[m + 1] + (i - s[m + 1])
      BY <1>0, <2>2, <3>2, SMTT(30)
    <3> QED BY <3>1, <3>3
  <2> QED BY <2>1, <2>2
<1>3. n \in G
  <2> HIDE DEF G
  <2> QED BY <1>1, <1>2, Successors
<1> QED BY <1>0, <1>3

(***************************************************************************)
(* What is written where.                                                  *)
(***************************************************************************)

Marks == {LeftBrace, RightBrace, LeftBracket, RightBracket}
Tokens == {Mark(bracket) : bracket \in Marks} \cup {Key(name) : name \in Keys}
              \cup {Quote(string) : string \in STRING} \cup {Num(n) : n \in Nat}

\* A filament stands behind position `at`.
FilamentLies(text, at, f) ==
    /\ text[at + 1] = Mark(LeftBrace)
    /\ text[at + 2] = Key("name") /\ text[at + 3] = Quote(f.name)
    /\ text[at + 4] = Key("type") /\ text[at + 5] = Quote(f.type)
    /\ text[at + 6] = Key("lowFlow") /\ text[at + 7] = Num(f.lowFlow)
    /\ text[at + 8] = Mark(RightBrace)

\* The tokens of a printer, and where they stand.
SizeOf(p) == 13 + 8 * Len(p.filaments)

HeadLies(text, at, p) ==
    /\ text[at + 1] = Mark(LeftBrace)
    /\ text[at + 2] = Key("name") /\ text[at + 3] = Quote(p.name)
    /\ text[at + 4] = Key("rise") /\ text[at + 5] = Num(p.rise)
    /\ text[at + 6] = Key("startMacro") /\ text[at + 7] = Quote(p.startMacro)
    /\ text[at + 8] = Key("maxVelocity") /\ text[at + 9] = Num(p.maxVelocity)
    /\ text[at + 10] = Key("filaments") /\ text[at + 11] = Mark(LeftBracket)

PrinterLies(text, at, p) ==
    /\ HeadLies(text, at, p)
    /\ \A k \in 1 .. Len(p.filaments) : FilamentLies(text, at + 3 + 8 * k, p.filaments[k])
    /\ text[at + SizeOf(p) - 1] = Mark(RightBracket)
    /\ text[at + SizeOf(p)] = Mark(RightBrace)

\* What is written is a token.
LEMMA TokensAre ==
    /\ Mark(LeftBrace) \in Tokens /\ Mark(RightBrace) \in Tokens
    /\ Mark(LeftBracket) \in Tokens /\ Mark(RightBracket) \in Tokens
    /\ Key("printers") \in Tokens /\ Key("name") \in Tokens /\ Key("rise") \in Tokens
    /\ Key("startMacro") \in Tokens /\ Key("maxVelocity") \in Tokens
    /\ Key("filaments") \in Tokens /\ Key("type") \in Tokens /\ Key("lowFlow") \in Tokens
    /\ \A string \in STRING : Quote(string) \in Tokens
    /\ \A n \in Nat : Num(n) \in Tokens
<1>1. \A bracket \in Marks : Mark(bracket) \in Tokens
  BY Zenon DEF Tokens
<1>2. \A name \in Keys : Key(name) \in Tokens
  BY Zenon DEF Tokens
<1>3. /\ \A string \in STRING : Quote(string) \in Tokens
      /\ \A n \in Nat : Num(n) \in Tokens
  BY Zenon DEF Tokens
<1>4. LeftBrace \in Marks /\ RightBrace \in Marks /\ LeftBracket \in Marks /\ RightBracket \in Marks
  BY Zenon DEF Marks
<1>5. /\ "printers" \in Keys /\ "name" \in Keys /\ "rise" \in Keys /\ "startMacro" \in Keys
      /\ "maxVelocity" \in Keys /\ "filaments" \in Keys /\ "type" \in Keys /\ "lowFlow" \in Keys
  BY Zenon DEF Keys
<1> QED BY <1>1, <1>2, <1>3, <1>4, <1>5, Zenon

Octet(a, b, c, d, e, f, g, h) == <<a, b, c, d, e, f, g, h>>
Eleven(a, b, c, d, e, f, g, h, i, j, k) == <<a, b, c, d, e, f, g, h, i, j, k>>

IsOctet(s, T, a, b, c, d, e, f, g, h) ==
    /\ s \in Seq(T) /\ Len(s) = 8
    /\ s[1] = a
    /\ s[2] = b
    /\ s[3] = c
    /\ s[4] = d
    /\ s[5] = e
    /\ s[6] = f
    /\ s[7] = g
    /\ s[8] = h

LEMMA OctetIs ==
    ASSUME NEW T, NEW a \in T, NEW b \in T, NEW c \in T, NEW d \in T, NEW e \in T, NEW f \in T,
           NEW g \in T, NEW h \in T
    PROVE  IsOctet(Octet(a, b, c, d, e, f, g, h), T, a, b, c, d, e, f, g, h)
BY DEF Octet, IsOctet

IsEleven(s, T, a, b, c, d, e, f, g, h, i, j, k) ==
    /\ s \in Seq(T) /\ Len(s) = 11
    /\ s[1] = a
    /\ s[2] = b
    /\ s[3] = c
    /\ s[4] = d
    /\ s[5] = e
    /\ s[6] = f
    /\ s[7] = g
    /\ s[8] = h
    /\ s[9] = i
    /\ s[10] = j
    /\ s[11] = k

LEMMA ElevenIs ==
    ASSUME NEW T, NEW a \in T, NEW b \in T, NEW c \in T, NEW d \in T, NEW e \in T, NEW f \in T,
           NEW g \in T, NEW h \in T, NEW i \in T, NEW j \in T, NEW k \in T
    PROVE  IsEleven(Eleven(a, b, c, d, e, f, g, h, i, j, k), T, a, b, c, d, e, f, g, h, i, j, k)
BY DEF Eleven, IsEleven

\* The eight tokens of a filament.
LEMMA FilamentTextIs ==
    ASSUME NEW f \in SavedFilament
    PROVE  /\ FilamentText(f) \in Seq(Tokens) /\ Len(FilamentText(f)) = 8
           /\ FilamentLies(FilamentText(f), 0, f)
<1> DEFINE n == f.name
           y == f.type
           l == f.lowFlow
<1>1. n \in STRING /\ y \in STRING /\ l \in Nat
  BY DEF SavedFilament
<1>2. FilamentText(f) = Octet(Mark(LeftBrace), Key("name"), Quote(n), Key("type"), Quote(y),
                              Key("lowFlow"), Num(l), Mark(RightBrace))
  BY Zenon DEF FilamentText, Octet, LeftBrace, RightBrace
<1> HIDE DEF n, y, l
<1>3. Quote(n) \in Tokens /\ Quote(y) \in Tokens /\ Num(l) \in Tokens
  BY <1>1, TokensAre
<1> HIDE DEF Tokens
<1> DEFINE s == FilamentText(f)
<1>4. /\ s \in Seq(Tokens) /\ Len(s) = 8
      /\ s[1] = Mark(LeftBrace) /\ s[2] = Key("name") /\ s[3] = Quote(n)
      /\ s[4] = Key("type") /\ s[5] = Quote(y) /\ s[6] = Key("lowFlow")
      /\ s[7] = Num(l) /\ s[8] = Mark(RightBrace)
  <2>1. IsOctet(Octet(Mark(LeftBrace), Key("name"), Quote(n), Key("type"), Quote(y),
                 Key("lowFlow"), Num(l), Mark(RightBrace)),
                 Tokens, Mark(LeftBrace), Key("name"), Quote(n), Key("type"), Quote(y),
                 Key("lowFlow"), Num(l), Mark(RightBrace))
    BY <1>3, TokensAre, OctetIs
  <2>2. IsOctet(s, Tokens, Mark(LeftBrace), Key("name"), Quote(n), Key("type"), Quote(y),
                 Key("lowFlow"), Num(l), Mark(RightBrace))
    BY <1>2, <2>1, Zenon
  <2> QED BY <2>2 DEF IsOctet
<1> HIDE DEF s
<1>5. FilamentLies(s, 0, f)
  BY <1>4 DEF FilamentLies, n, y, l
<1> QED BY <1>4, <1>5 DEF s

HeadText(p) ==
    <<Mark("{"), Key("name"), Quote(p.name), Key("rise"), Num(p.rise),
      Key("startMacro"), Quote(p.startMacro), Key("maxVelocity"), Num(p.maxVelocity),
      Key("filaments"), Mark("[")>>

\* The eleven tokens a printer begins with.
LEMMA HeadTextIs ==
    ASSUME NEW p \in SavedPrinter
    PROVE  /\ HeadText(p) \in Seq(Tokens) /\ Len(HeadText(p)) = 11
           /\ HeadLies(HeadText(p), 0, p)
<1> DEFINE n == p.name
           r == p.rise
           m == p.startMacro
           v == p.maxVelocity
<1>1. n \in STRING /\ r \in Nat /\ m \in STRING /\ v \in Nat
  BY DEF SavedPrinter
<1>2. HeadText(p) = Eleven(Mark(LeftBrace), Key("name"), Quote(n), Key("rise"), Num(r),
                          Key("startMacro"), Quote(m), Key("maxVelocity"), Num(v),
                          Key("filaments"), Mark(LeftBracket))
  BY Zenon DEF HeadText, Eleven, LeftBrace, LeftBracket
<1> HIDE DEF n, r, m, v
<1>3. Quote(n) \in Tokens /\ Quote(m) \in Tokens /\ Num(r) \in Tokens /\ Num(v) \in Tokens
  BY <1>1, TokensAre
<1> HIDE DEF Tokens
<1> DEFINE s == HeadText(p)
<1>4. /\ s \in Seq(Tokens) /\ Len(s) = 11
      /\ s[1] = Mark(LeftBrace) /\ s[2] = Key("name") /\ s[3] = Quote(n)
      /\ s[4] = Key("rise") /\ s[5] = Num(r) /\ s[6] = Key("startMacro")
      /\ s[7] = Quote(m) /\ s[8] = Key("maxVelocity") /\ s[9] = Num(v)
      /\ s[10] = Key("filaments") /\ s[11] = Mark(LeftBracket)
  <2>1. IsEleven(Eleven(Mark(LeftBrace), Key("name"), Quote(n), Key("rise"), Num(r),
                  Key("startMacro"), Quote(m), Key("maxVelocity"), Num(v),
                  Key("filaments"), Mark(LeftBracket)),
                 Tokens, Mark(LeftBrace), Key("name"), Quote(n), Key("rise"), Num(r),
                  Key("startMacro"), Quote(m), Key("maxVelocity"), Num(v),
                  Key("filaments"), Mark(LeftBracket))
    BY <1>3, TokensAre, ElevenIs
  <2>2. IsEleven(s, Tokens, Mark(LeftBrace), Key("name"), Quote(n), Key("rise"), Num(r),
                  Key("startMacro"), Quote(m), Key("maxVelocity"), Num(v),
                  Key("filaments"), Mark(LeftBracket))
    BY <1>2, <2>1, Zenon
  <2> QED BY <2>2 DEF IsEleven
<1> HIDE DEF s
<1>5. HeadLies(s, 0, p)
  BY <1>4 DEF HeadLies, n, r, m, v
<1> QED BY <1>4, <1>5 DEF s

\* What lies somewhere lies where its text is copied to.
LEMMA FilamentMoved ==
    ASSUME NEW text, NEW at \in Nat, NEW part, NEW from \in Nat, NEW f,
           FilamentLies(part, from, f), \A i \in 1 .. 8 : text[at + i] = part[from + i]
    PROVE  FilamentLies(text, at, f)
<1>1. 1 \in 1 .. 8 /\ 2 \in 1 .. 8 /\ 3 \in 1 .. 8 /\ 4 \in 1 .. 8 /\ 5 \in 1 .. 8
      /\ 6 \in 1 .. 8 /\ 7 \in 1 .. 8 /\ 8 \in 1 .. 8
  OBVIOUS
<1> QED BY <1>1, Zenon DEF FilamentLies

\* The same for the head of a printer.
LEMMA HeadMoved ==
    ASSUME NEW text, NEW at \in Nat, NEW part, NEW from \in Nat, NEW p,
           HeadLies(part, from, p), \A i \in 1 .. 11 : text[at + i] = part[from + i]
    PROVE  HeadLies(text, at, p)
<1>1. 1 \in 1 .. 11 /\ 2 \in 1 .. 11 /\ 3 \in 1 .. 11 /\ 4 \in 1 .. 11 /\ 5 \in 1 .. 11
      /\ 6 \in 1 .. 11 /\ 7 \in 1 .. 11 /\ 8 \in 1 .. 11 /\ 9 \in 1 .. 11 /\ 10 \in 1 .. 11
      /\ 11 \in 1 .. 11
  OBVIOUS
<1> QED BY <1>1, Zenon DEF HeadLies

\* The same for a printer.
LEMMA PrinterMoved ==
    ASSUME NEW text, NEW at \in Nat, NEW part, NEW from \in Nat, NEW p, Len(p.filaments) \in Nat,
           PrinterLies(part, from, p),
           \A i \in 1 .. SizeOf(p) : text[at + i] = part[from + i]
    PROVE  PrinterLies(text, at, p)
<1> DEFINE n == Len(p.filaments)
<1>0. n \in Nat /\ SizeOf(p) = 13 + 8 * n
  BY DEF SizeOf
<1> HIDE DEF n
<1>1. HeadLies(text, at, p)
  <2>1. HeadLies(part, from, p)
    BY DEF PrinterLies
  <2>2. \A i \in 1 .. 11 : text[at + i] = part[from + i]
    <3> SUFFICES ASSUME NEW i \in 1 .. 11 PROVE text[at + i] = part[from + i]
      OBVIOUS
    <3>1. i \in 1 .. SizeOf(p)
      BY <1>0
    <3> QED BY <3>1
  <2> QED BY <2>1, <2>2, HeadMoved
<1>2. ASSUME NEW k \in 1 .. n PROVE FilamentLies(text, at + 3 + 8 * k, p.filaments[k])
  <2> DEFINE off == from + 3 + 8 * k
             to == at + 3 + 8 * k
  <2>1. off \in Nat /\ to \in Nat
    BY <1>0
  <2>2. FilamentLies(part, off, p.filaments[k])
    BY DEF PrinterLies, n
  <2>3. ASSUME NEW i \in 1 .. 8 PROVE text[to + i] = part[off + i]
    <3>1. 3 + 8 * k + i \in 1 .. SizeOf(p) /\ to + i = at + (3 + 8 * k + i)
          /\ off + i = from + (3 + 8 * k + i)
      BY <1>0
    <3> HIDE DEF off, to
    <3> QED BY <3>1
  <2> HIDE DEF off
  <2>4. FilamentLies(text, to, p.filaments[k])
    <3> HIDE DEF to
    <3> QED BY <2>1, <2>2, <2>3, FilamentMoved
  <2> QED BY <2>4
<1>3. /\ text[at + SizeOf(p) - 1] = Mark(RightBracket)
      /\ text[at + SizeOf(p)] = Mark(RightBrace)
  <2> DEFINE z == SizeOf(p)
  <2>1. z - 1 \in 1 .. z /\ z \in 1 .. z /\ at + z - 1 = at + (z - 1)
        /\ from + z - 1 = from + (z - 1)
    BY <1>0
  <2>2. part[from + z - 1] = Mark(RightBracket) /\ part[from + z] = Mark(RightBrace)
    BY DEF PrinterLies
  <2> HIDE DEF z
  <2>3. text[at + (z - 1)] = part[from + (z - 1)] /\ text[at + z] = part[from + z]
    BY <2>1 DEF z
  <2>4. text[at + z - 1] = Mark(RightBracket) /\ text[at + z] = Mark(RightBrace)
    BY <2>1, <2>2, <2>3
  <2> QED BY <2>4 DEF z
<1> QED BY <1>1, <1>2, <1>3 DEF PrinterLies, n

FootText == <<Mark("]"), Mark("}")>>

LEMMA FootTextIs ==
    /\ FootText \in Seq(Tokens) /\ Len(FootText) = 2
    /\ FootText[1] = Mark(RightBracket) /\ FootText[2] = Mark(RightBrace)
<1>1. FootText = <<Mark(RightBracket), Mark(RightBrace)>>
  BY Zenon DEF FootText, RightBracket, RightBrace
<1>2. Mark(RightBracket) \in Tokens /\ Mark(RightBrace) \in Tokens
  BY TokensAre
<1> HIDE DEF Tokens
<1> QED BY <1>1, <1>2

\* Parts of one size.
LEMMA EvenOffsets ==
    ASSUME NEW n \in Nat, NEW cs, NEW s, Offsets(s, cs, n), \A k \in 1 .. n : Len(cs[k]) = 8
    PROVE  \A k \in 1 .. (n + 1) : s[k] = 8 * k - 8
<1> DEFINE G == {m \in Nat : m <= n => s[m + 1] = 8 * m}
<1>1. 0 \in G
  BY DEF Offsets
<1>2. ASSUME NEW m \in Nat, m \in G PROVE m + 1 \in G
  <2> SUFFICES ASSUME m + 1 <= n PROVE s[m + 1 + 1] = 8 * (m + 1)
    OBVIOUS
  <2>1. s[m + 1] = 8 * m /\ m + 1 \in 1 .. n
    BY <1>2
  <2>2. s[m + 1 + 1] = s[m + 1] + Len(cs[m + 1])
    BY <2>1 DEF Offsets
  <2>3. Len(cs[m + 1]) = 8
    BY <2>1
  <2> QED BY <2>1, <2>2, <2>3
<1>3. \A m \in Nat : m \in G
  <2> HIDE DEF G
  <2> QED BY <1>1, <1>2, Successors
<1> SUFFICES ASSUME NEW k \in 1 .. (n + 1) PROVE s[k] = 8 * k - 8
  OBVIOUS
<1>4. k - 1 \in Nat /\ k - 1 <= n /\ k - 1 + 1 = k
  OBVIOUS
<1>5. s[k - 1 + 1] = 8 * (k - 1)
  BY <1>3, <1>4
<1> QED BY <1>4, <1>5

\* A printer is written as its head, its filaments and the closing brackets.
LEMMA PrinterTextIs ==
    ASSUME NEW p \in SavedPrinter
    PROVE  /\ Len(p.filaments) \in Nat
           /\ PrinterText(p) \in Seq(Tokens) /\ Len(PrinterText(p)) = SizeOf(p)
           /\ PrinterLies(PrinterText(p), 0, p)
<1> DEFINE fs == p.filaments
           n == Len(fs)
           cs == [j \in DOMAIN fs |-> FilamentText(fs[j])]
           flat == FlattenSeq(cs)
           head == HeadText(p)
           w == head \o flat \o FootText
<1>1. fs \in Seq(SavedFilament)
  BY DEF SavedPrinter
<1>2. PrinterText(p) = w
  BY Zenon DEF PrinterText, HeadText, FootText
<1>3. head \in Seq(Tokens) /\ Len(head) = 11 /\ HeadLies(head, 0, p)
  BY HeadTextIs
<1> HIDE DEF fs, head, Tokens
<1>4. n \in Nat /\ DOMAIN fs = 1 .. n /\ \A j \in 1 .. n : fs[j] \in SavedFilament
  <2> HIDE DEF SavedFilament
  <2> QED BY <1>1, LenProperties, ElementOfSeq
<1>5. \A j \in 1 .. n : /\ FilamentText(fs[j]) \in Seq(Tokens) /\ Len(FilamentText(fs[j])) = 8
                        /\ FilamentLies(FilamentText(fs[j]), 0, fs[j])
  BY <1>4, FilamentTextIs
<1>6. cs \in [1 .. n -> Seq(Tokens)] /\ Len(cs) = n
      /\ \A j \in 1 .. n : cs[j] = FilamentText(fs[j])
  BY <1>4, <1>5
<1> HIDE DEF cs, n
<1>7. PICK s : /\ flat \in Seq(Tokens)
               /\ Offsets(s, cs, n) /\ Len(flat) = s[n + 1]
               /\ PartsLie(flat, cs, n, s)
  <2>1. n \in Nat
    BY <1>4
  <2> QED BY <1>6, <2>1, FlatParts
<1> HIDE DEF flat
<1>8. \A k \in 1 .. (n + 1) : s[k] = 8 * k - 8
  <2>1. \A k \in 1 .. n : Len(cs[k]) = 8
    BY <1>5, <1>6
  <2> QED BY <1>4, <1>7, <2>1, EvenOffsets
<1>9. Len(flat) = 8 * n
  <2>1. n + 1 \in 1 .. (n + 1)
    BY <1>4
  <2>2. s[n + 1] = 8 * (n + 1) - 8
    BY <1>8, <2>1
  <2> QED BY <1>4, <1>7, <2>2
<1>10. CutInto(w, Tokens, head, flat, FootText)
  BY <1>3, <1>7, FootTextIs, IsCut
<1> HIDE DEF w
<1>11. /\ w \in Seq(Tokens) /\ Len(w) = 11 + 8 * n + 2
       /\ \A i \in 1 .. 11 : w[i] = head[i]
       /\ \A i \in 1 .. 8 * n : w[11 + i] = flat[i]
       /\ w[11 + 8 * n + 1] = Mark(RightBracket) /\ w[11 + 8 * n + 2] = Mark(RightBrace)
  <2>1. /\ w \in Seq(Tokens) /\ Len(w) = Len(head) + Len(flat) + Len(FootText)
        /\ \A i \in 1 .. Len(head) : w[i] = head[i]
        /\ \A i \in 1 .. Len(flat) : w[Len(head) + i] = flat[i]
        /\ \A i \in 1 .. Len(FootText) : w[Len(head) + Len(flat) + i] = FootText[i]
    BY <1>10 DEF CutInto
  <2>2. 1 \in 1 .. 2 /\ 2 \in 1 .. 2
    OBVIOUS
  <2>3. w[11 + 8 * n + 1] = FootText[1] /\ w[11 + 8 * n + 2] = FootText[2]
    BY <1>3, <1>9, <2>1, <2>2, FootTextIs
  <2> QED BY <1>3, <1>9, <2>1, <2>3, FootTextIs
<1>12. SizeOf(p) = 13 + 8 * n
  BY DEF SizeOf, n, fs
<1>13. HeadLies(w, 0, p)
  <2>1. \A i \in 1 .. 11 : w[0 + i] = head[0 + i]
    BY <1>11
  <2> QED BY <1>3, <2>1, HeadMoved
<1>14. ASSUME NEW k \in 1 .. n PROVE FilamentLies(w, 0 + 3 + 8 * k, fs[k])
  <2> DEFINE part == cs[k]
             to == 0 + 3 + 8 * k
  <2>1. FilamentLies(part, 0, fs[k])
    BY <1>5, <1>6
  <2>2. to \in Nat
    BY <1>4
  <2>3. ASSUME NEW i \in 1 .. 8 PROVE w[to + i] = part[0 + i]
    <3>1. Len(cs[k]) = 8
      BY <1>5, <1>6
    <3>2. flat[s[k] + i] = part[i]
      BY <1>7, <3>1 DEF PartsLie
    <3>3. s[k] = 8 * k - 8
      BY <1>4, <1>8
    <3>4. k \in Nat /\ k >= 1 /\ k <= n
      BY <1>4
    <3> HIDE DEF part
    <3>5. 8 * k - 8 + i \in 1 .. 8 * n /\ 11 + (8 * k - 8 + i) = to + i /\ 0 + i = i
      BY <1>4, <3>4
    <3> HIDE DEF to
    <3>6. w[11 + (8 * k - 8 + i)] = flat[8 * k - 8 + i]
      BY <1>11, <3>5
    <3> QED BY <3>2, <3>3, <3>5, <3>6
  <2> HIDE DEF part
  <2>4. FilamentLies(w, to, fs[k])
    <3> HIDE DEF to
    <3> QED BY <2>1, <2>2, <2>3, FilamentMoved
  <2> QED BY <2>4
<1>15. w[0 + SizeOf(p) - 1] = Mark(RightBracket) /\ w[0 + SizeOf(p)] = Mark(RightBrace)
  <2>1. 0 + SizeOf(p) - 1 = 11 + 8 * n + 1 /\ 0 + SizeOf(p) = 11 + 8 * n + 2
    BY <1>4, <1>12
  <2> QED BY <1>11, <2>1
<1>16. PrinterLies(w, 0, p)
  BY <1>13, <1>14, <1>15 DEF PrinterLies, n, fs
<1>17. Len(w) = SizeOf(p)
  BY <1>4, <1>11, <1>12
<1> QED BY <1>2, <1>4, <1>11, <1>16, <1>17 DEF n, fs, w

\* The whole text: printer k of the list lies behind position s[k].
Layout(text, list, s) ==
    /\ text[1] = Mark(LeftBrace) /\ text[2] = Key("printers") /\ text[3] = Mark(LeftBracket)
    /\ s[1] = 3
    /\ \A k \in 1 .. Len(list) :
          /\ Len(list[k].filaments) \in Nat
          /\ s[k] \in Nat /\ s[k + 1] = s[k] + SizeOf(list[k])
          /\ PrinterLies(text, s[k], list[k])
    /\ s[Len(list) + 1] \in Nat
    /\ text[s[Len(list) + 1] + 1] = Mark(RightBracket)
    /\ text[s[Len(list) + 1] + 2] = Mark(RightBrace)
    /\ Len(text) = s[Len(list) + 1] + 2
    /\ \A i \in 4 .. s[Len(list) + 1] :
          \E k \in 1 .. Len(list) : \E j \in 1 .. SizeOf(list[k]) : i = s[k] + j

Heading == <<Mark("{"), Key("printers"), Mark("[")>>

LEMMA HeadingIs ==
    /\ Heading \in Seq(Tokens) /\ Len(Heading) = 3
    /\ Heading[1] = Mark(LeftBrace) /\ Heading[2] = Key("printers")
    /\ Heading[3] = Mark(LeftBracket)
<1> DEFINE key == Key("printers")
<1>1. Heading = <<Mark(LeftBrace), key, Mark(LeftBracket)>>
  BY Zenon DEF Heading, LeftBrace, LeftBracket
<1>2. Mark(LeftBrace) \in Tokens /\ key \in Tokens /\ Mark(LeftBracket) \in Tokens
  BY TokensAre
<1> HIDE DEF Tokens, key
<1>3. /\ Heading \in Seq(Tokens) /\ Len(Heading) = 3
      /\ Heading[1] = Mark(LeftBrace) /\ Heading[2] = key /\ Heading[3] = Mark(LeftBracket)
  BY <1>1, <1>2
<1> QED BY <1>3 DEF key

\* The text of a list is tokens, and has a layout: every printer has a place.
LEMMA ToJsonIs ==
    ASSUME NEW list \in Seq(SavedPrinter)
    PROVE  ToJson(list) \in Seq(Tokens) /\ \E s : Layout(ToJson(list), list, s)
<1> DEFINE n == Len(list)
           cs == [i \in DOMAIN list |-> PrinterText(list[i])]
           flat == FlattenSeq(cs)
           w == Heading \o flat \o FootText
<1>1. ToJson(list) = w
  BY Zenon DEF ToJson, Heading, FootText
<1>2. n \in Nat /\ DOMAIN list = 1 .. n /\ \A k \in 1 .. n : list[k] \in SavedPrinter
  <2> HIDE DEF SavedPrinter
  <2> QED BY LenProperties, ElementOfSeq
<1> HIDE DEF Tokens
<1>3. \A k \in 1 .. n : /\ Len(list[k].filaments) \in Nat
                        /\ PrinterText(list[k]) \in Seq(Tokens)
                        /\ Len(PrinterText(list[k])) = SizeOf(list[k])
                        /\ PrinterLies(PrinterText(list[k]), 0, list[k])
  BY <1>2, PrinterTextIs
<1>4. cs \in [1 .. n -> Seq(Tokens)] /\ Len(cs) = n
      /\ \A k \in 1 .. n : cs[k] = PrinterText(list[k])
  BY <1>2, <1>3
<1> HIDE DEF cs, n
<1>5. PICK o : /\ flat \in Seq(Tokens)
               /\ Offsets(o, cs, n) /\ Len(flat) = o[n + 1]
               /\ PartsLie(flat, cs, n, o)
  BY <1>2, <1>4, FlatParts
<1> HIDE DEF flat
<1>6. CutInto(w, Tokens, Heading, flat, FootText)
  BY <1>5, HeadingIs, FootTextIs, IsCut
<1> HIDE DEF w
<1> DEFINE e == o[n + 1]
           s == [k \in 1 .. (n + 1) |-> o[k] + 3]
<1>7. /\ e \in Nat /\ \A k \in 1 .. (n + 1) : o[k] \in Nat
      /\ o[1] = 0 /\ \A k \in 1 .. n : o[k + 1] = o[k] + Len(cs[k])
  <2>1. n + 1 \in 1 .. (n + 1)
    BY <1>2
  <2> QED BY <1>5, <2>1 DEF Offsets
<1>8. /\ w \in Seq(Tokens) /\ Len(w) = 3 + e + 2
      /\ w[1] = Mark(LeftBrace) /\ w[2] = Key("printers") /\ w[3] = Mark(LeftBracket)
      /\ \A i \in 1 .. e : w[3 + i] = flat[i]
      /\ w[3 + e + 1] = Mark(RightBracket) /\ w[3 + e + 2] = Mark(RightBrace)
  <2>1. /\ w \in Seq(Tokens) /\ Len(w) = Len(Heading) + Len(flat) + Len(FootText)
        /\ \A i \in 1 .. Len(Heading) : w[i] = Heading[i]
        /\ \A i \in 1 .. Len(flat) : w[Len(Heading) + i] = flat[i]
        /\ \A i \in 1 .. Len(FootText) : w[Len(Heading) + Len(flat) + i] = FootText[i]
    BY <1>6 DEF CutInto
  <2>2. 1 \in 1 .. 2 /\ 2 \in 1 .. 2 /\ 1 \in 1 .. 3 /\ 2 \in 1 .. 3 /\ 3 \in 1 .. 3
    OBVIOUS
  <2>3. w[3 + e + 1] = FootText[1] /\ w[3 + e + 2] = FootText[2]
    BY <1>5, <2>1, <2>2, HeadingIs, FootTextIs
  <2>4. w[1] = Heading[1] /\ w[2] = Heading[2] /\ w[3] = Heading[3]
    BY <2>1, <2>2, HeadingIs
  <2>5. Len(flat) = e
    BY <1>5
  <2> HIDE DEF e
  <2> QED BY <2>1, <2>3, <2>4, <2>5, HeadingIs, FootTextIs
<1>9. \A k \in 1 .. (n + 1) : s[k] = o[k] + 3
  OBVIOUS
<1> HIDE DEF s
<1>10. s[1] = 3 /\ s[n + 1] = e + 3
  <2>1. 1 \in 1 .. (n + 1) /\ n + 1 \in 1 .. (n + 1)
    BY <1>2
  <2> QED BY <1>7, <1>9, <2>1
<1> HIDE DEF e
<1>11. ASSUME NEW k \in 1 .. n
       PROVE  /\ s[k] \in Nat /\ s[k + 1] = s[k] + SizeOf(list[k])
              /\ PrinterLies(w, s[k], list[k])
  <2>1. k \in 1 .. (n + 1) /\ k + 1 \in 1 .. (n + 1)
    BY <1>2
  <2>2. Len(cs[k]) = SizeOf(list[k]) /\ Len(list[k].filaments) \in Nat
    BY <1>3, <1>4
  <2>3. SizeOf(list[k]) \in Nat
    BY <2>2 DEF SizeOf
  <2>4. s[k] = o[k] + 3 /\ s[k + 1] = o[k + 1] + 3 /\ o[k] \in Nat /\ o[k + 1] = o[k] + Len(cs[k])
    BY <1>7, <1>9, <2>1
  <2>5. s[k] \in Nat /\ s[k + 1] = s[k] + SizeOf(list[k])
    BY <2>2, <2>3, <2>4, SMTT(30)
  <2> DEFINE part == cs[k]
             at == s[k]
             p == list[k]
  <2>6. o[k] + Len(part) <= Len(flat) /\ \A i \in 1 .. Len(part) : flat[o[k] + i] = part[i]
    BY <1>5 DEF PartsLie
  <2>7. ASSUME NEW i \in 1 .. SizeOf(p) PROVE w[at + i] = part[i]
    <3> DEFINE x == o[k]
               z == SizeOf(p)
    <3>1. x \in Nat /\ z \in Nat /\ x + z <= e /\ at = x + 3 /\ i \in 1 .. z
      BY <1>5, <2>2, <2>3, <2>4, <2>6 DEF e
    <3>2. flat[x + i] = part[i]
      BY <2>2, <2>6
    <3> HIDE DEF x, z, part, at
    <3>3. x + i \in 1 .. e /\ 3 + (x + i) = at + i
      BY <1>7, <3>1
    <3> QED BY <1>8, <3>2, <3>3
  <2>8. PrinterLies(part, 0, p)
    BY <1>3, <1>4
  <2>9. PrinterLies(w, at, p)
    <3>1. at \in Nat /\ Len(p.filaments) \in Nat
      BY <2>2, <2>5
    <3> HIDE DEF part, at, p
    <3>2. \A i \in 1 .. SizeOf(p) : w[at + i] = part[0 + i]
      <4> SUFFICES ASSUME NEW i \in 1 .. SizeOf(p) PROVE w[at + i] = part[0 + i]
        OBVIOUS
      <4>1. 0 + i = i
        BY <3>1 DEF SizeOf
      <4> QED BY <2>7, <4>1
    <3> QED BY <2>8, <3>1, <3>2, PrinterMoved
  <2> QED BY <2>5, <2>9
<1>12. \A i \in 4 .. s[n + 1] : \E k \in 1 .. n : \E j \in 1 .. SizeOf(list[k]) : i = s[k] + j
  <2> SUFFICES ASSUME NEW i \in 4 .. s[n + 1]
               PROVE  \E k \in 1 .. n : \E j \in 1 .. SizeOf(list[k]) : i = s[k] + j
    OBVIOUS
  <2>1. i - 3 \in 1 .. o[n + 1]
    BY <1>7, <1>10 DEF e
  <2>2. PICK k \in 1 .. n : \E j \in 1 .. Len(cs[k]) : i - 3 = o[k] + j
    BY <1>2, <1>5, <2>1, InSomePart
  <2>3. PICK j \in 1 .. Len(cs[k]) : i - 3 = o[k] + j
    BY <2>2
  <2>4. k \in 1 .. (n + 1) /\ Len(cs[k]) = SizeOf(list[k])
    BY <1>2, <1>3, <1>4
  <2>5. s[k] = o[k] + 3 /\ o[k] \in Nat
    BY <1>7, <1>9, <2>4
  <2>6. i \in Int /\ j \in Int
    <3>1. s[n + 1] \in Int
      BY <1>7, <1>10
    <3>2. SizeOf(list[k]) \in Int
      BY <1>3 DEF SizeOf
    <3> QED BY <2>4, <3>1, <3>2
  <2>7. i = s[k] + j
    BY <2>3, <2>5, <2>6
  <2> QED BY <2>4, <2>7
<1>13. Layout(w, list, s)
  <2>1. /\ s[n + 1] \in Nat /\ s[n + 1] + 1 = 3 + e + 1 /\ s[n + 1] + 2 = 3 + e + 2
        /\ Len(w) = s[n + 1] + 2
    BY <1>7, <1>8, <1>10
  <2> QED BY <1>3, <1>8, <1>10, <1>11, <1>12, <2>1 DEF Layout, n
<1> QED BY <1>1, <1>8, <1>13

(***************************************************************************)
(* Where the brackets stand.                                               *)
(***************************************************************************)

LEMMA MarksOfTokens ==
    ASSUME NEW bracket
    PROVE  /\ \A b : IsMark(Mark(b), bracket) <=> b = bracket
           /\ \A k : ~IsMark(Key(k), bracket)
           /\ \A x : ~IsMark(Quote(x), bracket)
           /\ \A n : ~IsMark(Num(n), bracket)
BY DEF IsMark, Mark, Key, Quote, Num

LEMMA EightPlaces ==
    \A j \in 1 .. 8 : j = 1 \/ j = 2 \/ j = 3 \/ j = 4 \/ j = 5 \/ j = 6 \/ j = 7 \/ j = 8
OBVIOUS

LEMMA ElevenPlaces ==
    \A j \in 1 .. 11 : \/ j = 1 \/ j = 2 \/ j = 3 \/ j = 4 \/ j = 5 \/ j = 6 \/ j = 7 \/ j = 8
                       \/ j = 9 \/ j = 10 \/ j = 11
OBVIOUS

\* A filament has one pair of braces.
LEMMA FilamentMarks ==
    ASSUME NEW text, NEW at \in Nat, NEW f, FilamentLies(text, at, f), NEW j \in 1 .. 8
    PROVE  /\ IsMark(text[at + j], LeftBrace) <=> j = 1
           /\ IsMark(text[at + j], RightBrace) <=> j = 8
           /\ ~IsMark(text[at + j], LeftBracket) /\ ~IsMark(text[at + j], RightBracket)
<1>1. j = 1 \/ j = 8 \/ j \in 2 .. 7
  OBVIOUS
<1>2. ASSUME j \in 2 .. 7, NEW bracket PROVE ~IsMark(text[at + j], bracket)
  <2>1. j = 2 \/ j = 3 \/ j = 4 \/ j = 5 \/ j = 6 \/ j = 7
    BY <1>2
  <2>2. /\ ~IsMark(text[at + 2], bracket) /\ ~IsMark(text[at + 3], bracket)
        /\ ~IsMark(text[at + 4], bracket) /\ ~IsMark(text[at + 5], bracket)
        /\ ~IsMark(text[at + 6], bracket) /\ ~IsMark(text[at + 7], bracket)
    BY MarksOfTokens DEF FilamentLies
  <2> QED BY <2>1, <2>2
<1>3. text[at + 1] = Mark(LeftBrace) /\ text[at + 8] = Mark(RightBrace)
  BY DEF FilamentLies
<1>4. CASE j = 1
  <2>1. j # 8
    BY <1>4
  <2> QED BY <1>3, <1>4, <2>1, MarksOfTokens, SidesDiffer, ZenonT(40)
<1>5. CASE j = 8
  <2>1. j # 1
    BY <1>5
  <2> QED BY <1>3, <1>5, <2>1, MarksOfTokens, SidesDiffer, ZenonT(40)
<1>6. CASE j \in 2 .. 7
  <2>1. j # 1 /\ j # 8
    BY <1>6
  <2> QED BY <1>2, <1>6, <2>1, Zenon
<1> QED BY <1>1, <1>4, <1>5, <1>6

\* The head of a printer opens a brace and a bracket.
LEMMA HeadMarks ==
    ASSUME NEW text, NEW at \in Nat, NEW p, HeadLies(text, at, p), NEW j \in 1 .. 11
    PROVE  /\ IsMark(text[at + j], LeftBrace) <=> j = 1
           /\ IsMark(text[at + j], LeftBracket) <=> j = 11
           /\ ~IsMark(text[at + j], RightBrace) /\ ~IsMark(text[at + j], RightBracket)
<1>1. j = 1 \/ j = 11 \/ j \in 2 .. 10
  OBVIOUS
<1>2. ASSUME j \in 2 .. 10, NEW bracket PROVE ~IsMark(text[at + j], bracket)
  <2>1. j = 2 \/ j = 3 \/ j = 4 \/ j = 5 \/ j = 6 \/ j = 7 \/ j = 8 \/ j = 9 \/ j = 10
    BY <1>2
  <2>2. /\ ~IsMark(text[at + 2], bracket) /\ ~IsMark(text[at + 3], bracket)
        /\ ~IsMark(text[at + 4], bracket) /\ ~IsMark(text[at + 5], bracket)
        /\ ~IsMark(text[at + 6], bracket) /\ ~IsMark(text[at + 7], bracket)
        /\ ~IsMark(text[at + 8], bracket) /\ ~IsMark(text[at + 9], bracket)
        /\ ~IsMark(text[at + 10], bracket)
    BY MarksOfTokens DEF HeadLies
  <2> QED BY <2>1, <2>2
<1>3. text[at + 1] = Mark(LeftBrace) /\ text[at + 11] = Mark(LeftBracket)
  BY DEF HeadLies
<1>4. CASE j = 1
  <2>1. j # 11
    BY <1>4
  <2>2. \A b : IsMark(text[at + 1], b) <=> b = LeftBrace
    BY <1>3, MarksOfTokens
  <2> QED BY <1>4, <2>1, <2>2, SidesDiffer
<1>5. CASE j = 11
  <2>1. j # 1
    BY <1>5
  <2> QED BY <1>3, <1>5, <2>1, MarksOfTokens, SidesDiffer, ZenonT(40)
<1>6. CASE j \in 2 .. 10
  <2>1. j # 1 /\ j # 11
    BY <1>6
  <2> QED BY <1>2, <1>6, <2>1, Zenon
<1> QED BY <1>1, <1>4, <1>5, <1>6

MarksOfPrinter(text, at, p, n, j) ==
    /\ IsMark(text[at + j], LeftBrace) <=> j = 1 \/ \E k \in 1 .. n : j = 4 + 8 * k
    /\ IsMark(text[at + j], RightBrace) <=> j = SizeOf(p) \/ \E k \in 1 .. n : j = 11 + 8 * k
    /\ IsMark(text[at + j], LeftBracket) <=> j = 11
    /\ IsMark(text[at + j], RightBracket) <=> j = SizeOf(p) - 1

\* A printer has its own braces, one bracket pair, and the braces of its filaments.
LEMMA PrinterMarks ==
    ASSUME NEW text, NEW at \in Nat, NEW p, NEW n \in Nat, n = Len(p.filaments),
           PrinterLies(text, at, p), NEW j \in 1 .. SizeOf(p)
    PROVE  MarksOfPrinter(text, at, p, n, j)
<1> SUFFICES /\ IsMark(text[at + j], LeftBrace) <=> j = 1 \/ \E k \in 1 .. n : j = 4 + 8 * k
             /\ IsMark(text[at + j], RightBrace) <=> j = SizeOf(p) \/ \E k \in 1 .. n : j = 11 + 8 * k
             /\ IsMark(text[at + j], LeftBracket) <=> j = 11
             /\ IsMark(text[at + j], RightBracket) <=> j = SizeOf(p) - 1
  BY Zenon DEF MarksOfPrinter
<1> DEFINE z == SizeOf(p)
           x == text[at + j]
           L1 == IsMark(x, LeftBrace)
           R1 == IsMark(x, RightBrace)
           L2 == IsMark(x, LeftBracket)
           R2 == IsMark(x, RightBracket)
<1>0. z = 13 + 8 * n
  BY DEF SizeOf
<1> HIDE DEF z, x, L1, R1, L2, R2
<1>1. CASE j <= 11
  <2>1. j \in 1 .. 11
    BY <1>0, <1>1 DEF z
  <2>2. (L1 <=> j = 1) /\ (L2 <=> j = 11) /\ ~R1 /\ ~R2
    BY <2>1, HeadMarks DEF PrinterLies, x, L1, L2, R1, R2
  <2>3. j # z /\ j # z - 1 /\ \A k \in 1 .. n : j # 4 + 8 * k /\ j # 11 + 8 * k
    BY <1>0, <2>1
  <2> QED BY <2>2, <2>3 DEF x, L1, L2, R1, R2, z
<1>2. CASE j > 11 /\ j < z - 1
  <2>1. PICK k \in 1 .. n, i \in 1 .. 8 : j = 3 + 8 * k + i
    <3> DEFINE k == (j - 4) \div 8
               i == j - 3 - 8 * k
    <3>1. j \in Int /\ j >= 12 /\ j <= 11 + 8 * n
      BY <1>0, <1>2 DEF z
    <3>2. k \in 1 .. n /\ i \in 1 .. 8 /\ j = 3 + 8 * k + i
      BY <3>1
    <3> QED BY <3>2
  <2> DEFINE to == at + 3 + 8 * k
  <2>2. FilamentLies(text, to, p.filaments[k]) /\ to \in Nat /\ at + j = to + i
    BY <2>1 DEF PrinterLies, z
  <2>3. (L1 <=> i = 1) /\ (R1 <=> i = 8) /\ ~L2 /\ ~R2
    <3> HIDE DEF to
    <3>1. x = text[to + i]
      BY <2>2 DEF x
    <3>2. /\ IsMark(text[to + i], LeftBrace) <=> i = 1
          /\ IsMark(text[to + i], RightBrace) <=> i = 8
          /\ ~IsMark(text[to + i], LeftBracket) /\ ~IsMark(text[to + i], RightBracket)
      BY <2>2, FilamentMarks
    <3> QED BY <3>1, <3>2 DEF L1, L2, R1, R2
  <2>4. /\ i = 1 <=> j = 1 \/ \E m \in 1 .. n : j = 4 + 8 * m
        /\ i = 8 <=> j = z \/ \E m \in 1 .. n : j = 11 + 8 * m
        /\ j # 11 /\ j # z - 1
    <3>1. j # 1 /\ j # z /\ j # 11 /\ j # z - 1
      BY <1>0, <1>2, <2>1
    <3>2. ASSUME NEW m \in 1 .. n, j = 4 + 8 * m PROVE i = 1
      BY <2>1, <3>2
    <3>3. ASSUME NEW m \in 1 .. n, j = 11 + 8 * m PROVE i = 8
      BY <2>1, <3>3
    <3>4. i = 1 => j = 4 + 8 * k
      BY <2>1
    <3>5. i = 8 => j = 11 + 8 * k
      BY <2>1
    <3> QED BY <3>1, <3>2, <3>3, <3>4, <3>5
  <2> QED BY <2>3, <2>4 DEF x, L1, L2, R1, R2, z
<1>3. CASE j = z - 1
  <2>1. x = Mark(RightBracket)
    <3>1. at + j = at + SizeOf(p) - 1
      BY <1>0, <1>3 DEF z
    <3> QED BY <3>1 DEF PrinterLies, x
  <2>2. ~L1 /\ ~R1 /\ ~L2 /\ R2
    BY <2>1, MarksOfTokens, SidesDiffer, Zenon DEF L1, L2, R1, R2
  <2>3. j # z /\ j # 1 /\ j # 11 /\ \A k \in 1 .. n : j # 4 + 8 * k /\ j # 11 + 8 * k
    BY <1>0, <1>3
  <2> QED BY <1>3, <2>2, <2>3 DEF x, L1, L2, R1, R2, z
<1>4. CASE j = z
  <2>1. x = Mark(RightBrace)
    BY <1>4 DEF PrinterLies, x, z
  <2>2. ~L1 /\ R1 /\ ~L2 /\ ~R2
    BY <2>1, MarksOfTokens, SidesDiffer, Zenon DEF L1, L2, R1, R2
  <2>3. j # z - 1 /\ j # 1 /\ j # 11 /\ \A k \in 1 .. n : j # 4 + 8 * k
    BY <1>0, <1>4
  <2> QED BY <1>4, <2>2, <2>3 DEF x, L1, L2, R1, R2, z
<1>5. j <= 11 \/ (j > 11 /\ j < z - 1) \/ j = z - 1 \/ j = z
  BY <1>0 DEF z
<1> QED BY <1>1, <1>2, <1>3, <1>4, <1>5

(***************************************************************************)
(* Each opening bracket and its counterpart.                               *)
(***************************************************************************)

LEMMA NoPairs ==
    ASSUME NEW a, NEW open, NEW close
    PROVE  Pairs(0, a, a, open, close)
BY DEF Pairs

\* The brace of a filament is matched by its own, or cut off.
LEMMA FilamentMatched ==
    ASSUME NEW text, PlainText(text), NEW at \in Nat, NEW f, FilamentLies(text, at, f),
           at + 8 <= Len(text)
    PROVE  MatchBrace(text, at + 1) = at + 8
<1> DEFINE open == at + 1
           close == at + 8
<1>0. open \in 1 .. Len(text) /\ close \in Nat /\ open < close /\ close <= Len(text)
      /\ LeftBrace \in Lefts /\ Closer(LeftBrace) = RightBrace /\ 0 \in Nat
  BY DEF PlainText, Lefts, Closer
<1>1. MarksAre(text, open, close, 0, <<>>, <<>>, LeftBrace, RightBrace)
  <2> SUFFICES ASSUME NEW i \in open .. Len(text), i <= close
               PROVE  /\ IsMark(text[i], LeftBrace) <=> i = open
                      /\ IsMark(text[i], RightBrace) <=> i = close
    BY DEF MarksAre
  <2>1. PICK j \in 1 .. 8 : i = at + j
    <3>1. i - at \in 1 .. 8 /\ i = at + (i - at)
      BY <1>0
    <3> QED BY <3>1
  <2>2. (i = open <=> j = 1) /\ (i = close <=> j = 8)
    BY <2>1
  <2>3. /\ IsMark(text[at + j], LeftBrace) <=> j = 1
        /\ IsMark(text[at + j], RightBrace) <=> j = 8
    BY FilamentMarks
  <2> HIDE DEF open, close
  <2> QED BY <2>1, <2>2, <2>3
<1> HIDE DEF open, close
<1>2. MatchBrace(text, open) = IF close <= Len(text) THEN close ELSE 0
  BY <1>0, <1>1, NoPairs, Matched
<1> QED BY <1>0, <1>2 DEF open, close

\* The bracket of a list of filaments is matched by its own, or cut off.
LEMMA ListMatched ==
    ASSUME NEW text, PlainText(text), NEW at \in Nat, NEW p, Len(p.filaments) \in Nat,
           PrinterLies(text, at, p), at + SizeOf(p) <= Len(text)
    PROVE  MatchBrace(text, at + 11) = at + SizeOf(p) - 1
<1> DEFINE open == at + 11
           z == SizeOf(p)
           close == at + z - 1
           n == Len(p.filaments)
<1>0. z = 13 + 8 * n /\ z \in Nat /\ z > 12
  BY DEF SizeOf
<1> HIDE DEF z
<1>1. open \in 1 .. Len(text) /\ close \in Nat /\ open < close /\ close <= Len(text)
      /\ LeftBracket \in Lefts /\ Closer(LeftBracket) = RightBracket
  <2>1. Len(text) \in Nat /\ at + z <= Len(text)
    BY DEF PlainText, z
  <2>2. LeftBracket \in Lefts /\ Closer(LeftBracket) = RightBracket
    BY SidesDiffer DEF Lefts, Closer
  <2> QED BY <1>0, <2>1, <2>2
<1>2. MarksAre(text, open, close, 0, <<>>, <<>>, LeftBracket, RightBracket)
  <2> SUFFICES ASSUME NEW i \in open .. Len(text), i <= close
               PROVE  /\ IsMark(text[i], LeftBracket) <=> i = open
                      /\ IsMark(text[i], RightBracket) <=> i = close
    BY DEF MarksAre
  <2>1. PICK j \in 1 .. z : i = at + j
    <3>1. i - at \in 1 .. z /\ i = at + (i - at)
      BY <1>0, <1>1
    <3> QED BY <3>1
  <2>2. (i = open <=> j = 11) /\ (i = close <=> j = z - 1)
    BY <1>0, <2>1
  <2>3. /\ IsMark(text[at + j], LeftBracket) <=> j = 11
        /\ IsMark(text[at + j], RightBracket) <=> j = z - 1
    <3>1. MarksOfPrinter(text, at, p, n, j)
      BY PrinterMarks DEF z
    <3> QED BY <3>1 DEF MarksOfPrinter, z
  <2> HIDE DEF open, close
  <2> QED BY <2>1, <2>2, <2>3
<1> HIDE DEF open, close
<1>3. MatchBrace(text, open) = IF close <= Len(text) THEN close ELSE 0
  BY <1>1, <1>2, NoPairs, Matched
<1> QED BY <1>1, <1>3 DEF open, close, z

\* `text` is what is left of `whole`.
CutOff(text, whole) ==
    /\ Len(text) \in Nat /\ Len(whole) \in Nat /\ Len(text) <= Len(whole)
    /\ \A i \in 1 .. Len(text) : text[i] = whole[i]

\* The brace of a printer is matched by its own, or cut off.
LEMMA PrinterMatched ==
    ASSUME NEW text, PlainText(text), NEW whole, CutOff(text, whole), NEW at \in Nat, NEW p,
           Len(p.filaments) \in Nat, PrinterLies(whole, at, p), at + 1 <= Len(text)
    PROVE  MatchBrace(text, at + 1) = IF at + SizeOf(p) <= Len(text) THEN at + SizeOf(p) ELSE 0
<1> DEFINE open == at + 1
           z == SizeOf(p)
           close == at + z
           n == Len(p.filaments)
           a == [k \in 1 .. n |-> at + 4 + 8 * k]
           b == [k \in 1 .. n |-> at + 11 + 8 * k]
<1>0. z = 13 + 8 * n /\ z \in Nat /\ z > 12
  BY DEF SizeOf
<1>1. n \in Nat /\ n = Len(p.filaments)
  OBVIOUS
<1> HIDE DEF z, n
<1>2. open \in 1 .. Len(text) /\ close \in Nat /\ open < close
      /\ LeftBrace \in Lefts /\ Closer(LeftBrace) = RightBrace
  BY <1>0, <1>1 DEF PlainText, Lefts, Closer
<1>3. \A k \in 1 .. n : a[k] = at + 4 + 8 * k /\ b[k] = at + 11 + 8 * k
  OBVIOUS
<1> HIDE DEF a, b
<1>4. Pairs(n, a, b, open, close)
  <2>1. ASSUME NEW k \in 1 .. n
        PROVE  a[k] \in Nat /\ b[k] \in Nat /\ open < a[k] /\ a[k] < b[k] /\ b[k] < close
    BY <1>0, <1>1, <1>3
  <2>2. ASSUME NEW k \in 1 .. n, NEW m \in 1 .. n, k < m PROVE b[k] < a[m]
    BY <1>1, <1>3, <2>2
  <2> HIDE DEF open, close
  <2> QED BY <2>1, <2>2 DEF Pairs
<1>5. MarksAre(text, open, close, n, a, b, LeftBrace, RightBrace)
  <2> SUFFICES ASSUME NEW i \in open .. Len(text), i <= close
               PROVE  /\ IsMark(text[i], LeftBrace) <=> i = open \/ \E k \in 1 .. n : i = a[k]
                      /\ IsMark(text[i], RightBrace) <=> i = close \/ \E k \in 1 .. n : i = b[k]
    BY DEF MarksAre
  <2>1. PICK j \in 1 .. z : i = at + j
    <3>1. i - at \in 1 .. z /\ i = at + (i - at)
      BY <1>0, <1>1, <1>2
    <3> QED BY <3>1
  <2>2. (i = open <=> j = 1) /\ (i = close <=> j = z)
        /\ \A k \in 1 .. n : (i = a[k] <=> j = 4 + 8 * k) /\ (i = b[k] <=> j = 11 + 8 * k)
    <3>1. (i = open <=> j = 1) /\ (i = close <=> j = z) /\ j \in Int
      BY <1>0, <2>1
    <3>2. ASSUME NEW k \in 1 .. n
          PROVE  (i = a[k] <=> j = 4 + 8 * k) /\ (i = b[k] <=> j = 11 + 8 * k)
      <4>1. a[k] = at + 4 + 8 * k /\ b[k] = at + 11 + 8 * k /\ k \in Int
        BY <1>1, <1>3
      <4> QED BY <2>1, <3>1, <4>1
    <3> HIDE DEF open, close
    <3> QED BY <3>1, <3>2
  <2>3. /\ IsMark(whole[at + j], LeftBrace) <=> j = 1 \/ \E k \in 1 .. n : j = 4 + 8 * k
        /\ IsMark(whole[at + j], RightBrace) <=> j = z \/ \E k \in 1 .. n : j = 11 + 8 * k
    <3>1. j \in 1 .. SizeOf(p)
      BY DEF z
    <3>2. MarksOfPrinter(whole, at, p, n, j)
      BY <1>1, <3>1, PrinterMarks
    <3> QED BY <3>2, Zenon DEF MarksOfPrinter, z
  <2>4. text[i] = whole[at + j]
    <3>1. i \in 1 .. Len(text)
      BY <1>2
    <3>2. text[i] = whole[i]
      BY <3>1 DEF CutOff
    <3> QED BY <2>1, <3>2
  <2> HIDE DEF open, close
  <2> QED BY <2>2, <2>3, <2>4
<1> HIDE DEF open, close
<1>6. MatchBrace(text, open) = IF close <= Len(text) THEN close ELSE 0
  BY <1>2, <1>4, <1>1, <1>5, Matched
<1> QED BY <1>6 DEF open, close, z

\* One printer lies behind the other.
LEMMA Rising ==
    ASSUME NEW list, Len(list) \in Nat, NEW text, NEW s, Layout(text, list, s)
    PROVE  /\ \A k \in 1 .. (Len(list) + 1) : s[k] \in Nat /\ s[k] >= 3
           /\ \A k \in 1 .. Len(list) : SizeOf(list[k]) \in Nat /\ SizeOf(list[k]) >= 13
           /\ \A k \in 1 .. Len(list) : s[k + 1] = s[k] + SizeOf(list[k])
           /\ \A k \in 1 .. Len(list) : \A m \in 1 .. (Len(list) + 1) :
                  k < m => s[k] + SizeOf(list[k]) <= s[m]
<1> DEFINE n == Len(list)
<1>1. /\ s[1] = 3 /\ s[n + 1] \in Nat
      /\ \A k \in 1 .. n : /\ Len(list[k].filaments) \in Nat
                           /\ s[k] \in Nat /\ s[k + 1] = s[k] + SizeOf(list[k])
  BY DEF Layout
<1> HIDE DEF n
<1>2. \A k \in 1 .. n : SizeOf(list[k]) \in Nat /\ SizeOf(list[k]) >= 13
  BY <1>1 DEF SizeOf
<1>3. \A k \in 1 .. (n + 1) : s[k] \in Nat
  <2> SUFFICES ASSUME NEW k \in 1 .. (n + 1) PROVE s[k] \in Nat
    OBVIOUS
  <2>1. k \in 1 .. n \/ k = n + 1
    BY DEF n
  <2> QED BY <1>1, <2>1
<1> DEFINE G == {d \in Nat : \A k \in 1 .. n : k + 1 + d <= n + 1 => s[k + 1] <= s[k + 1 + d]}
<1>4. 0 \in G
  BY <1>3 DEF n
<1>5. ASSUME NEW d \in Nat, d \in G PROVE d + 1 \in G
  <2> SUFFICES ASSUME NEW k \in 1 .. n, k + 1 + (d + 1) <= n + 1
               PROVE  s[k + 1] <= s[k + 1 + (d + 1)]
    OBVIOUS
  <2> DEFINE m == k + 1 + d
  <2>1. s[k + 1] <= s[m]
    BY <1>5 DEF n
  <2>2. m \in 1 .. n /\ k + 1 \in 1 .. (n + 1) /\ m \in 1 .. (n + 1) /\ m + 1 = k + 1 + (d + 1)
    BY DEF n
  <2> HIDE DEF m
  <2>3. s[m + 1] = s[m] + SizeOf(list[m]) /\ s[m] \in Nat /\ s[k + 1] \in Nat
    BY <1>1, <1>3, <2>2
  <2>4. s[k + 1] <= s[m + 1]
    BY <1>2, <2>1, <2>2, <2>3
  <2> QED BY <2>2, <2>4
<1>6. \A d \in Nat : d \in G
  <2> HIDE DEF G
  <2> QED BY <1>4, <1>5, Successors
<1>7. ASSUME NEW k \in 1 .. n, NEW m \in 1 .. (n + 1), k < m
      PROVE  s[k] + SizeOf(list[k]) <= s[m]
  <2>1. PICK d \in Nat : m = k + 1 + d
    <3>1. m - (k + 1) \in Nat /\ m = k + 1 + (m - (k + 1))
      BY <1>7 DEF n
    <3> QED BY <3>1
  <2>2. m <= n + 1
    BY DEF n
  <2>3. s[k + 1] <= s[m]
    BY <1>6, <2>1, <2>2 DEF G
  <2> QED BY <1>1, <2>3
<1>8. ASSUME NEW k \in 1 .. (n + 1) PROVE s[k] >= 3
  <2>1. CASE k = 1
    BY <1>1, <2>1
  <2>2. CASE k # 1
    <3>1. 1 \in 1 .. n /\ 1 < k
      BY <2>2 DEF n
    <3>2. s[1] + SizeOf(list[1]) <= s[k]
      BY <1>7, <3>1
    <3> QED BY <1>1, <1>2, <1>3, <3>1, <3>2
  <2> QED BY <2>1, <2>2
<1> QED BY <1>1, <1>2, <1>3, <1>7, <1>8 DEF n

MarksOfList(text, list, n, s, i) ==
    /\ IsMark(text[i], LeftBracket) <=> i = 3 \/ \E k \in 1 .. n : i = s[k] + 11
    /\ IsMark(text[i], RightBracket)
         <=> i = s[n + 1] + 1 \/ \E k \in 1 .. n : i = s[k] + SizeOf(list[k]) - 1

\* The whole text has one pair of brackets around those of the printers.
LEMMA LayoutMarks ==
    ASSUME NEW list, NEW n \in Nat, n = Len(list), NEW text, NEW s, Layout(text, list, s),
           NEW i \in 1 .. Len(text)
    PROVE  MarksOfList(text, list, n, s, i)
<1> DEFINE x == text[i]
           L == IsMark(x, LeftBracket)
           R == IsMark(x, RightBracket)
           e == s[n + 1]
<1>1. /\ \A k \in 1 .. (n + 1) : s[k] \in Nat /\ s[k] >= 3
      /\ \A k \in 1 .. n : SizeOf(list[k]) \in Nat /\ SizeOf(list[k]) >= 13
      /\ \A k \in 1 .. n : \A m \in 1 .. (n + 1) : k < m => s[k] + SizeOf(list[k]) <= s[m]
  BY Rising
<1>2. e \in Nat /\ Len(text) = e + 2 /\ e >= 3 /\ \A k \in 1 .. n : s[k] + SizeOf(list[k]) <= e
  <2>1. n + 1 \in 1 .. (n + 1) /\ \A k \in 1 .. n : k < n + 1
    OBVIOUS
  <2> QED BY <1>1, <2>1 DEF Layout
<1> HIDE DEF x, L, R, e
<1>3. ASSUME NEW k \in 1 .. n, NEW j \in 1 .. SizeOf(list[k]), i = s[k] + j
      PROVE  (L <=> j = 11) /\ (R <=> j = SizeOf(list[k]) - 1)
  <2> DEFINE at == s[k]
             p == list[k]
             m == Len(p.filaments)
  <2>1. at \in Nat /\ m \in Nat /\ PrinterLies(text, at, p)
    BY DEF Layout
  <2>2. MarksOfPrinter(text, at, p, m, j)
    <3> HIDE DEF at
    <3> QED BY <2>1, PrinterMarks
  <2> QED BY <1>3, <2>2 DEF MarksOfPrinter, L, R, x
<1>4. ASSUME NEW k \in 1 .. n, i = s[k] + 11 PROVE L
  <2>1. 11 \in 1 .. SizeOf(list[k])
    BY <1>1
  <2> QED BY <1>3, <1>4, <2>1
<1>5. ASSUME NEW k \in 1 .. n, i = s[k] + SizeOf(list[k]) - 1 PROVE R
  <2> DEFINE j == SizeOf(list[k]) - 1
  <2>1. j \in 1 .. SizeOf(list[k]) /\ i = s[k] + j
    <3>1. k \in 1 .. (n + 1)
      OBVIOUS
    <3>2. SizeOf(list[k]) \in Nat /\ SizeOf(list[k]) >= 13 /\ s[k] \in Nat
      BY <1>1, <3>1
    <3> QED BY <1>5, <3>2
  <2> HIDE DEF j
  <2>2. R <=> j = SizeOf(list[k]) - 1
    BY <1>3, <2>1
  <2> QED BY <2>2 DEF j
<1>6. /\ text[1] = Mark(LeftBrace) /\ text[2] = Key("printers") /\ text[3] = Mark(LeftBracket)
      /\ text[e + 1] = Mark(RightBracket) /\ text[e + 2] = Mark(RightBrace)
  BY DEF Layout, e
<1>7. /\ \A b : IsMark(text[1], b) <=> b = LeftBrace
      /\ \A b : ~IsMark(text[2], b)
      /\ \A b : IsMark(text[3], b) <=> b = LeftBracket
      /\ \A b : IsMark(text[e + 1], b) <=> b = RightBracket
      /\ \A b : IsMark(text[e + 2], b) <=> b = RightBrace
  <2>1. ASSUME NEW token, NEW left, token = Mark(left)
        PROVE  \A b : IsMark(token, b) <=> b = left
    BY <2>1, MarksOfTokens
  <2>2. ASSUME NEW token, token = Key("printers") PROVE \A b : ~IsMark(token, b)
    BY <2>2, MarksOfTokens
  <2>3. \A b : IsMark(text[1], b) <=> b = LeftBrace
    BY <1>6, <2>1, Zenon
  <2>4. \A b : ~IsMark(text[2], b)
    BY <1>6, <2>2, Zenon
  <2>5. \A b : IsMark(text[3], b) <=> b = LeftBracket
    BY <1>6, <2>1, Zenon
  <2>6. \A b : IsMark(text[e + 1], b) <=> b = RightBracket
    BY <1>6, <2>1, Zenon
  <2>7. \A b : IsMark(text[e + 2], b) <=> b = RightBrace
    BY <1>6, <2>1, Zenon
  <2> QED BY <2>3, <2>4, <2>5, <2>6, <2>7, Zenon
<1>8. i = 3 => L
  BY <1>7, Zenon DEF x, L
<1>9. i = e + 1 => R
  BY <1>7, Zenon DEF x, R
<1>10. L => i = 3 \/ \E k \in 1 .. n : i = s[k] + 11
  <2> SUFFICES ASSUME L, i # 3 PROVE \E k \in 1 .. n : i = s[k] + 11
    OBVIOUS
  <2>1. i # 1 /\ i # 2 /\ i # e + 1 /\ i # e + 2
    BY <1>7, SidesDiffer, Zenon DEF x, L
  <2>2. i \in 4 .. e
    BY <1>2, <2>1
  <2>3. PICK k \in 1 .. n : \E j \in 1 .. SizeOf(list[k]) : i = s[k] + j
    BY <2>2 DEF Layout, e
  <2> QED BY <1>3, <2>3
<1>11. R => i = e + 1 \/ \E k \in 1 .. n : i = s[k] + SizeOf(list[k]) - 1
  <2> SUFFICES ASSUME R, i # e + 1
               PROVE  \E k \in 1 .. n : i = s[k] + SizeOf(list[k]) - 1
    OBVIOUS
  <2>1. i # 1 /\ i # 2 /\ i # 3 /\ i # e + 2
    BY <1>7, SidesDiffer, Zenon DEF x, R
  <2>2. i \in 4 .. e
    BY <1>2, <2>1
  <2>3. PICK k \in 1 .. n : \E j \in 1 .. SizeOf(list[k]) : i = s[k] + j
    BY <2>2 DEF Layout, e
  <2>4. PICK j \in 1 .. SizeOf(list[k]) : i = s[k] + j
    BY <2>3
  <2>5. j = SizeOf(list[k]) - 1
    BY <1>3, <2>4
  <2>6. s[k] \in Nat /\ SizeOf(list[k]) \in Nat
    BY <1>1
  <2>7. i = s[k] + SizeOf(list[k]) - 1
    BY <2>4, <2>5, <2>6
  <2> QED BY <2>7
<1> QED BY <1>4, <1>5, <1>8, <1>9, <1>10, <1>11 DEF MarksOfList, L, R, x, e

\* The bracket of the list of printers is matched by its own, or cut off.
LEMMA PrintersMatched ==
    ASSUME NEW text, PlainText(text), NEW whole, CutOff(text, whole),
           NEW list, NEW n \in Nat, n = Len(list), NEW s, Layout(whole, list, s),
           3 <= Len(text)
    PROVE  MatchBrace(text, 3) = IF s[n + 1] + 1 <= Len(text) THEN s[n + 1] + 1 ELSE 0
<1> DEFINE open == 3
           e == s[n + 1]
           close == e + 1
           a == [k \in 1 .. n |-> s[k] + 11]
           b == [k \in 1 .. n |-> s[k] + SizeOf(list[k]) - 1]
<1>1. /\ \A k \in 1 .. (n + 1) : s[k] \in Nat /\ s[k] >= 3
      /\ \A k \in 1 .. n : SizeOf(list[k]) \in Nat /\ SizeOf(list[k]) >= 13
      /\ \A k \in 1 .. n : \A m \in 1 .. (n + 1) : k < m => s[k] + SizeOf(list[k]) <= s[m]
  BY Rising
<1>2. e \in Nat /\ Len(whole) = e + 2 /\ e >= 3 /\ \A k \in 1 .. n : s[k] + SizeOf(list[k]) <= e
  <2>1. n + 1 \in 1 .. (n + 1) /\ \A k \in 1 .. n : k < n + 1
    OBVIOUS
  <2> QED BY <1>1, <2>1 DEF Layout
<1> HIDE DEF e
<1>3. open \in 1 .. Len(text) /\ close \in Nat /\ open < close
  BY <1>2 DEF CutOff
<1>4. LeftBracket \in Lefts /\ Closer(LeftBracket) = RightBracket
  BY SidesDiffer DEF Lefts, Closer
<1>5. \A k \in 1 .. n : a[k] = s[k] + 11 /\ b[k] = s[k] + SizeOf(list[k]) - 1
  OBVIOUS
<1> HIDE DEF a, b
<1>6. Pairs(n, a, b, open, close)
  <2>1. ASSUME NEW k \in 1 .. n
        PROVE  a[k] \in Nat /\ b[k] \in Nat /\ open < a[k] /\ a[k] < b[k] /\ b[k] < close
    <3>1. k \in 1 .. (n + 1)
      OBVIOUS
    <3>2. s[k] \in Nat /\ s[k] >= 3 /\ SizeOf(list[k]) \in Nat /\ SizeOf(list[k]) >= 13
          /\ s[k] + SizeOf(list[k]) <= e
      BY <1>1, <1>2, <3>1
    <3>3. a[k] = s[k] + 11 /\ b[k] = s[k] + SizeOf(list[k]) - 1
      BY <1>5
    <3>4. \A u, v \in Nat : v >= 13 /\ u >= 3 /\ u + v <= e =>
              /\ u + 11 \in Nat /\ u + v - 1 \in Nat /\ open < u + 11
              /\ u + 11 < u + v - 1 /\ u + v - 1 < close
      BY <1>2
    <3> HIDE DEF open, close
    <3> QED BY <3>2, <3>3, <3>4, SMTT(30)
  <2>2. ASSUME NEW k \in 1 .. n, NEW m \in 1 .. n, k < m PROVE b[k] < a[m]
    <3>1. k \in 1 .. (n + 1) /\ m \in 1 .. (n + 1)
      OBVIOUS
    <3>2. s[k] \in Nat /\ s[m] \in Nat /\ SizeOf(list[k]) \in Nat
          /\ s[k] + SizeOf(list[k]) <= s[m]
      BY <1>1, <2>2, <3>1
    <3> QED BY <1>5, <3>2, SMTT(30)
  <2> HIDE DEF open, close
  <2> QED BY <2>1, <2>2 DEF Pairs
<1>7. MarksAre(text, open, close, n, a, b, LeftBracket, RightBracket)
  <2> SUFFICES ASSUME NEW i \in open .. Len(text), i <= close
               PROVE  /\ IsMark(text[i], LeftBracket) <=> i = open \/ \E k \in 1 .. n : i = a[k]
                      /\ IsMark(text[i], RightBracket) <=> i = close \/ \E k \in 1 .. n : i = b[k]
    BY DEF MarksAre
  <2>1. i \in 1 .. Len(text) /\ i \in 1 .. Len(whole) /\ text[i] = whole[i]
    BY DEF CutOff
  <2>2. MarksOfList(whole, list, n, s, i)
    BY <2>1, LayoutMarks
  <2> QED BY <1>5, <2>1, <2>2 DEF MarksOfList, e
<1> HIDE DEF open, close
<1>8. MatchBrace(text, open) = IF close <= Len(text) THEN close ELSE 0
  BY <1>3, <1>4, <1>6, <1>7, Matched
<1> QED BY <1>8 DEF open, close, e

(***************************************************************************)
(* What is read where.                                                     *)
(***************************************************************************)

\* In a plain text only a key is spelled like a key.
LEMMA SpelledTokens ==
    ASSUME NEW key \in Keys
    PROVE  /\ \A b : ~Spelled(Mark(b), key)
           /\ \A k : Spelled(Key(k), key) <=> k = key
           /\ \A n : ~Spelled(Num(n), key)
           /\ \A x : PlainToken(Quote(x)) => ~Spelled(Quote(x), key)
           /\ \A k : Key(k).is = "key"
           /\ \A x : Quote(x).is = "string" /\ Quote(x).text = x
           /\ \A n : Num(n).is = "number" /\ Num(n).text = Printed(n)
<1>1. \A b : ~Spelled(Mark(b), key)
  BY DEF Mark, Spelled
<1>2. \A k : (Spelled(Key(k), key) <=> k = key) /\ Key(k).is = "key"
  BY DEF Key, Spelled
<1>3. \A n : ~Spelled(Num(n), key) /\ Num(n).is = "number" /\ Num(n).text = Printed(n)
  BY DEF Num, Spelled
<1>4. \A x : Quote(x).is = "string" /\ Quote(x).text = x
  BY DEF Quote
<1>5. \A x : PlainToken(Quote(x)) => ~Spelled(Quote(x), key)
  <2> HIDE DEF Keys
  <2> QED BY <1>4, Zenon DEF PlainToken, Spelled
<1> QED BY <1>1, <1>2, <1>3, <1>4, <1>5

\* The first token that is spelled like the key is the key.
LEMMA KeyIs ==
    ASSUME NEW text, Len(text) \in Nat, NEW key \in Keys, NEW from \in Nat, NEW i \in Nat,
           NEW to \in Nat, 1 <= from, from <= i, i < Len(text), i < to, text[i] = Key(key),
           \A j \in from .. (i - 1) : ~Spelled(text[j], key)
    PROVE  KeyAt(text, key, from, to) = i + 1
<1> DEFINE S == {j \in from .. Len(text) : Spelled(text[j], key)}
           at == FirstOf(S)
           C == {j \in at .. Len(text) : text[j].is = "key"}
           colon == FirstOf(C)
<1>1. KeyAt(text, key, from, to) = IF at = 0 \/ at >= to \/ colon \in {0, Len(text)} THEN 0
                                   ELSE colon + 1
  BY Zenon DEF KeyAt
<1>2. at = i
  <2>1. Spelled(text[i], key)
    BY SpelledTokens
  <2>2. i \in S /\ S \in SUBSET Int
    BY <2>1
  <2>3. ASSUME NEW j \in S PROVE i <= j
    <3>1. j \in from .. Len(text) /\ Spelled(text[j], key)
      OBVIOUS
    <3> HIDE DEF S
    <3>2. j \in Int /\ ~(j \in from .. (i - 1))
      BY <3>1
    <3> QED BY <3>1, <3>2
  <2> HIDE DEF S
  <2> QED BY <2>2, <2>3, FirstOfIs
<1> HIDE DEF at
<1>3. colon = i
  <2>1. text[i].is = "key"
    BY SpelledTokens
  <2>2. i \in C /\ C \in SUBSET Int /\ \A j \in C : i <= j
    BY <1>2, <2>1
  <2> HIDE DEF C
  <2> QED BY <2>2, FirstOfIs
<1> HIDE DEF colon
<1> QED BY <1>1, <1>2, <1>3

KeyNames == /\ "name" \in Keys /\ "rise" \in Keys /\ "startMacro" \in Keys
            /\ "maxVelocity" \in Keys /\ "filaments" \in Keys /\ "type" \in Keys
            /\ "lowFlow" \in Keys /\ "printers" \in Keys

LEMMA KeyNamesAre == KeyNames
BY Zenon DEF KeyNames, Keys

\* In the head of a printer key number k stands behind 2 k tokens less one.
LEMMA HeadSpelled ==
    ASSUME NEW text, PlainText(text), NEW at \in Nat, NEW p, HeadLies(text, at, p),
           at + 11 <= Len(text), NEW key \in Keys, NEW j \in 1 .. 11
    PROVE  Spelled(text[at + j], key)
             <=> \/ j = 2 /\ key = "name"
                 \/ j = 4 /\ key = "rise"
                 \/ j = 6 /\ key = "startMacro"
                 \/ j = 8 /\ key = "maxVelocity"
                 \/ j = 10 /\ key = "filaments"
<1>1. PlainToken(text[at + j])
  <2>1. at + j \in 1 .. Len(text)
    BY DEF PlainText
  <2> QED BY <2>1 DEF PlainText
<1>2. \/ j = 1 \/ j = 2 \/ j = 3 \/ j = 4 \/ j = 5 \/ j = 6 \/ j = 7 \/ j = 8
      \/ j = 9 \/ j = 10 \/ j = 11
  BY ElevenPlaces
<1>3. CASE j \in {1, 11}
  <2>1. text[at + j] = Mark(LeftBrace) \/ text[at + j] = Mark(LeftBracket)
    BY <1>3 DEF HeadLies
  <2>2. ~Spelled(text[at + j], key)
    BY <2>1, SpelledTokens
  <2> QED BY <1>3, <2>2
<1>4. CASE j \in {5, 9}
  <2>1. text[at + j] = Num(p.rise) \/ text[at + j] = Num(p.maxVelocity)
    BY <1>4 DEF HeadLies
  <2>2. ~Spelled(text[at + j], key)
    BY <2>1, SpelledTokens
  <2> QED BY <1>4, <2>2
<1>5. CASE j \in {3, 7}
  <2>1. text[at + j] = Quote(p.name) \/ text[at + j] = Quote(p.startMacro)
    BY <1>5 DEF HeadLies
  <2>2. ~Spelled(text[at + j], key)
    BY <1>1, <2>1, SpelledTokens
  <2> QED BY <1>5, <2>2
<1>6. CASE j = 2
  <2>1. text[at + j] = Key("name")
    BY <1>6 DEF HeadLies
  <2>2. Spelled(text[at + j], key) <=> key = "name"
    BY <2>1, SpelledTokens
  <2> QED BY <1>6, <2>2
<1>7. CASE j = 4
  <2>1. text[at + j] = Key("rise")
    BY <1>7 DEF HeadLies
  <2>2. Spelled(text[at + j], key) <=> key = "rise"
    BY <2>1, SpelledTokens
  <2> QED BY <1>7, <2>2
<1>8. CASE j = 6
  <2>1. text[at + j] = Key("startMacro")
    BY <1>8 DEF HeadLies
  <2>2. Spelled(text[at + j], key) <=> key = "startMacro"
    BY <2>1, SpelledTokens
  <2> QED BY <1>8, <2>2
<1>9. CASE j = 8
  <2>1. text[at + j] = Key("maxVelocity")
    BY <1>9 DEF HeadLies
  <2>2. Spelled(text[at + j], key) <=> key = "maxVelocity"
    BY <2>1, SpelledTokens
  <2> QED BY <1>9, <2>2
<1>10. CASE j = 10
  <2>1. text[at + j] = Key("filaments")
    BY <1>10 DEF HeadLies
  <2>2. Spelled(text[at + j], key) <=> key = "filaments"
    BY <2>1, SpelledTokens
  <2> QED BY <1>10, <2>2
<1> QED BY <1>2, <1>3, <1>4, <1>5, <1>6, <1>7, <1>8, <1>9, <1>10

\* Where the keys of a filament are.
LEMMA FilamentSpelled ==
    ASSUME NEW text, PlainText(text), NEW at \in Nat, NEW f, FilamentLies(text, at, f),
           at + 8 <= Len(text), NEW key \in Keys, NEW j \in 1 .. 8
    PROVE  Spelled(text[at + j], key)
             <=> \/ j = 2 /\ key = "name"
                 \/ j = 4 /\ key = "type"
                 \/ j = 6 /\ key = "lowFlow"
<1>1. PlainToken(text[at + j])
  <2>1. at + j \in 1 .. Len(text)
    BY DEF PlainText
  <2> QED BY <2>1 DEF PlainText
<1>2. j = 1 \/ j = 2 \/ j = 3 \/ j = 4 \/ j = 5 \/ j = 6 \/ j = 7 \/ j = 8
  BY EightPlaces
<1>3. CASE j \in {1, 8}
  <2>1. text[at + j] = Mark(LeftBrace) \/ text[at + j] = Mark(RightBrace)
    BY <1>3 DEF FilamentLies
  <2>2. ~Spelled(text[at + j], key)
    BY <2>1, SpelledTokens
  <2> QED BY <1>3, <2>2
<1>4. CASE j = 7
  <2>1. text[at + j] = Num(f.lowFlow)
    BY <1>4 DEF FilamentLies
  <2>2. ~Spelled(text[at + j], key)
    BY <2>1, SpelledTokens
  <2> QED BY <1>4, <2>2
<1>5. CASE j \in {3, 5}
  <2>1. text[at + j] = Quote(f.name) \/ text[at + j] = Quote(f.type)
    BY <1>5 DEF FilamentLies
  <2>2. ~Spelled(text[at + j], key)
    BY <1>1, <2>1, SpelledTokens
  <2> QED BY <1>5, <2>2
<1>6. CASE j = 2
  <2>1. text[at + j] = Key("name")
    BY <1>6 DEF FilamentLies
  <2>2. Spelled(text[at + j], key) <=> key = "name"
    BY <2>1, SpelledTokens
  <2> QED BY <1>6, <2>2
<1>7. CASE j = 4
  <2>1. text[at + j] = Key("type")
    BY <1>7 DEF FilamentLies
  <2>2. Spelled(text[at + j], key) <=> key = "type"
    BY <2>1, SpelledTokens
  <2> QED BY <1>7, <2>2
<1>8. CASE j = 6
  <2>1. text[at + j] = Key("lowFlow")
    BY <1>8 DEF FilamentLies
  <2>2. Spelled(text[at + j], key) <=> key = "lowFlow"
    BY <2>1, SpelledTokens
  <2> QED BY <1>8, <2>2
<1> QED BY <1>2, <1>3, <1>4, <1>5, <1>6, <1>7, <1>8

KeyStands(text, key, at, j, to) == KeyAt(text, key, at + 1, to) = at + j + 1

\* What is read behind a key that stands before the end.
LEMMA KeyBehind ==
    ASSUME NEW text, Len(text) \in Nat, NEW key \in Keys, NEW at \in Nat, NEW j \in Nat,
           NEW to \in Nat, 1 <= j, at + j < Len(text), at + j < to, text[at + j] = Key(key),
           \A l \in 1 .. (j - 1) : ~Spelled(text[at + l], key)
    PROVE  KeyStands(text, key, at, j, to)
<1> DEFINE from == at + 1
           i == at + j
<1>1. from \in Nat /\ i \in Nat /\ 1 <= from /\ from <= i /\ i < Len(text) /\ i < to
  OBVIOUS
<1>2. ASSUME NEW m \in from .. (i - 1) PROVE ~Spelled(text[m], key)
  <2>1. m - at \in 1 .. (j - 1) /\ m = at + (m - at)
    OBVIOUS
  <2> QED BY <2>1
<1> HIDE DEF from, i
<1>3. text[i] = Key(key)
  BY DEF i
<1>4. KeyAt(text, key, from, to) = i + 1
  BY <1>1, <1>2, <1>3, KeyIs
<1> QED BY <1>4 DEF KeyStands, from, i

\* The keys of a printer are found in its head, not in its filaments.
LEMMA HeadKeys ==
    ASSUME NEW text, PlainText(text), NEW at \in Nat, NEW p, HeadLies(text, at, p),
           at + 11 <= Len(text), NEW to \in Nat, at + 11 <= to
    PROVE  /\ KeyAt(text, "name", at + 1, to) = at + 3
           /\ KeyAt(text, "rise", at + 1, to) = at + 5
           /\ KeyAt(text, "startMacro", at + 1, to) = at + 7
           /\ KeyAt(text, "maxVelocity", at + 1, to) = at + 9
           /\ KeyAt(text, "filaments", at + 1, to) = at + 11
<1>1. Len(text) \in Nat
  BY DEF PlainText
<1>2. /\ text[at + 2] = Key("name") /\ text[at + 4] = Key("rise")
      /\ text[at + 6] = Key("startMacro") /\ text[at + 8] = Key("maxVelocity")
      /\ text[at + 10] = Key("filaments")
  BY DEF HeadLies
<1>3. ASSUME NEW key \in Keys, NEW j \in 1 .. 10, text[at + j] = Key(key),
             \A l \in 1 .. (j - 1) : ~Spelled(text[at + l], key)
      PROVE  KeyAt(text, key, at + 1, to) = at + (j + 1)
  <2>1. j \in Nat /\ 1 <= j /\ at + j < Len(text) /\ at + j < to /\ at + j + 1 = at + (j + 1)
    BY <1>1
  <2>2. KeyStands(text, key, at, j, to)
    BY <1>1, <1>3, <2>1, KeyBehind
  <2> QED BY <2>1, <2>2 DEF KeyStands
<1>4. "name" \in Keys /\ "rise" \in Keys /\ "startMacro" \in Keys /\ "maxVelocity" \in Keys
      /\ "filaments" \in Keys
  BY KeyNamesAre DEF KeyNames
<1>5. ASSUME NEW key \in Keys, NEW l \in 1 .. 11
      PROVE  Spelled(text[at + l], key)
               <=> \/ l = 2 /\ key = "name"
                   \/ l = 4 /\ key = "rise"
                   \/ l = 6 /\ key = "startMacro"
                   \/ l = 8 /\ key = "maxVelocity"
                   \/ l = 10 /\ key = "filaments"
  BY HeadSpelled
<1> HIDE DEF Keys
<1>6. KeyAt(text, "name", at + 1, to) = at + 3
  <2>1. \A l \in 1 .. (2 - 1) : ~Spelled(text[at + l], "name")
    BY <1>4, <1>5
  <2> QED BY <1>2, <1>3, <1>4, <2>1
<1>7. KeyAt(text, "rise", at + 1, to) = at + 5
  <2>1. \A l \in 1 .. (4 - 1) : ~Spelled(text[at + l], "rise")
    BY <1>4, <1>5
  <2> QED BY <1>2, <1>3, <1>4, <2>1
<1>8. KeyAt(text, "startMacro", at + 1, to) = at + 7
  <2>1. \A l \in 1 .. (6 - 1) : ~Spelled(text[at + l], "startMacro")
    BY <1>4, <1>5
  <2> QED BY <1>2, <1>3, <1>4, <2>1
<1>9. KeyAt(text, "maxVelocity", at + 1, to) = at + 9
  <2>1. \A l \in 1 .. (8 - 1) : ~Spelled(text[at + l], "maxVelocity")
    BY <1>4, <1>5
  <2> QED BY <1>2, <1>3, <1>4, <2>1
<1>10. KeyAt(text, "filaments", at + 1, to) = at + 11
  <2>1. \A l \in 1 .. (10 - 1) : ~Spelled(text[at + l], "filaments")
    BY <1>4, <1>5
  <2> QED BY <1>2, <1>3, <1>4, <2>1
<1> QED BY <1>6, <1>7, <1>8, <1>9, <1>10

\* A filament as it is read back.
Rounded(f) == [name |-> f.name, type |-> f.type, lowFlow |-> Printed(f.lowFlow)]

\* A filament that is there as a whole is read as it was written.
LEMMA FilamentRead ==
    ASSUME NEW text, PlainText(text), NEW at \in Nat, NEW f, FilamentLies(text, at, f),
           at + 8 <= Len(text)
    PROVE  FilamentAt(text, at + 1, at + 8) = Rounded(f)
<1> DEFINE to == at + 8
<1>1. Len(text) \in Nat /\ to \in Nat
  BY DEF PlainText
<1>2. /\ text[at + 2] = Key("name") /\ text[at + 3] = Quote(f.name)
      /\ text[at + 4] = Key("type") /\ text[at + 5] = Quote(f.type)
      /\ text[at + 6] = Key("lowFlow") /\ text[at + 7] = Num(f.lowFlow)
  BY DEF FilamentLies
<1>3. ASSUME NEW key \in Keys, NEW j \in 1 .. 6, text[at + j] = Key(key),
             \A l \in 1 .. (j - 1) : ~Spelled(text[at + l], key)
      PROVE  KeyAt(text, key, at + 1, to) = at + (j + 1)
  <2>1. j \in Nat /\ 1 <= j /\ at + j < Len(text) /\ at + j < to /\ at + j + 1 = at + (j + 1)
    BY <1>1
  <2>2. KeyStands(text, key, at, j, to)
    BY <1>1, <1>3, <2>1, KeyBehind
  <2> QED BY <2>1, <2>2 DEF KeyStands
<1>4. "name" \in Keys /\ "type" \in Keys /\ "lowFlow" \in Keys
  BY KeyNamesAre DEF KeyNames
<1>5. ASSUME NEW key \in Keys, NEW l \in 1 .. 8
      PROVE  Spelled(text[at + l], key)
               <=> \/ l = 2 /\ key = "name"
                   \/ l = 4 /\ key = "type"
                   \/ l = 6 /\ key = "lowFlow"
  BY FilamentSpelled
<1> HIDE DEF Keys, to
<1>6. KeyAt(text, "name", at + 1, to) = at + 3
  <2>1. \A l \in 1 .. (2 - 1) : ~Spelled(text[at + l], "name")
    BY <1>4, <1>5
  <2> QED BY <1>2, <1>3, <1>4, <2>1, SMTT(30)
<1>7. KeyAt(text, "type", at + 1, to) = at + 5
  <2>1. \A l \in 1 .. (4 - 1) : ~Spelled(text[at + l], "type")
    BY <1>4, <1>5
  <2> QED BY <1>2, <1>3, <1>4, <2>1
<1>8. KeyAt(text, "lowFlow", at + 1, to) = at + 7
  <2>1. \A l \in 1 .. (6 - 1) : ~Spelled(text[at + l], "lowFlow")
    BY <1>4, <1>5
  <2> QED BY <1>2, <1>3, <1>4, <2>1
<1>9. at + 3 # 0 /\ at + 5 # 0 /\ at + 7 # 0
  OBVIOUS
<1>10. /\ \A x : Quote(x).is = "string" /\ Quote(x).text = x
       /\ \A n : Num(n).is = "number" /\ Num(n).text = Printed(n)
  BY <1>4, SpelledTokens
<1>11. \A default : Read(text, "name", "string", default, at + 1, to) = f.name
  <2>1. text[at + 3].is = "string" /\ text[at + 3].text = f.name
    BY <1>2, <1>10, Zenon
  <2> QED BY <1>6, <1>9, <2>1 DEF Read
<1>12. \A default : Read(text, "type", "string", default, at + 1, to) = f.type
  <2>1. text[at + 5].is = "string" /\ text[at + 5].text = f.type
    BY <1>2, <1>10, Zenon
  <2> QED BY <1>7, <1>9, <2>1 DEF Read
<1>13. \A default : Read(text, "lowFlow", "number", default, at + 1, to) = Printed(f.lowFlow)
  <2>1. text[at + 7].is = "number" /\ text[at + 7].text = Printed(f.lowFlow)
    BY <1>2, <1>10, Zenon
  <2> QED BY <1>8, <1>9, <2>1 DEF Read
<1>14. FilamentAt(text, at + 1, to) = Rounded(f)
  BY <1>11, <1>12, <1>13, Zenon DEF FilamentAt, Rounded
<1> QED BY <1>14 DEF to

LEMMA BraceOfMark == \A b : Brace(Mark(b)) = b
<1>1. \A b : Mark(b).is = "mark" /\ Mark(b).text = b
  BY DEF Mark
<1> QED BY <1>1, Zenon DEF Brace

\* The filaments of a printer that is there as a whole.
FilamentPlaces(at, n) == [j \in 1 .. (n + 1) |-> at + 4 + 8 * j]

ChainOfFilaments(text, at, p, n, q) ==
    /\ Chain(text, at + 11, at + SizeOf(p) - 1, n, q)
    /\ \A j \in 1 .. n : FilamentAt(text, q[j], q[j + 1] - 1) = Rounded(p.filaments[j])

\* The filaments of a printer stand one behind the other.
LEMMA FilamentsChain ==
    ASSUME NEW text, PlainText(text), NEW at \in Nat, NEW p, Len(p.filaments) \in Nat,
           PrinterLies(text, at, p), at + SizeOf(p) <= Len(text)
    PROVE  ChainOfFilaments(text, at, p, Len(p.filaments),
                            FilamentPlaces(at, Len(p.filaments)))
<1> DEFINE n == Len(p.filaments)
           q == FilamentPlaces(at, n)
           z == SizeOf(p)
           end == at + z - 1
<1>0. n \in Nat /\ z = 13 + 8 * n /\ z \in Nat
  BY DEF SizeOf
<1>a. at + z <= Len(text) /\ Len(text) \in Nat
  BY DEF PlainText
<1>b. /\ \A j \in 1 .. n : FilamentLies(text, at + 3 + 8 * j, p.filaments[j])
  BY DEF PrinterLies
<1> HIDE DEF z, n
<1>1. /\ n \in Nat /\ z = 13 + 8 * n /\ Len(text) \in Nat /\ at + z <= Len(text)
      /\ end = at + 12 + 8 * n
  BY <1>0, <1>a
<1> HIDE DEF z, end, q
<1>2. /\ q[1] = at + 11 + 1 /\ q[n + 1] = end
      /\ \A j \in 1 .. n : q[j] = at + 4 + 8 * j /\ q[j + 1] = at + 12 + 8 * j
  <2>1. 1 \in 1 .. (n + 1) /\ n + 1 \in 1 .. (n + 1)
        /\ \A j \in 1 .. n : j \in 1 .. (n + 1) /\ j + 1 \in 1 .. (n + 1)
    BY <1>1
  <2>2. \A j \in 1 .. (n + 1) : q[j] = at + 4 + 8 * j
    BY DEF q, FilamentPlaces
  <2>3. q[1] = at + 4 + 8 * 1 /\ q[n + 1] = at + 4 + 8 * (n + 1)
    BY <2>1, <2>2
  <2>4. ASSUME NEW j \in 1 .. n PROVE q[j] = at + 4 + 8 * j /\ q[j + 1] = at + 12 + 8 * j
    <3>1. q[j] = at + 4 + 8 * j /\ q[j + 1] = at + 4 + 8 * (j + 1)
      BY <2>1, <2>2
    <3> QED BY <3>1
  <2>5. at + 4 + 8 * 1 = at + 11 + 1 /\ at + 4 + 8 * (n + 1) = end
    BY <1>1
  <2> QED BY <2>3, <2>4, <2>5, Zenon
<1>3. ASSUME NEW j \in 1 .. n
      PROVE  /\ q[j] \in 1 .. Len(text) /\ q[j] < end
             /\ Brace(text[q[j]]) = LeftBrace
             /\ q[j + 1] \in Nat /\ q[j] < q[j + 1]
             /\ MatchBrace(text, q[j]) = q[j + 1] - 1
             /\ FilamentAt(text, q[j], q[j + 1] - 1) = Rounded(p.filaments[j])
  <2> DEFINE to == at + 3 + 8 * j
             f == p.filaments[j]
  <2>1. to \in Nat /\ FilamentLies(text, to, f)
    BY <1>0, <1>b
  <2>a. q[j] = at + 4 + 8 * j /\ q[j + 1] = at + 12 + 8 * j
    BY <1>2
  <2>b. at + 4 + 8 * j = to + 1 /\ at + 12 + 8 * j = to + 9 /\ to + 8 < end /\ end < Len(text)
        /\ to + 9 - 1 = to + 8
    BY <1>1
  <2> HIDE DEF to, f
  <2>2. q[j] = to + 1 /\ q[j + 1] = to + 9 /\ q[j + 1] - 1 = to + 8 /\ to + 8 < end
        /\ end < Len(text)
    <3>1. q[j] = to + 1 /\ q[j + 1] = to + 9
      BY <2>a, <2>b, Zenon
    <3>2. q[j + 1] - 1 = to + 8
      BY <3>1, <2>1
    <3> QED BY <3>1, <3>2, <2>b, Zenon
  <2>3. text[to + 1] = Mark(LeftBrace)
    BY <2>1 DEF FilamentLies
  <2>4. to + 8 <= Len(text) /\ to + 1 \in 1 .. Len(text) /\ to + 1 < end /\ to + 9 \in Nat
    <3>1. end \in Nat
      BY <1>1
    <3>2. to + 8 < end /\ end < Len(text)
      BY <2>2, Zenon
    <3> QED BY <1>1, <2>1, <3>1, <3>2
  <2>5. MatchBrace(text, to + 1) = to + 8
    BY <2>1, <2>4, FilamentMatched
  <2>6. FilamentAt(text, to + 1, to + 8) = Rounded(f)
    BY <2>1, <2>4, FilamentRead
  <2>7. Brace(text[to + 1]) = LeftBrace
    BY <2>3, BraceOfMark, Zenon
  <2>8. to + 1 < to + 9
    BY <2>1
  <2> QED BY <2>2, <2>4, <2>5, <2>6, <2>7, <2>8, Zenon DEF f
<1>4. q[n + 1] \in 1 .. (Len(text) + 1) /\ q[n + 1] >= end
  <2>1. end \in 1 .. (Len(text) + 1) /\ end >= end
    BY <1>1
  <2> QED BY <1>2, <2>1, Zenon
<1>5. Chain(text, at + 11, end, n, q)
  BY <1>2, <1>3, <1>4 DEF Chain
<1> QED BY <1>3, <1>5, Zenon DEF ChainOfFilaments, end, z, q, n

\* The filaments of a printer are read in order, those with a name.
LEMMA FilamentsRead ==
    ASSUME NEW text, PlainText(text), NEW at \in Nat, NEW p, Len(p.filaments) \in Nat,
           PrinterLies(text, at, p), at + SizeOf(p) <= Len(text)
    PROVE  FilamentsAt(text, at + 11)
             = Named([j \in 1 .. Len(p.filaments) |-> Rounded(p.filaments[j])])
<1> DEFINE n == Len(p.filaments)
           q == FilamentPlaces(at, n)
           end == at + SizeOf(p) - 1
           list == at + 11
           places == [j \in 1 .. n |-> Stretch(q, j)]
<1>1. /\ Chain(text, list, end, n, q)
      /\ \A j \in 1 .. n : FilamentAt(text, q[j], q[j + 1] - 1) = Rounded(p.filaments[j])
  <2>1. ChainOfFilaments(text, at, p, n, q)
    BY FilamentsChain
  <2> QED BY <2>1 DEF ChainOfFilaments
<1>2. Len(text) \in Nat /\ SizeOf(p) = 13 + 8 * n
  BY DEF PlainText, SizeOf
<1>3. end \in Nat /\ end # 0 /\ list \in 1 .. Len(text)
  BY <1>2
<1>4. MatchBrace(text, list) = end
  BY ListMatched
<1> HIDE DEF q, end, list
<1>5. Objects(text, list) = places
  <2>1. end = IF MatchBrace(text, list) = 0 THEN Len(text) + 1 ELSE MatchBrace(text, list)
    BY <1>3, <1>4
  <2> QED BY <1>1, <1>2, <1>3, <2>1, ObjectsAre
<1>6. DOMAIN places = 1 .. n
      /\ \A j \in 1 .. n : places[j].open = q[j] /\ places[j].close = q[j + 1] - 1
  BY DEF Stretch
<1> HIDE DEF places
<1>7. [j \in DOMAIN places |-> FilamentAt(text, places[j].open, places[j].close)]
        = [j \in 1 .. n |-> Rounded(p.filaments[j])]
  BY <1>1, <1>6
<1>8. FilamentsAt(text, list) = Named([j \in DOMAIN places |->
                                    FilamentAt(text, places[j].open, places[j].close)])
  BY <1>5, Zenon DEF FilamentsAt
<1> QED BY <1>7, <1>8, Zenon DEF list

\* A printer as it is read back.
Stored(p) ==
    [name |-> p.name, rise |-> Printed(p.rise), startMacro |-> p.startMacro,
     maxVelocity |-> Printed(p.maxVelocity),
     filaments |-> Named([j \in 1 .. Len(p.filaments) |-> Rounded(p.filaments[j])])]

\* A printer that is there as a whole is read as it can be kept.
LEMMA PrinterRead ==
    ASSUME NEW text, PlainText(text), NEW at \in Nat, NEW p, Len(p.filaments) \in Nat,
           PrinterLies(text, at, p), at + SizeOf(p) <= Len(text)
    PROVE  PrinterAt(text, at + 1, at + SizeOf(p)) = Stored(p)
<1> DEFINE to == at + SizeOf(p)
           end == at + 11
           n == Len(p.filaments)
<1>1. Len(text) \in Nat /\ SizeOf(p) = 13 + 8 * n /\ HeadLies(text, at, p)
  BY DEF PlainText, SizeOf, PrinterLies
<1>2. to \in Nat /\ end \in Nat /\ end <= to /\ end <= Len(text) /\ end # 0
      /\ at + 3 # 0 /\ at + 5 # 0 /\ at + 7 # 0 /\ at + 9 # 0
  BY <1>1
<1>3. FilamentsAt(text, end) = Named([j \in 1 .. n |-> Rounded(p.filaments[j])])
  BY FilamentsRead
<1>4. KeyAt(text, "filaments", at + 1, to) = end
  BY <1>1, <1>2, HeadKeys
<1>5. /\ KeyAt(text, "name", at + 1, end) = at + 3
      /\ KeyAt(text, "rise", at + 1, end) = at + 5
      /\ KeyAt(text, "startMacro", at + 1, end) = at + 7
      /\ KeyAt(text, "maxVelocity", at + 1, end) = at + 9
  BY <1>1, <1>2, HeadKeys
<1> HIDE DEF to, end
<1>6. "name" \in Keys
  BY KeyNamesAre DEF KeyNames
<1>7. /\ \A x : Quote(x).is = "string" /\ Quote(x).text = x
      /\ \A k : Num(k).is = "number" /\ Num(k).text = Printed(k)
  BY <1>6, SpelledTokens
<1>8. /\ text[at + 3] = Quote(p.name) /\ text[at + 5] = Num(p.rise)
      /\ text[at + 7] = Quote(p.startMacro) /\ text[at + 9] = Num(p.maxVelocity)
      /\ text[end] = Mark(LeftBracket)
  BY <1>1 DEF HeadLies, end
<1>9. \A default : Read(text, "name", "string", default, at + 1, end) = p.name
  <2>1. text[at + 3].is = "string" /\ text[at + 3].text = p.name
    BY <1>7, <1>8, Zenon
  <2> QED BY <1>2, <1>5, <2>1 DEF Read
<1>10. \A default : Read(text, "rise", "number", default, at + 1, end) = Printed(p.rise)
  <2>1. text[at + 5].is = "number" /\ text[at + 5].text = Printed(p.rise)
    BY <1>7, <1>8, Zenon
  <2> QED BY <1>2, <1>5, <2>1 DEF Read
<1>11. \A default : Read(text, "startMacro", "string", default, at + 1, end) = p.startMacro
  <2>1. text[at + 7].is = "string" /\ text[at + 7].text = p.startMacro
    BY <1>7, <1>8, Zenon
  <2> QED BY <1>2, <1>5, <2>1 DEF Read
<1>12. \A default : Read(text, "maxVelocity", "number", default, at + 1, end)
                      = Printed(p.maxVelocity)
  <2>1. text[at + 9].is = "number" /\ text[at + 9].text = Printed(p.maxVelocity)
    BY <1>7, <1>8, Zenon
  <2> QED BY <1>2, <1>5, <2>1 DEF Read
<1>13. IsMark(text[end], LeftBracket)
  BY <1>8, MarksOfTokens
<1>14. ScalarsEnd(end, to) = end
  BY <1>2 DEF ScalarsEnd
<1>15. PrinterAt(text, at + 1, to) =
         [name |-> p.name, rise |-> Printed(p.rise), startMacro |-> p.startMacro,
          maxVelocity |-> Printed(p.maxVelocity), filaments |-> FilamentsAt(text, end)]
  <2>1. IsMark(text[end], "[")
    BY <1>13, Zenon DEF LeftBracket
  <2> DEFINE Scalar(key, type) == Read(text, key, type, DefaultPrinter[key], at + 1, end)
  <2>2. PrinterAt(text, at + 1, to) =
          [name |-> Scalar("name", "string"), rise |-> Scalar("rise", "number"),
           startMacro |-> Scalar("startMacro", "string"),
           maxVelocity |-> Scalar("maxVelocity", "number"),
           filaments |-> FilamentsAt(text, end)]
    BY <1>2, <1>4, <1>14, <2>1, Zenon DEF PrinterAt
  <2> QED BY <1>9, <1>10, <1>11, <1>12, <2>2, Zenon
<1> QED BY <1>3, <1>15, Zenon DEF Stored, to

\* The printers that are there as a whole.
PrinterPlaces(s, n) == [j \in 1 .. (n + 1) |-> s[j] + 1]

EndOf(text, at) == IF MatchBrace(text, at) = 0 THEN Len(text) + 1 ELSE MatchBrace(text, at)

ChainOfPrinters(text, list, m, q) ==
    /\ Chain(text, 3, EndOf(text, 3), m, q)
    /\ \A j \in 1 .. m : PrinterAt(text, q[j], q[j + 1] - 1) = Stored(list[j])

WholeUpTo(text, list, s, m) ==
    /\ m \in 0 .. Len(list)
    /\ s[m + 1] <= Len(text)
    /\ m < Len(list) => Len(text) < s[m + 2]

\* The printers that are there as a whole stand one behind the other.
LEMMA PrintersChain ==
    ASSUME NEW text, PlainText(text), NEW whole, CutOff(text, whole),
           NEW list, Len(list) \in Nat, NEW s, Layout(whole, list, s),
           NEW m, WholeUpTo(text, list, s, m)
    PROVE  ChainOfPrinters(text, list, m, PrinterPlaces(s, Len(list)))
<1> DEFINE n == Len(list)
           L == Len(text)
           q == PrinterPlaces(s, n)
           end == EndOf(text, 3)
<1>1. /\ n \in Nat
      /\ \A k \in 1 .. (n + 1) : s[k] \in Nat /\ s[k] >= 3
      /\ \A k \in 1 .. n : SizeOf(list[k]) \in Nat /\ SizeOf(list[k]) >= 13
      /\ \A k \in 1 .. n : s[k + 1] = s[k] + SizeOf(list[k])
      /\ \A k \in 1 .. n : \A i \in 1 .. (n + 1) : k < i => s[k] + SizeOf(list[k]) <= s[i]
  BY Rising
<1>2. L \in Nat /\ \A i \in 1 .. L : text[i] = whole[i]
  BY DEF PlainText, CutOff
<1>3. /\ \A k \in 1 .. n : Len(list[k].filaments) \in Nat /\ PrinterLies(whole, s[k], list[k])
      /\ s[1] = 3
  BY DEF Layout
<1>4. m \in 0 .. n /\ s[m + 1] <= L /\ (m < n => L < s[m + 2])
  BY DEF WholeUpTo
<1>5. s[m + 1] \in Nat /\ s[m + 1] >= 3 /\ L >= 3 /\ s[n + 1] \in Nat
  <2>1. m + 1 \in 1 .. (n + 1) /\ n + 1 \in 1 .. (n + 1)
    BY <1>1, <1>4
  <2>2. s[m + 1] \in Nat /\ s[m + 1] >= 3 /\ s[n + 1] \in Nat
    BY <1>1, <2>1
  <2> QED BY <1>2, <1>4, <2>2
<1>6. end = IF s[n + 1] + 1 <= L THEN s[n + 1] + 1 ELSE L + 1
  <2>1. MatchBrace(text, 3) = IF s[n + 1] + 1 <= L THEN s[n + 1] + 1 ELSE 0
    BY <1>1, <1>5, PrintersMatched
  <2> DEFINE b == MatchBrace(text, 3)
             c == s[n + 1] + 1
  <2>2. c # 0 /\ b = IF c <= L THEN c ELSE 0
    BY <1>5, <2>1
  <2>3. end = IF b = 0 THEN L + 1 ELSE b
    BY Zenon DEF EndOf
  <2> HIDE DEF b, c, end, L
  <2> SUFFICES end = IF c <= L THEN c ELSE L + 1
    BY DEF c
  <2> QED BY <2>2, <2>3, Zenon
<1> HIDE DEF end, n, L, q
<1>7. \A j \in 1 .. (n + 1) : q[j] = s[j] + 1
  BY DEF q, PrinterPlaces
<1>8. ASSUME NEW j \in 1 .. m
      PROVE  /\ q[j] \in 1 .. L /\ q[j] < end
             /\ Brace(text[q[j]]) = LeftBrace
             /\ q[j + 1] \in Nat /\ q[j] < q[j + 1]
             /\ MatchBrace(text, q[j]) = q[j + 1] - 1
             /\ PrinterAt(text, q[j], q[j + 1] - 1) = Stored(list[j])
  <2> DEFINE at == s[j]
             p == list[j]
             z == SizeOf(p)
  <2>0. j \in 1 .. n /\ j \in 1 .. (n + 1) /\ j + 1 \in 1 .. (n + 1) /\ m + 1 \in 1 .. (n + 1)
        /\ n + 1 \in 1 .. (n + 1) /\ j < m + 1 /\ j < n + 1
    BY <1>1, <1>4
  <2>1. at \in Nat /\ z \in Nat /\ z >= 13 /\ s[j + 1] = at + z /\ at + z <= s[m + 1]
        /\ at + z <= s[n + 1]
    BY <1>1, <2>0
  <2>2. PrinterLies(whole, at, p) /\ Len(p.filaments) \in Nat
    BY <1>3, <2>0
  <2>3. q[j] = at + 1 /\ q[j + 1] = s[j + 1] + 1
    BY <1>7, <2>0
  <2> HIDE DEF at, p, z
  <2>4. at + z <= L /\ at + 1 < end
    BY <1>2, <1>4, <1>5, <1>6, <2>1
  <2>5. q[j + 1] = at + z + 1
    BY <2>1, <2>3, Zenon
  <2>6. at + z + 1 - 1 = at + z /\ at + z + 1 \in Nat /\ at + 1 < at + z + 1 /\ at + 1 \in 1 .. L
        /\ at + 1 <= L
    BY <1>2, <2>1, <2>4
  <2>7. PrinterLies(text, at, p)
    <3>1. \A i \in 1 .. z : text[at + i] = whole[at + i]
      <4>1. \A i \in 1 .. z : at + i \in 1 .. L
        BY <1>2, <2>1, <2>4
      <4> QED BY <1>2, <4>1
    <3> QED BY <2>1, <2>2, <3>1, PrinterMoved DEF z
  <2>8. MatchBrace(text, at + 1) = at + z
    BY <2>1, <2>2, <2>4, <2>6, PrinterMatched DEF z, L
  <2>9. PrinterAt(text, at + 1, at + z) = Stored(p)
    BY <2>1, <2>2, <2>4, <2>7, PrinterRead DEF z, L
  <2>10. Brace(text[at + 1]) = LeftBrace
    <3>1. text[at + 1] = Mark(LeftBrace)
      BY <2>7 DEF PrinterLies, HeadLies
    <3> QED BY <3>1, BraceOfMark, Zenon
  <2>11. q[j + 1] - 1 = at + z
    BY <2>1, <2>5
  <2> QED BY <2>3, <2>4, <2>5, <2>6, <2>8, <2>9, <2>10, <2>11, Zenon DEF p
<1>9. q[m + 1] = s[m + 1] + 1 /\ q[1] = 3 + 1 /\ q[m + 1] \in 1 .. (L + 1)
  <2>1. m + 1 \in 1 .. (n + 1) /\ 1 \in 1 .. (n + 1)
    BY <1>1, <1>4
  <2>2. q[m + 1] = s[m + 1] + 1 /\ q[1] = s[1] + 1
    BY <1>7, <2>1
  <2> QED BY <1>2, <1>3, <1>4, <1>5, <2>2
<1>10. \/ q[m + 1] = L + 1
       \/ q[m + 1] >= end
       \/ Brace(text[q[m + 1]]) = LeftBrace /\ MatchBrace(text, q[m + 1]) = 0
  <2>1. CASE m = n
    BY <1>2, <1>4, <1>5, <1>6, <1>9, <2>1
  <2>2. CASE m < n
    <3> DEFINE k == m + 1
               at == s[k]
               p == list[k]
               z == SizeOf(p)
    <3>1. k \in 1 .. n /\ m + 2 = k + 1
      BY <1>1, <1>4, <2>2
    <3>2. at \in Nat /\ z \in Nat /\ s[k + 1] = at + z
      BY <1>1, <1>5, <3>1
    <3>3. PrinterLies(whole, at, p) /\ Len(p.filaments) \in Nat
      BY <1>3, <3>1
    <3>4. L < at + z
      BY <1>4, <2>2, <3>1, <3>2, Zenon
    <3>5. q[m + 1] = at + 1 /\ at <= L
      BY <1>4, <1>9
    <3> HIDE DEF at, p, z
    <3>6. CASE at = L
      BY <3>5, <3>6
    <3>7. CASE at < L
      <4>1. at + 1 <= L /\ ~(at + z <= L) /\ at + 1 \in 1 .. L
        BY <1>2, <3>2, <3>4, <3>7
      <4>2. MatchBrace(text, at + 1) = 0
        BY <3>2, <3>3, <4>1, PrinterMatched DEF z, L
      <4>3. whole[at + 1] = Mark(LeftBrace)
        BY <3>3 DEF PrinterLies, HeadLies
      <4>4. Brace(text[at + 1]) = LeftBrace
        BY <1>2, <4>1, <4>3, BraceOfMark, Zenon
      <4> QED BY <3>5, <4>2, <4>4, Zenon
    <3> QED BY <1>2, <3>2, <3>5, <3>6, <3>7
  <2> QED BY <1>1, <1>4, <2>1, <2>2
<1>11. Chain(text, 3, end, m, q)
  BY <1>8, <1>9, <1>10, Zenon DEF Chain, L
<1> QED BY <1>8, <1>11, Zenon DEF ChainOfPrinters, end, q, n

\* Of a text cut off before the list there is nothing to be read.
LEMMA NothingRead ==
    ASSUME NEW text, PlainText(text), NEW whole, CutOff(text, whole),
           NEW list, NEW s, Layout(whole, list, s), Len(text) <= 2
    PROVE  FromJson(text) = <<>>
<1> DEFINE key == "printers"
           L == Len(text)
           S == {i \in 1 .. L : Spelled(text[i], key)}
           at == FirstOf(S)
           C == {i \in at .. L : text[i].is = "key"}
           colon == FirstOf(C)
<1>1. key \in Keys /\ L \in Nat
  BY KeyNamesAre DEF KeyNames, PlainText
<1> HIDE DEF key
<1>2. 1 <= L => ~Spelled(text[1], key)
  <2> SUFFICES ASSUME 1 <= L PROVE ~Spelled(text[1], key)
    OBVIOUS
  <2>1. text[1] = Mark(LeftBrace)
    BY <1>1 DEF CutOff, Layout
  <2> QED BY <1>1, <2>1, SpelledTokens
<1>3. S \in SUBSET Nat /\ \A i \in S : i = 2 /\ L = 2
  BY <1>1, <1>2, SMTT(30)
<1> HIDE DEF S
<1>4. at = 0 \/ (at = 2 /\ L = 2)
  <2>1. at = 0 \/ at \in S
    BY <1>3, FirstOfIn
  <2> HIDE DEF at, L
  <2> QED BY <1>3, <2>1, Zenon
<1>5. CASE at = 0
  <2>1. KeyAt(text, key, 1, L + 1) = 0
    BY <1>5, Zenon DEF KeyAt, S
  <2> QED BY <2>1, Zenon DEF FromJson, key
<1>6. CASE at = 2 /\ L = 2
  <2>1. C \in SUBSET {2}
    BY <1>6
  <2>2. colon = 0 \/ colon \in C
    <3>1. C \in SUBSET Nat
      BY <2>1
    <3> QED BY <3>1, FirstOfIn
  <2> HIDE DEF C
  <2>3. colon \in {0, L}
    BY <1>6, <2>1, <2>2
  <2>4. KeyAt(text, key, 1, L + 1) = 0
    BY <2>3, Zenon DEF KeyAt, S, C, at
  <2> QED BY <2>4, Zenon DEF FromJson, key
<1> QED BY <1>4, <1>5, <1>6

\* Of a text that is cut off the printers are read that are there as a whole.
LEMMA PrintersRead ==
    ASSUME NEW text, PlainText(text), NEW whole, CutOff(text, whole),
           NEW list, Len(list) \in Nat, NEW s, Layout(whole, list, s), 3 <= Len(text),
           NEW m, WholeUpTo(text, list, s, m)
    PROVE  FromJson(text) = Named([j \in 1 .. m |-> Stored(list[j])])
<1> DEFINE n == Len(list)
           L == Len(text)
           q == PrinterPlaces(s, n)
           end == EndOf(text, 3)
           key == "printers"
           places == [j \in 1 .. m |-> Stretch(q, j)]
<1>1. L \in Nat /\ L >= 3 /\ m \in Nat /\ 3 \in 1 .. L /\ n \in Nat /\ 3 # 0
  BY DEF PlainText, WholeUpTo
<1>2. /\ text[1] = Mark(LeftBrace) /\ text[2] = Key("printers") /\ text[3] = Mark(LeftBracket)
  <2>1. 1 \in 1 .. L /\ 2 \in 1 .. L /\ 3 \in 1 .. L
    BY <1>1
  <2> QED BY <2>1 DEF CutOff, Layout
<1>3. ChainOfPrinters(text, list, m, q)
  BY <1>1, PrintersChain
<1>4. key \in Keys
  BY KeyNamesAre DEF KeyNames
<1>5. KeyAt(text, key, 1, L + 1) = 3
  <2>1. text[2] = Key(key)
    BY <1>2
  <2> HIDE DEF key
  <2>2. \A j \in 1 .. (2 - 1) : ~Spelled(text[j], key)
    <3>1. ~Spelled(text[1], key)
      BY <1>2, <1>4, SpelledTokens
    <3> QED BY <3>1
  <2>3. KeyAt(text, key, 1, L + 1) = 2 + 1
    BY <1>1, <1>4, <2>1, <2>2, KeyIs
  <2> QED BY <2>3
<1>6. end \in Nat
  <2>1. MatchBrace(text, 3) = 0 \/ MatchBrace(text, 3) \in 3 .. L
    BY <1>1, MatchBraceRange
  <2> QED BY <1>1, <2>1 DEF EndOf
<1>7. Objects(text, 3) = places
  <2>1. Chain(text, 3, end, m, q)
    BY <1>3 DEF ChainOfPrinters
  <2>2. end = IF MatchBrace(text, 3) = 0 THEN Len(text) + 1 ELSE MatchBrace(text, 3)
    BY DEF EndOf
  <2> HIDE DEF end, q
  <2> QED BY <1>1, <1>6, <2>1, <2>2, ObjectsAre
<1>8. DOMAIN places = 1 .. m
      /\ \A j \in 1 .. m : places[j].open = q[j] /\ places[j].close = q[j + 1] - 1
  BY DEF Stretch
<1>9. \A j \in 1 .. m : PrinterAt(text, q[j], q[j + 1] - 1) = Stored(list[j])
  BY <1>3 DEF ChainOfPrinters
<1> HIDE DEF places, q
<1>10. [j \in DOMAIN places |-> PrinterAt(text, places[j].open, places[j].close)]
        = [j \in 1 .. m |-> Stored(list[j])]
  BY <1>8, <1>9
<1>11. IsMark(text[3], "[")
  <2>1. IsMark(text[3], LeftBracket)
    BY <1>2, MarksOfTokens
  <2> QED BY <2>1, Zenon DEF LeftBracket
<1>12. FromJson(text) = Named([j \in DOMAIN places |->
                                   PrinterAt(text, places[j].open, places[j].close)])
  BY <1>1, <1>5, <1>7, <1>11, Zenon DEF FromJson, key
<1> QED BY <1>10, <1>12, Zenon

\* Some number of printers is there as a whole.
LEMMA WholesExist ==
    ASSUME NEW text, NEW whole, CutOff(text, whole), NEW list, Len(list) \in Nat,
           NEW s, Layout(whole, list, s), 3 <= Len(text)
    PROVE  \E m \in 0 .. Len(list) : /\ WholeUpTo(text, list, s, m)
                                     /\ Len(text) = Len(whole) => m = Len(list)
<1> DEFINE n == Len(list)
           L == Len(text)
           Good(m) == m = n \/ L < s[m + 2]
<1>1. /\ n \in Nat
      /\ \A k \in 1 .. (n + 1) : s[k] \in Nat /\ s[k] >= 3
      /\ \A k \in 1 .. n : s[k + 1] = s[k] + SizeOf(list[k])
      /\ \A k \in 1 .. n : \A i \in 1 .. (n + 1) : k < i => s[k] + SizeOf(list[k]) <= s[i]
  BY Rising
<1>2. L \in Nat /\ s[1] = 3 /\ Len(whole) = s[n + 1] + 2
  BY DEF CutOff, Layout
<1> HIDE DEF n, L
<1>3. PICK m \in Nat : Good(m) /\ \A k \in 0 .. (m - 1) : ~Good(k)
  <2> DEFINE S == {k \in Nat : Good(k)}
  <2>1. S \in SUBSET Nat /\ n \in S
    BY <1>1
  <2>2. PICK m \in S : \A k \in S : m <= k
    BY <2>1, LeastNat
  <2>3. \A k \in 0 .. (m - 1) : ~Good(k)
    BY <2>1, <2>2
  <2> QED BY <2>2, <2>3
<1>4. m \in 0 .. n
  BY <1>1, <1>3
<1>5. s[m + 1] <= L
  <2>1. CASE m = 0
    BY <1>2, <2>1 DEF L
  <2>2. CASE m # 0
    <3>1. m - 1 \in 0 .. (m - 1) /\ (m - 1) + 2 = m + 1 /\ m - 1 # n
      BY <1>1, <1>4, <2>2
    <3>2. ~(L < s[m + 1])
      BY <1>3, <3>1
    <3>3. m + 1 \in 1 .. (n + 1)
      BY <1>1, <1>4
    <3>4. s[m + 1] \in Nat
      BY <1>1, <3>3
    <3> QED BY <1>2, <3>2, <3>4
  <2> QED BY <2>1, <2>2
<1>6. m < n => L < s[m + 2]
  BY <1>1, <1>3
<1>7. L = Len(whole) => m = n
  <2> SUFFICES ASSUME L = Len(whole), m # n PROVE FALSE
    OBVIOUS
  <2>1. m + 1 \in 1 .. n /\ n + 1 \in 1 .. (n + 1) /\ m + 2 = (m + 1) + 1 /\ m < n /\ m + 1 < n + 1
    BY <1>1, <1>4
  <2>2. L < s[m + 2] /\ s[m + 2] <= s[n + 1] /\ s[n + 1] \in Nat
    BY <1>1, <1>6, <2>1
  <2>3. m + 2 \in 1 .. (n + 1)
    BY <1>1, <2>1
  <2>4. s[m + 2] \in Nat
    BY <1>1, <2>3
  <2> QED BY <1>2, <2>2, <2>4
<1> QED BY <1>4, <1>5, <1>6, <1>7 DEF WholeUpTo, n, L

(***************************************************************************)
(* Lists without the strings that are excepted.                            *)
(***************************************************************************)

Excepted == BackslashTails \cup Keys
CleanFilament(f) == f.name \notin Excepted /\ f.type \notin Excepted
CleanPrinter(p) ==
    /\ p.name \notin Excepted /\ p.startMacro \notin Excepted
    /\ \A k \in 1 .. Len(p.filaments) : CleanFilament(p.filaments[k])

LEMMA PlainTokens ==
    /\ \A b : PlainToken(Mark(b))
    /\ \A k : PlainToken(Key(k))
    /\ \A n : PlainToken(Num(n))
    /\ \A x : x \notin Excepted <=> PlainToken(Quote(x))
<1>1. /\ \A b : Mark(b).is # "string"
      /\ \A k : Key(k).is # "string"
      /\ \A n : Num(n).is # "string"
      /\ \A x : Quote(x).is = "string" /\ Quote(x).text = x
  BY DEF Mark, Key, Num, Quote
<1> QED BY <1>1, Zenon DEF PlainToken, Excepted

\* A clean filament is written in plain tokens.
LEMMA FilamentPlain ==
    ASSUME NEW text, NEW at \in Nat, NEW f, FilamentLies(text, at, f), CleanFilament(f),
           NEW j \in 1 .. 8
    PROVE  PlainToken(text[at + j])
<1>1. /\ PlainToken(text[at + 1]) /\ PlainToken(text[at + 2]) /\ PlainToken(text[at + 3])
      /\ PlainToken(text[at + 4]) /\ PlainToken(text[at + 5]) /\ PlainToken(text[at + 6])
      /\ PlainToken(text[at + 7]) /\ PlainToken(text[at + 8])
  BY PlainTokens, Zenon DEF FilamentLies, CleanFilament
<1> QED BY <1>1, EightPlaces, Zenon

\* A clean printer is written in plain tokens.
LEMMA PrinterPlain ==
    ASSUME NEW text, NEW at \in Nat, NEW p, Len(p.filaments) \in Nat,
           PrinterLies(text, at, p), CleanPrinter(p), NEW j \in 1 .. SizeOf(p)
    PROVE  PlainToken(text[at + j])
<1> DEFINE n == Len(p.filaments)
           z == SizeOf(p)
<1>0. z = 13 + 8 * n /\ n \in Nat
  BY DEF SizeOf
<1>a. /\ \A k \in 1 .. n : FilamentLies(text, at + 3 + 8 * k, p.filaments[k])
      /\ \A k \in 1 .. n : CleanFilament(p.filaments[k])
      /\ text[at + z - 1] = Mark(RightBracket) /\ text[at + z] = Mark(RightBrace)
  BY DEF PrinterLies, CleanPrinter
<1>b. j \in 1 .. z
  OBVIOUS
<1> HIDE DEF z, n
<1>1. CASE j <= 11
  <2>1. j \in 1 .. 11
    BY <1>0, <1>1, <1>b
  <2>2. /\ PlainToken(text[at + 1]) /\ PlainToken(text[at + 2]) /\ PlainToken(text[at + 3])
        /\ PlainToken(text[at + 4]) /\ PlainToken(text[at + 5]) /\ PlainToken(text[at + 6])
        /\ PlainToken(text[at + 7]) /\ PlainToken(text[at + 8]) /\ PlainToken(text[at + 9])
        /\ PlainToken(text[at + 10]) /\ PlainToken(text[at + 11])
    BY PlainTokens, Zenon DEF PrinterLies, HeadLies, CleanPrinter
  <2> QED BY <2>1, <2>2, ElevenPlaces, Zenon
<1>2. CASE j > 11 /\ j < z - 1
  <2>1. PICK k \in 1 .. n, i \in 1 .. 8 : j = 3 + 8 * k + i
    <3> DEFINE k == (j - 4) \div 8
               i == j - 3 - 8 * k
    <3>1. j \in Int /\ j >= 12 /\ j <= 11 + 8 * n
      BY <1>0, <1>2, <1>b
    <3>2. k \in 1 .. n /\ i \in 1 .. 8 /\ j = 3 + 8 * k + i
      BY <1>0, <3>1
    <3> QED BY <3>2
  <2> DEFINE to == at + 3 + 8 * k
  <2>2. FilamentLies(text, to, p.filaments[k]) /\ CleanFilament(p.filaments[k])
    BY <1>a
  <2>3. to \in Nat /\ at + j = to + i
    BY <1>0, <2>1
  <2> HIDE DEF to
  <2>4. PlainToken(text[to + i])
    BY <2>2, <2>3, FilamentPlain
  <2> QED BY <2>3, <2>4
<1>3. CASE j = z - 1
  <2>1. at + j = at + z - 1
    BY <1>0, <1>3
  <2> QED BY <1>a, <2>1, PlainTokens
<1>4. CASE j = z
  BY <1>a, <1>4, PlainTokens
<1>5. j <= 11 \/ (j > 11 /\ j < z - 1) \/ j = z - 1 \/ j = z
  BY <1>0, <1>b
<1> QED BY <1>1, <1>2, <1>3, <1>4, <1>5

\* A list of clean printers is written as a plain text.
LEMMA WholePlain ==
    ASSUME NEW list, Len(list) \in Nat, NEW text, NEW s, Layout(text, list, s),
           \A k \in 1 .. Len(list) : CleanPrinter(list[k])
    PROVE  PlainText(text)
<1> DEFINE e == s[Len(list) + 1]
<1>1. e \in Nat /\ Len(text) = e + 2
  BY DEF Layout
<1>2. ASSUME NEW i \in 1 .. Len(text) PROVE PlainToken(text[i])
  <2>1. i = 1 \/ i = 2 \/ i = 3 \/ i \in 4 .. e \/ i = e + 1 \/ i = e + 2
    <3> HIDE DEF e
    <3> QED BY <1>1
  <2>2. /\ PlainToken(text[1]) /\ PlainToken(text[2]) /\ PlainToken(text[3])
        /\ PlainToken(text[e + 1]) /\ PlainToken(text[e + 2])
    BY PlainTokens, Zenon DEF Layout
  <2>3. CASE i \in 4 .. e
    <3>1. PICK k \in 1 .. Len(list) : \E j \in 1 .. SizeOf(list[k]) : i = s[k] + j
      BY <2>3 DEF Layout
    <3>2. PICK j \in 1 .. SizeOf(list[k]) : i = s[k] + j
      BY <3>1
    <3>3. s[k] \in Nat /\ PrinterLies(text, s[k], list[k]) /\ Len(list[k].filaments) \in Nat
      BY DEF Layout
    <3>4. PlainToken(text[s[k] + j])
      BY <3>3, PrinterPlain
    <3> QED BY <3>2, <3>4
  <2> QED BY <2>1, <2>2, <2>3, Zenon
<1>3. Len(text) \in Nat
  BY <1>1
<1> QED BY <1>2, <1>3 DEF PlainText

LEMMA SavedPrinterIs ==
    ASSUME NEW p \in SavedPrinter
    PROVE  /\ p.name \in STRING /\ p.rise \in Nat /\ p.startMacro \in STRING
           /\ p.maxVelocity \in Nat /\ p.filaments \in Seq(SavedFilament)
           /\ Len(p.filaments) \in Nat /\ DOMAIN p.filaments = 1 .. Len(p.filaments)
           /\ \A k \in 1 .. Len(p.filaments) : p.filaments[k] \in SavedFilament
<1>1. /\ p.name \in STRING /\ p.rise \in Nat /\ p.startMacro \in STRING
      /\ p.maxVelocity \in Nat /\ p.filaments \in Seq(SavedFilament)
  <2> HIDE DEF SavedFilament
  <2> QED BY DEF SavedPrinter
<1> HIDE DEF SavedFilament
<1> QED BY <1>1, LenProperties, ElementOfSeq

\* A list is plain when its printers are clean.
LEMMA PlainIs ==
    ASSUME NEW list \in Seq(SavedPrinter)
    PROVE  Plain(list) <=> \A i \in 1 .. Len(list) : CleanPrinter(list[i])
<1> DEFINE n == Len(list)
<1>1. /\ n \in Nat /\ DOMAIN list = 1 .. n /\ \A i \in 1 .. n : list[i] \in SavedPrinter
  BY LenProperties, ElementOfSeq
<1> HIDE DEF n
<1>2. ASSUME NEW p \in SavedPrinter
      PROVE  CleanPrinter(p) <=> \A x \in StringsOf(p) : x \notin Excepted
  <2> DEFINE fs == p.filaments
  <2>1. DOMAIN fs = 1 .. Len(fs)
    BY SavedPrinterIs
  <2>2. \A x : x \in StringsOf(p) <=> \/ x = p.name \/ x = p.startMacro
                                      \/ \E k \in 1 .. Len(fs) : x = fs[k].name \/ x = fs[k].type
    <3> HIDE DEF fs
    <3>1. \A f : f \in Range(fs) <=> \E k \in 1 .. Len(fs) : f = fs[k]
      BY <2>1 DEF Range
    <3>2. \A x : x \in StringsOf(p) <=> \/ x = p.name \/ x = p.startMacro
                                        \/ \E f \in Range(fs) : x = f.name \/ x = f.type
      <4> DEFINE T == {{f.name, f.type} : f \in Range(fs)}
      <4>1. StringsOf(p) = {p.name, p.startMacro} \cup UNION T
        BY DEF StringsOf, fs
      <4>2. \A x : x \in UNION T <=> \E f \in Range(fs) : x = f.name \/ x = f.type
        OBVIOUS
      <4> HIDE DEF T
      <4> QED BY <4>1, <4>2
    <3> DEFINE Name(x) == x = p.name \/ x = p.startMacro
               In(x) == \E k \in 1 .. Len(fs) : x = fs[k].name \/ x = fs[k].type
    <3>3. ASSUME NEW x PROVE (\E f \in Range(fs) : x = f.name \/ x = f.type) <=> In(x)
      BY <3>1
    <3>4. \A x : x \in StringsOf(p) <=> Name(x) \/ In(x)
      <4> HIDE DEF In
      <4> QED BY <3>2, <3>3
    <3> QED BY <3>4
  <2> HIDE DEF Excepted
  <2> QED BY <2>2 DEF CleanPrinter, CleanFilament
<1>3. Plain(list) <=> \A i \in 1 .. n : \A x \in StringsOf(list[i]) : x \notin Excepted
  <2>1. \A p : p \in Range(list) <=> \E i \in 1 .. n : p = list[i]
    BY <1>1 DEF Range
  <2> DEFINE all == UNION {StringsOf(p) : p \in Range(list)}
  <2>2. \A x : x \in all <=> \E i \in 1 .. n : x \in StringsOf(list[i])
    <3> DEFINE T == {StringsOf(p) : p \in Range(list)}
    <3>1. \A S : S \in T <=> \E i \in 1 .. n : S = StringsOf(list[i])
      BY <2>1
    <3> HIDE DEF T
    <3>2. \A x : x \in UNION T <=> \E S \in T : x \in S
      OBVIOUS
    <3>3. \A x : x \in UNION T <=> \E i \in 1 .. n : x \in StringsOf(list[i])
      BY <3>1, <3>2, Zenon
    <3> QED BY <3>3 DEF T
  <2>3. Plain(list) <=> all \cap Excepted = {}
    BY Zenon DEF Plain, Excepted
  <2> HIDE DEF all, Excepted
  <2>4. all \cap Excepted = {} <=> \A x \in all : x \notin Excepted
    OBVIOUS
  <2> QED BY <2>2, <2>3, <2>4, Zenon
<1> QED BY <1>1, <1>2, <1>3, Zenon DEF n

(***************************************************************************)
(* What has no name is left out: Named keeps the elements of some places,   *)
(* and the names alone say which.                                          *)
(***************************************************************************)

NoName == ""

SameNames(things, names, n) == \A i \in 1 .. n : things[i].name = names[i]

PartsAre(cs, things, n) ==
    \A i \in 1 .. n : cs[i] = IF things[i].name = NoName THEN <<>> ELSE <<things[i]>>

Picks(names, n, m, e) ==
    /\ m \in 0 .. n
    /\ \A k \in 1 .. m : e[k] \in 1 .. n /\ names[e[k]] # NoName
    /\ (\A i \in 1 .. n : names[i] # NoName) => m = n /\ \A k \in 1 .. m : e[k] = k

Picked(things, m, e) == [k \in 1 .. m |-> things[e[k]]]

\* What the run has made of the first n parts.
UpTo(f, n) == IF n = 0 THEN <<>> ELSE f[n]

PicksAll(names, n, m, e) ==
    \A things, cs, f :
        SameNames(things, names, n) /\ PartsAre(cs, things, n) /\ RunsThrough(f, cs, n)
            => UpTo(f, n) = Picked(things, m, e)

\* The places of more names begin with those of the first ones.
GoesOn(m, e, m2, e2) == m <= m2 /\ \A k \in 1 .. m : e2[k] = e[k]

LEMMA PicksMore ==
    ASSUME NEW names, NEW n \in Nat, NEW m, NEW e, Picks(names, n, m, e),
           PicksAll(names, n, m, e)
    PROVE  \E m2, e2 : /\ Picks(names, n + 1, m2, e2) /\ PicksAll(names, n + 1, m2, e2)
                      /\ GoesOn(m, e, m2, e2)
<1> DEFINE N == n + 1
           d == [k \in 1 .. (m + 1) |-> IF k = m + 1 THEN N ELSE e[k]]
<1>1. /\ m \in 0 .. n /\ \A k \in 1 .. m : e[k] \in 1 .. n /\ names[e[k]] # NoName
      /\ (\A i \in 1 .. n : names[i] # NoName) => m = n /\ \A k \in 1 .. m : e[k] = k
  BY DEF Picks
<1>2. ASSUME NEW things, NEW cs, NEW f, SameNames(things, names, N), PartsAre(cs, things, N),
             RunsThrough(f, cs, N)
      PROVE  /\ names[N] = NoName => UpTo(f, N) = Picked(things, m, e)
             /\ names[N] # NoName => UpTo(f, N) = Picked(things, m + 1, d)
  <2> DEFINE T == {things[i] : i \in 1 .. N}
             a == Picked(things, m, e)
             x == things[N]
  <2>1. N \in 1 .. N /\ \A i \in 1 .. n : i \in 1 .. N
    OBVIOUS
  <2>2. a \in [1 .. m -> T] /\ x \in T /\ m \in Nat
    <3>1. \A k \in 1 .. m : things[e[k]] \in T
      BY <1>1, <2>1
    <3>2. m \in Nat /\ x \in T
      BY <1>1, <2>1
    <3> HIDE DEF T
    <3> QED BY <3>1, <3>2 DEF Picked
  <2>3. SameNames(things, names, n) /\ PartsAre(cs, things, n)
    BY <1>2, <2>1 DEF SameNames, PartsAre
  <2>4. UpTo(f, n) = a
    <3>1. RunsThrough(f, cs, n)
      <4>1. \A i \in 2 .. n : i \in 2 .. N
        OBVIOUS
      <4> HIDE DEF N
      <4> QED BY <1>2, <4>1, Zenon DEF RunsThrough
    <3> QED BY <2>3, <3>1 DEF PicksAll
  <2>5. cs[N] = IF names[N] = NoName THEN <<>> ELSE <<x>>
    <3>1. x.name = names[N] /\ cs[N] = IF x.name = NoName THEN <<>> ELSE <<x>>
      BY <1>2, <2>1 DEF SameNames, PartsAre
    <3> QED BY <3>1, Zenon
  <2>6. UpTo(f, N) = UpTo(f, n) \o cs[N]
    <3>1. CASE n = 0
      <4>1. UpTo(f, n) = <<>> /\ UpTo(f, N) = cs[N]
        BY <1>2, <3>1 DEF UpTo, RunsThrough
      <4>2. <<>> \o cs[N] = cs[N]
        <5>1. cs[N] \in Seq(T)
          <6> HIDE DEF T
          <6>1. <<>> \in Seq(T) /\ <<x>> \in Seq(T)
            BY <2>2
          <6> QED BY <2>5, <6>1
        <5> QED BY <5>1, ConcatEmptySeq
      <4> QED BY <4>1, <4>2
    <3>2. CASE n # 0
      <4>1. N \in 2 .. N /\ N - 1 = n /\ N # 0
        BY <3>2
      <4>2. f[N] = f[n] \o cs[N]
        BY <1>2, <4>1 DEF RunsThrough
      <4> QED BY <3>2, <4>1, <4>2 DEF UpTo
    <3> QED BY <3>1, <3>2
  <2> HIDE DEF T, a, x
  <2>7. a \o <<>> = a /\ a \o <<x>> = [k \in 1 .. (m + 1) |-> IF k = m + 1 THEN x ELSE a[k]]
    BY <2>2, OneMore
  <2>8. [k \in 1 .. (m + 1) |-> IF k = m + 1 THEN x ELSE a[k]] = Picked(things, m + 1, d)
    <3>1. ASSUME NEW k \in 1 .. (m + 1)
          PROVE  (IF k = m + 1 THEN x ELSE a[k]) = things[d[k]]
      <4>1. CASE k = m + 1
        BY <4>1 DEF x
      <4>2. CASE k # m + 1
        <5>1. k \in 1 .. m /\ d[k] = e[k]
          BY <2>2, <4>2
        <5> HIDE DEF d
        <5>2. a[k] = things[e[k]]
          BY <5>1 DEF a, Picked
        <5> QED BY <4>2, <5>1, <5>2
      <4> QED BY <4>1, <4>2
    <3> HIDE DEF d
    <3> QED BY <3>1 DEF Picked
  <2>9. CASE names[N] = NoName
    <3>1. UpTo(f, N) = a
      BY <2>4, <2>5, <2>6, <2>7, <2>9, Zenon
    <3> QED BY <2>9, <3>1 DEF a
  <2>10. CASE names[N] # NoName
    <3>1. UpTo(f, N) = a \o <<x>>
      BY <2>4, <2>5, <2>6, <2>10, Zenon
    <3> QED BY <2>7, <2>8, <2>10, <3>1, Zenon
  <2> QED BY <2>9, <2>10, Zenon
<1>3. CASE names[N] = NoName
  <2>1. Picks(names, N, m, e)
    <3>1. ~\A i \in 1 .. N : names[i] # NoName
      BY <1>3
    <3> QED BY <1>1, <3>1 DEF Picks
  <2>2. PicksAll(names, N, m, e)
    BY <1>2, <1>3 DEF PicksAll
  <2>3. GoesOn(m, e, m, e)
    BY <1>1 DEF GoesOn
  <2> QED BY <2>1, <2>2, <2>3
<1>4. CASE names[N] # NoName
  <2>1. Picks(names, N, m + 1, d)
    <3>1. \A k \in 1 .. (m + 1) : d[k] = IF k = m + 1 THEN N ELSE e[k]
      OBVIOUS
    <3> HIDE DEF d
    <3>2. m + 1 \in 0 .. N
      BY <1>1
    <3>3. ASSUME NEW k \in 1 .. (m + 1) PROVE d[k] \in 1 .. N /\ names[d[k]] # NoName
      <4>1. CASE k = m + 1
        BY <1>4, <3>1, <4>1
      <4>2. CASE k # m + 1
        <5>1. k \in 1 .. m /\ d[k] = e[k]
          BY <1>1, <3>1, <4>2
        <5> QED BY <1>1, <5>1
      <4> QED BY <4>1, <4>2
    <3>4. ASSUME \A i \in 1 .. N : names[i] # NoName
          PROVE  m + 1 = N /\ \A k \in 1 .. (m + 1) : d[k] = k
      <4>1. m = n /\ \A k \in 1 .. m : e[k] = k
        BY <1>1, <3>4
      <4> QED BY <3>1, <4>1
    <3> QED BY <3>2, <3>3, <3>4 DEF Picks
  <2>2. PicksAll(names, N, m + 1, d)
    <3> HIDE DEF d
    <3> QED BY <1>2, <1>4 DEF PicksAll
  <2>3. GoesOn(m, e, m + 1, d)
    <3>1. m <= m + 1 /\ \A k \in 1 .. m : k \in 1 .. (m + 1) /\ k # m + 1
      BY <1>1
    <3> QED BY <3>1 DEF GoesOn
  <2> HIDE DEF d
  <2> QED BY <2>1, <2>2, <2>3
<1> QED BY <1>3, <1>4

\* The names alone say which places are kept.
LEMMA PicksExist ==
    ASSUME NEW names, NEW n \in Nat
    PROVE  \E m, e : Picks(names, n, m, e) /\ PicksAll(names, n, m, e)
<1> DEFINE G == {k \in Nat : \E m, e : Picks(names, k, m, e) /\ PicksAll(names, k, m, e)}
<1>1. 0 \in G
  <2> DEFINE e == [k \in 1 .. 0 |-> k]
  <2>1. Picks(names, 0, 0, e)
    BY DEF Picks
  <2>2. PicksAll(names, 0, 0, e)
    BY DEF PicksAll, UpTo, Picked
  <2> HIDE DEF e
  <2> QED BY <2>1, <2>2
<1>2. ASSUME NEW k \in Nat, k \in G PROVE k + 1 \in G
  <2>1. PICK m, e : Picks(names, k, m, e) /\ PicksAll(names, k, m, e)
    BY <1>2
  <2>2. PICK m2, e2 : /\ Picks(names, k + 1, m2, e2) /\ PicksAll(names, k + 1, m2, e2)
                      /\ GoesOn(m, e, m2, e2)
    BY <2>1, PicksMore
  <2> QED BY <2>2
<1>3. n \in G
  <2> HIDE DEF G
  <2> QED BY <1>1, <1>2, Successors
<1> QED BY <1>3

LEMMA NamedPicked ==
    ASSUME NEW names, NEW n \in Nat, NEW m, NEW e, Picks(names, n, m, e),
           PicksAll(names, n, m, e), NEW things, DOMAIN things = 1 .. n,
           SameNames(things, names, n)
    PROVE  Named(things) = Picked(things, m, e)
<1> DEFINE cs == [i \in DOMAIN things |->
                     IF things[i].name = NoName THEN <<>> ELSE <<things[i]>>]
           T == {things[i] : i \in 1 .. n}
<1>1. Named(things) = FlattenSeq(cs)
  BY Zenon DEF Named, NoName
<1>2. PartsAre(cs, things, n) /\ cs \in [1 .. n -> Seq(T)]
  <2>1. \A i \in 1 .. n : things[i] \in T
    OBVIOUS
  <2>2. PartsAre(cs, things, n)
    BY DEF PartsAre
  <2> HIDE DEF T
  <2>3. \A i \in 1 .. n : (IF things[i].name = NoName THEN <<>> ELSE <<things[i]>>) \in Seq(T)
    <3>1. <<>> \in Seq(T) /\ \A y \in T : <<y>> \in Seq(T)
      OBVIOUS
    <3> QED BY <2>1, <3>1
  <2>4. cs \in [1 .. n -> Seq(T)]
    BY <2>3
  <2> QED BY <2>2, <2>4
<1> HIDE DEF cs, T
<1>3. Len(cs) = n
  <2> DEFINE U == Seq(T)
  <2>1. cs \in Seq(U)
    BY <1>2, FunctionIsSeq
  <2>2. DOMAIN cs = 1 .. n
    BY <1>2
  <2> HIDE DEF U
  <2>3. DOMAIN cs = 1 .. Len(cs) /\ Len(cs) \in Nat
    BY <2>1, LenProperties
  <2> QED BY <2>2, <2>3
<1>4. CASE n = 0
  <2>1. cs = <<>> /\ FlattenSeq(cs) = cs
    BY <1>2, <1>3, <1>4 DEF FlattenSeq
  <2>2. RunsThrough(cs, cs, n) => UpTo(cs, n) = Picked(things, m, e)
    BY <1>2 DEF PicksAll
  <2>3. m = 0
    BY <1>4 DEF Picks
  <2>4. Picked(things, m, e) = <<>>
    BY <2>3 DEF Picked
  <2> QED BY <1>1, <2>1, <2>4
<1>5. CASE n # 0
  <2>1. PICK f : FlattenSeq(cs) = f[n] /\ RunsThrough(f, cs, n)
    BY <1>3, <1>5, FlatRuns
  <2>2. UpTo(f, n) = Picked(things, m, e)
    BY <1>2, <2>1 DEF PicksAll
  <2> QED BY <1>1, <1>5, <2>1, <2>2 DEF UpTo
<1> QED BY <1>4, <1>5

\* Every list of these names keeps the same places.
LEMMA NamedIs ==
    ASSUME NEW names, NEW n \in Nat
    PROVE  \E m, e : /\ Picks(names, n, m, e)
                     /\ \A things : /\ DOMAIN things = 1 .. n
                                    /\ SameNames(things, names, n)
                                    => Named(things) = Picked(things, m, e)
<1>1. PICK m, e : Picks(names, n, m, e) /\ PicksAll(names, n, m, e)
  BY PicksExist
<1>2. ASSUME NEW things, DOMAIN things = 1 .. n, SameNames(things, names, n)
      PROVE  Named(things) = Picked(things, m, e)
  BY <1>1, <1>2, NamedPicked
<1> QED BY <1>1, <1>2

\* With more names those that were kept are kept.
LEMMA PicksFurther ==
    ASSUME NEW names, NEW n \in Nat, NEW m, NEW e, Picks(names, n, m, e),
           PicksAll(names, n, m, e), NEW more \in Nat
    PROVE  \E M, E : /\ Picks(names, n + more, M, E) /\ PicksAll(names, n + more, M, E)
                     /\ GoesOn(m, e, M, E)
<1> DEFINE Good(k) == \E M, E : /\ Picks(names, n + k, M, E) /\ PicksAll(names, n + k, M, E)
                                /\ GoesOn(m, e, M, E)
           G == {k \in Nat : Good(k)}
<1>0. m \in Nat
  BY DEF Picks
<1>1. 0 \in G
  <2>1. n + 0 = n /\ GoesOn(m, e, m, e)
    BY <1>0 DEF GoesOn
  <2> QED BY <2>1
<1>2. ASSUME NEW k \in Nat, k \in G PROVE k + 1 \in G
  <2>1. PICK M, E : /\ Picks(names, n + k, M, E) /\ PicksAll(names, n + k, M, E)
                    /\ GoesOn(m, e, M, E)
    BY <1>2
  <2>2. n + k \in Nat /\ n + (k + 1) = (n + k) + 1
    OBVIOUS
  <2>3. PICK M2, E2 : /\ Picks(names, (n + k) + 1, M2, E2) /\ PicksAll(names, (n + k) + 1, M2, E2)
                      /\ GoesOn(M, E, M2, E2)
    BY <2>1, <2>2, PicksMore
  <2>4. M \in Nat /\ M2 \in Nat
    BY <2>1, <2>2, <2>3 DEF Picks
  <2>5. GoesOn(m, e, M2, E2)
    <3>1. m <= M /\ M <= M2 /\ \A i \in 1 .. m : i \in 1 .. M
      BY <1>0, <2>1, <2>3, <2>4 DEF GoesOn
    <3>2. m <= M2
      BY <1>0, <2>4, <3>1
    <3>3. \A i \in 1 .. m : E2[i] = e[i]
      BY <2>1, <2>3, <3>1 DEF GoesOn
    <3> QED BY <3>2, <3>3 DEF GoesOn
  <2>6. Good(k + 1)
    BY <2>2, <2>3, <2>5
  <2> QED BY <2>6
<1>3. more \in G
  <2> HIDE DEF G
  <2> QED BY <1>1, <1>2, Successors
<1> QED BY <1>3

LEMMA SameTop ==
    ASSUME NEW a \in Nat, NEW b \in Nat, 1 .. a = 1 .. b
    PROVE  a = b
OBVIOUS

\* The first things give the first of the named ones.
LEMMA NamedFirst ==
    ASSUME NEW N \in Nat, NEW T, NEW things \in [1 .. N -> T], NEW n \in 0 .. N
    PROVE  /\ Named(things) \in Seq(T)
           /\ \E k \in 0 .. Len(Named(things)) :
                  Named([i \in 1 .. n |-> things[i]]) = SubSeq(Named(things), 1, k)
<1> DEFINE names == [i \in 1 .. N |-> things[i].name]
           first == [i \in 1 .. n |-> things[i]]
<1>1. n \in Nat /\ N - n \in Nat /\ n + (N - n) = N /\ \A i \in 1 .. n : i \in 1 .. N
  OBVIOUS
<1>2. /\ DOMAIN first = 1 .. n /\ SameNames(first, names, n) /\ \A i \in 1 .. n : first[i] = things[i]
      /\ DOMAIN things = 1 .. N /\ SameNames(things, names, N)
  BY <1>1 DEF SameNames
<1> HIDE DEF first, names
<1>3. PICK m, e : Picks(names, n, m, e) /\ PicksAll(names, n, m, e)
  BY <1>1, PicksExist
<1>4. PICK M, E : /\ Picks(names, N, M, E) /\ PicksAll(names, N, M, E) /\ GoesOn(m, e, M, E)
  <2>1. \E M, E : /\ Picks(names, n + (N - n), M, E) /\ PicksAll(names, n + (N - n), M, E)
                  /\ GoesOn(m, e, M, E)
    BY <1>1, <1>3, PicksFurther
  <2> QED BY <1>1, <2>1, Zenon
<1>5. Named(first) = Picked(first, m, e) /\ Named(things) = Picked(things, M, E)
  BY <1>1, <1>2, <1>3, <1>4, NamedPicked
<1>6. /\ m \in Nat /\ M \in Nat /\ m <= M
      /\ \A k \in 1 .. m : e[k] \in 1 .. n /\ E[k] = e[k] /\ k \in 1 .. M
      /\ \A k \in 1 .. M : E[k] \in 1 .. N
  <2>1. /\ m \in 0 .. n /\ \A k \in 1 .. m : e[k] \in 1 .. n
        /\ M \in 0 .. N /\ \A k \in 1 .. M : E[k] \in 1 .. N
    BY <1>3, <1>4 DEF Picks
  <2>2. m <= M /\ \A k \in 1 .. m : E[k] = e[k]
    BY <1>4 DEF GoesOn
  <2> QED BY <1>1, <2>1, <2>2
<1> DEFINE whole == Picked(things, M, E)
<1>7. whole \in [1 .. M -> T] /\ \A k \in 1 .. M : whole[k] = things[E[k]]
  BY <1>6 DEF Picked
<1> HIDE DEF whole
<1>8. whole \in Seq(T) /\ Len(whole) = M
  <2>1. whole \in Seq(T)
    BY <1>6, <1>7, FunctionIsSeq
  <2>2. DOMAIN whole = 1 .. Len(whole) /\ Len(whole) \in Nat
    BY <2>1, LenProperties
  <2>3. DOMAIN whole = 1 .. M
    BY <1>7
  <2>4. Len(whole) = M
    BY <1>6, <2>2, <2>3, SameTop
  <2> QED BY <2>1, <2>4
<1>9. Picked(first, m, e) = SubSeq(whole, 1, m)
  <2> DEFINE sub == SubSeq(whole, 1, m)
             pick == Picked(first, m, e)
  <2>1. /\ sub \in Seq(T) /\ Len(sub) = IF 1 <= m THEN m - 1 + 1 ELSE 0
        /\ \A i \in 1 .. m - 1 + 1 : sub[i] = whole[1 + i - 1]
    BY <1>6, <1>7, SubSeqProperties
  <2> HIDE DEF sub
  <2>2. Len(sub) = m
    BY <1>6, <2>1
  <2>3. \A i \in 1 .. m : sub[i] = whole[i]
    <3>1. \A i \in 1 .. m : i \in 1 .. m - 1 + 1 /\ 1 + i - 1 = i
      BY <1>6
    <3> QED BY <2>1, <3>1
  <2>4. DOMAIN sub = 1 .. m /\ sub = [i \in DOMAIN sub |-> sub[i]]
    <3>1. DOMAIN sub = 1 .. Len(sub) /\ sub \in [1 .. Len(sub) -> T]
      BY <2>1, LenProperties
    <3> QED BY <2>2, <3>1
  <2>5. \A i \in 1 .. m : sub[i] = first[e[i]]
    BY <1>2, <1>6, <1>7, <2>3
  <2>6. pick = [i \in 1 .. m |-> first[e[i]]]
    BY DEF Picked
  <2> HIDE DEF pick
  <2>7. sub = pick
    BY <2>4, <2>5, <2>6
  <2> QED BY <2>7 DEF sub, pick
<1>10. m \in 0 .. Len(whole)
  BY <1>6, <1>8
<1> QED BY <1>5, <1>8, <1>9, <1>10, Zenon DEF whole, first

\* What has the same names is kept at the same places.
LEMMA NamedTogether ==
    ASSUME NEW n \in Nat, NEW things, NEW others, DOMAIN things = 1 .. n, DOMAIN others = 1 .. n,
           \A i \in 1 .. n : things[i].name = others[i].name
    PROVE  \E m, e : /\ m \in 0 .. n
                     /\ \A k \in 1 .. m : e[k] \in 1 .. n /\ things[e[k]].name # NoName
                     /\ (\A i \in 1 .. n : things[i].name # NoName)
                          => m = n /\ \A k \in 1 .. m : e[k] = k
                     /\ Named(things) = Picked(things, m, e)
                     /\ Named(others) = Picked(others, m, e)
<1> DEFINE names == [i \in 1 .. n |-> things[i].name]
<1>1. /\ SameNames(things, names, n) /\ SameNames(others, names, n)
      /\ \A i \in 1 .. n : names[i] = things[i].name
  BY DEF SameNames
<1> HIDE DEF names
<1>2. PICK m, e : /\ Picks(names, n, m, e)
                  /\ \A a : DOMAIN a = 1 .. n /\ SameNames(a, names, n)
                                 => Named(a) = Picked(a, m, e)
  BY NamedIs
<1>3. Named(things) = Picked(things, m, e) /\ Named(others) = Picked(others, m, e)
  BY <1>1, <1>2
<1>4. /\ m \in 0 .. n
      /\ \A k \in 1 .. m : e[k] \in 1 .. n /\ things[e[k]].name # NoName
      /\ (\A i \in 1 .. n : things[i].name # NoName) => m = n /\ \A k \in 1 .. m : e[k] = k
  <2>1. /\ m \in 0 .. n /\ \A k \in 1 .. m : e[k] \in 1 .. n /\ names[e[k]] # NoName
        /\ (\A i \in 1 .. n : names[i] # NoName) => m = n /\ \A k \in 1 .. m : e[k] = k
    BY <1>2 DEF Picks
  <2> QED BY <1>1, <2>1
<1> QED BY <1>3, <1>4

\* Filaments and printers as profiles.json can hold them.
StorableFilaments(fs) ==
    LET named == Named(fs)
    IN  [j \in DOMAIN named |-> [named[j] EXCEPT !.lowFlow = Printed(@)]]

StorablePrinter(p) ==
    [p EXCEPT !.rise = Printed(@), !.maxVelocity = Printed(@),
              !.filaments = StorableFilaments(p.filaments)]

\* What can be kept of a list, printer by printer.
LEMMA StorableIs ==
    ASSUME NEW list
    PROVE  Storable(list) = [i \in DOMAIN Named(list) |-> StorablePrinter(Named(list)[i])]
BY Zenon DEF Storable, StorablePrinter, StorableFilaments

LEMMA StorableOfFilament ==
    ASSUME NEW f \in SavedFilament
    PROVE  [f EXCEPT !.lowFlow = Printed(@)] = Rounded(f)
BY DEF SavedFilament, Rounded

LEMMA StorableOfPrinter ==
    ASSUME NEW p \in SavedPrinter
    PROVE  StorablePrinter(p) =
             [name |-> p.name, rise |-> Printed(p.rise), startMacro |-> p.startMacro,
              maxVelocity |-> Printed(p.maxVelocity),
              filaments |-> StorableFilaments(p.filaments)]
<1> DEFINE fs == StorableFilaments(p.filaments)
           T == Seq(SavedFilament)
<1>1. p \in [name : STRING, rise : Nat, startMacro : STRING, maxVelocity : Nat, filaments : T]
  BY DEF SavedPrinter
<1>2. StorablePrinter(p) = [p EXCEPT !.rise = Printed(@), !.maxVelocity = Printed(@),
                                     !.filaments = fs]
  BY DEF StorablePrinter
<1> HIDE DEF fs, T
<1> DEFINE q == [p EXCEPT !.rise = Printed(@), !.maxVelocity = Printed(@), !.filaments = fs]
<1>3. PICK x : x = q
  <2>1. \E x : x = q
    OBVIOUS
  <2> QED BY <2>1, Zenon
<1>4. x = [name |-> p.name, rise |-> Printed(p.rise), startMacro |-> p.startMacro,
           maxVelocity |-> Printed(p.maxVelocity), filaments |-> fs]
  BY <1>1, <1>3
<1> QED BY <1>2, <1>3, <1>4, Zenon DEF fs

\* Filaments that were saved are read back.
LEMMA FilamentsStored ==
    ASSUME NEW fs \in Seq(SavedFilament)
    PROVE  StorableFilaments(fs) = Named([j \in 1 .. Len(fs) |-> Rounded(fs[j])])
<1> DEFINE n == Len(fs)
           rs == [j \in 1 .. n |-> Rounded(fs[j])]
<1>1. n \in Nat /\ DOMAIN fs = 1 .. n /\ \A j \in 1 .. n : fs[j] \in SavedFilament
  BY LenProperties, ElementOfSeq
<1> HIDE DEF n
<1>2. DOMAIN rs = 1 .. n /\ \A j \in 1 .. n : rs[j] = Rounded(fs[j]) /\ fs[j].name = rs[j].name
  BY DEF Rounded
<1> HIDE DEF rs
<1>3. PICK m, e : /\ m \in 0 .. n /\ \A k \in 1 .. m : e[k] \in 1 .. n
                  /\ Named(fs) = Picked(fs, m, e) /\ Named(rs) = Picked(rs, m, e)
  BY <1>1, <1>2, NamedTogether
<1>4. DOMAIN Named(fs) = 1 .. m /\ \A k \in 1 .. m : Named(fs)[k] = fs[e[k]]
  BY <1>3 DEF Picked
<1>5. ASSUME NEW k \in 1 .. m PROVE [Named(fs)[k] EXCEPT !.lowFlow = Printed(@)] = rs[e[k]]
  <2>1. e[k] \in 1 .. n /\ Named(fs)[k] = fs[e[k]] /\ fs[e[k]] \in SavedFilament
        /\ rs[e[k]] = Rounded(fs[e[k]])
    BY <1>1, <1>2, <1>3, <1>4
  <2> QED BY <2>1, StorableOfFilament
<1>6. StorableFilaments(fs) = [k \in 1 .. m |-> rs[e[k]]]
  BY <1>4, <1>5 DEF StorableFilaments
<1> QED BY <1>3, <1>6 DEF Picked, rs, n

\* What can be kept of a printer is what is read of it.
LEMMA PrinterStored ==
    ASSUME NEW p \in SavedPrinter
    PROVE  StorablePrinter(p) = Stored(p)
<1>1. p.filaments \in Seq(SavedFilament)
  BY SavedPrinterIs
<1>2. StorableFilaments(p.filaments)
        = Named([j \in 1 .. Len(p.filaments) |-> Rounded(p.filaments[j])])
  BY <1>1, FilamentsStored
<1> QED BY <1>2, StorableOfPrinter DEF Stored

\* What can be kept of a list is what is read of it.
LEMMA PrintersStored ==
    ASSUME NEW list \in Seq(SavedPrinter)
    PROVE  Storable(list) = Named([j \in 1 .. Len(list) |-> Stored(list[j])])
<1> DEFINE n == Len(list)
           rs == [j \in 1 .. n |-> Stored(list[j])]
<1>1. n \in Nat /\ DOMAIN list = 1 .. n /\ \A j \in 1 .. n : list[j] \in SavedPrinter
  BY LenProperties, ElementOfSeq
<1> HIDE DEF n
<1>2. DOMAIN rs = 1 .. n /\ \A j \in 1 .. n : rs[j] = Stored(list[j]) /\ list[j].name = rs[j].name
  BY DEF Stored
<1> HIDE DEF rs
<1>3. PICK m, e : /\ m \in 0 .. n /\ \A k \in 1 .. m : e[k] \in 1 .. n
                  /\ Named(list) = Picked(list, m, e) /\ Named(rs) = Picked(rs, m, e)
  BY <1>1, <1>2, NamedTogether
<1>4. DOMAIN Named(list) = 1 .. m /\ \A k \in 1 .. m : Named(list)[k] = list[e[k]]
  BY <1>3 DEF Picked
<1>5. ASSUME NEW k \in 1 .. m PROVE StorablePrinter(Named(list)[k]) = rs[e[k]]
  <2>1. e[k] \in 1 .. n /\ Named(list)[k] = list[e[k]] /\ list[e[k]] \in SavedPrinter
        /\ rs[e[k]] = Stored(list[e[k]])
    BY <1>1, <1>2, <1>3, <1>4
  <2> QED BY <2>1, PrinterStored
<1>6. Storable(list) = [k \in 1 .. m |-> rs[e[k]]]
  BY <1>4, <1>5, StorableIs
<1> QED BY <1>3, <1>6 DEF Picked, rs, n

(***************************************************************************)
(* Numbers: what is printed is printed as it is.                           *)
(***************************************************************************)

Bound == TenTo[Digits]

\* The bound is a power of ten, and is more than one.
LEMMA BoundIs ==
    \E tenth \in Nat : tenth >= 1 /\ Bound = 10 * tenth
<1> DEFINE D == Digits
           IsTen(g, n) == g = [d \in 0 .. n |-> IF d = 0 THEN 1 ELSE 10 * g[d - 1]]
           G == {n \in Nat : \E g : IsTen(g, n)}
<1>1. D \in Nat /\ D # 0
  BY TextAssumption
<1> HIDE DEF D
<1>2. 0 \in G
  <2> DEFINE g == [d \in 0 .. 0 |-> 1]
  <2>1. g = [d \in 0 .. 0 |-> IF d = 0 THEN 1 ELSE 10 * g[d - 1]]
    OBVIOUS
  <2> HIDE DEF g
  <2> QED BY <2>1
<1>3. ASSUME NEW n \in Nat, n \in G PROVE n + 1 \in G
  <2>1. PICK g : IsTen(g, n)
    BY <1>3
  <2> DEFINE h == [d \in 0 .. (n + 1) |-> IF d = 0 THEN 1 ELSE 10 * g[d - 1]]
             k == [d \in 0 .. (n + 1) |-> IF d = 0 THEN 1 ELSE 10 * h[d - 1]]
  <2>2. \A d \in 0 .. n : g[d] = IF d = 0 THEN 1 ELSE 10 * g[d - 1]
    <3> DEFINE w == [d \in 0 .. n |-> IF d = 0 THEN 1 ELSE 10 * g[d - 1]]
    <3>1. g = w
      BY <2>1
    <3>2. \A d \in 0 .. n : w[d] = IF d = 0 THEN 1 ELSE 10 * g[d - 1]
      OBVIOUS
    <3> HIDE DEF w
    <3> QED BY <3>1, <3>2
  <2>3. \A d \in 0 .. n : h[d] = g[d]
    BY <2>2
  <2>4. h = k
    <3>1. ASSUME NEW d \in 0 .. (n + 1), d # 0 PROVE h[d - 1] = g[d - 1]
      <4>1. d - 1 \in 0 .. n
        BY <3>1
      <4> HIDE DEF h
      <4> QED BY <2>3, <4>1
    <3> HIDE DEF h
    <3>2. \A d \in 0 .. (n + 1) : (IF d = 0 THEN 1 ELSE 10 * g[d - 1])
                                    = IF d = 0 THEN 1 ELSE 10 * h[d - 1]
      BY <3>1
    <3> QED BY <3>2 DEF h
  <2>5. IsTen(h, n + 1)
    <3> HIDE DEF h
    <3> QED BY <2>4
  <2> HIDE DEF h
  <2> QED BY <2>5
<1>4. \E g : IsTen(g, D)
  <2>1. D \in G
    <3> HIDE DEF G
    <3> QED BY <1>1, <1>2, <1>3, Successors
  <2> QED BY <2>1
<1> DEFINE t == CHOOSE g : IsTen(g, D)
<1>5. TenTo = t
  BY Zenon DEF TenTo, D
<1>6. IsTen(t, D)
  <2> HIDE DEF IsTen
  <2> QED BY <1>4
<1> HIDE DEF t
<1>7. \A d \in 0 .. D : t[d] = IF d = 0 THEN 1 ELSE 10 * t[d - 1]
  <2> DEFINE w == [d \in 0 .. D |-> IF d = 0 THEN 1 ELSE 10 * t[d - 1]]
  <2>1. t = w
    BY <1>6
  <2>2. \A d \in 0 .. D : w[d] = IF d = 0 THEN 1 ELSE 10 * t[d - 1]
    OBVIOUS
  <2> HIDE DEF w
  <2> QED BY <2>1, <2>2
<1> DEFINE P == {d \in Nat : d <= D => t[d] \in Nat /\ t[d] >= 1}
<1>8. 0 \in P
  BY <1>1, <1>7
<1>9. ASSUME NEW d \in Nat, d \in P PROVE d + 1 \in P
  <2> SUFFICES ASSUME d + 1 <= D PROVE t[d + 1] \in Nat /\ t[d + 1] >= 1
    OBVIOUS
  <2>1. d + 1 \in 0 .. D /\ d + 1 # 0 /\ (d + 1) - 1 = d /\ d <= D
    BY <1>1
  <2>2. t[d + 1] = 10 * t[d]
    BY <1>7, <2>1
  <2>3. t[d] \in Nat /\ t[d] >= 1
    BY <1>9, <2>1
  <2> QED BY <2>2, <2>3
<1>10. D - 1 \in P
  <2>1. D - 1 \in Nat
    BY <1>1
  <2> HIDE DEF P
  <2> QED BY <1>8, <1>9, <2>1, Successors
<1>11. t[D - 1] \in Nat /\ t[D - 1] >= 1 /\ t[D] = 10 * t[D - 1]
  <2>1. D \in 0 .. D /\ D - 1 <= D
    BY <1>1
  <2> QED BY <1>1, <1>7, <1>10, <2>1
<1> QED BY <1>5, <1>11 DEF Bound, D

IsUnit(g, n) == g = [m \in 0 .. n |-> IF m < Bound THEN 1 ELSE 10 * g[m \div 10]]
UnitOf(n) == (CHOOSE g : IsUnit(g, n))[n]

LEMMA UnitAt ==
    ASSUME NEW n \in Nat, NEW g, IsUnit(g, n)
    PROVE  \A m \in 0 .. n : g[m] = IF m < Bound THEN 1 ELSE 10 * g[m \div 10]
<1> DEFINE w == [m \in 0 .. n |-> IF m < Bound THEN 1 ELSE 10 * g[m \div 10]]
<1>1. g = w
  BY DEF IsUnit
<1>2. \A m \in 0 .. n : w[m] = IF m < Bound THEN 1 ELSE 10 * g[m \div 10]
  OBVIOUS
<1> HIDE DEF w
<1> QED BY <1>1, <1>2

\* The tenth of a number that is not printed as it is.
LEMMA Tenth ==
    ASSUME NEW m \in Nat, ~(m < Bound)
    PROVE  m \div 10 \in Nat /\ m \div 10 < m /\ 10 * (m \div 10) <= m /\ m < 10 * (m \div 10) + 10
<1>1. PICK tenth \in Nat : tenth >= 1 /\ Bound = 10 * tenth
  BY BoundIs
<1>2. m >= 10
  BY <1>1
<1> QED BY <1>2

\* There is a function that gives every number its unit.
LEMMA UnitsExist == \A n \in Nat : \E g : IsUnit(g, n)
<1> DEFINE G == {n \in Nat : \E g : IsUnit(g, n)}
<1>0. PICK tenth \in Nat : tenth >= 1 /\ Bound = 10 * tenth
  BY BoundIs
<1>1. 0 \in G
  <2> DEFINE g == [m \in 0 .. 0 |-> 1]
  <2>1. g = [m \in 0 .. 0 |-> IF m < Bound THEN 1 ELSE 10 * g[m \div 10]]
    <3> HIDE DEF g
    <3>1. \A m \in 0 .. 0 : m < Bound
      BY <1>0
    <3> QED BY <3>1 DEF g
  <2> HIDE DEF g
  <2> QED BY <2>1 DEF IsUnit
<1>2. ASSUME NEW n \in Nat, n \in G PROVE n + 1 \in G
  <2>1. PICK g : IsUnit(g, n)
    BY <1>2
  <2> DEFINE h == [m \in 0 .. (n + 1) |-> IF m < Bound THEN 1 ELSE 10 * g[m \div 10]]
             k == [m \in 0 .. (n + 1) |-> IF m < Bound THEN 1 ELSE 10 * h[m \div 10]]
  <2>2. \A m \in 0 .. n : g[m] = IF m < Bound THEN 1 ELSE 10 * g[m \div 10]
    BY <2>1, UnitAt
  <2>3. \A m \in 0 .. n : h[m] = g[m]
    BY <2>2
  <2>4. h = k
    <3>1. ASSUME NEW m \in 0 .. (n + 1), ~(m < Bound) PROVE h[m \div 10] = g[m \div 10]
      <4>1. m \div 10 \in Nat /\ m \div 10 < m
        BY <3>1, Tenth
      <4>2. m \div 10 \in 0 .. n
        BY <4>1
      <4> HIDE DEF h
      <4> QED BY <2>3, <4>2
    <3> HIDE DEF h
    <3>2. \A m \in 0 .. (n + 1) : (IF m < Bound THEN 1 ELSE 10 * g[m \div 10])
                                    = IF m < Bound THEN 1 ELSE 10 * h[m \div 10]
      BY <3>1
    <3> QED BY <3>2 DEF h
  <2>5. IsUnit(h, n + 1)
    <3> HIDE DEF h
    <3> QED BY <2>4 DEF IsUnit
  <2> HIDE DEF h
  <2> QED BY <2>5
<1>3. \A n \in Nat : n \in G
  <2> HIDE DEF G
  <2> QED BY <1>1, <1>2, Successors
<1> QED BY <1>3

\* Two such functions agree where both are defined.
LEMMA UnitsAgree ==
    ASSUME NEW n \in Nat, NEW g, IsUnit(g, n), NEW k \in Nat, NEW h, IsUnit(h, k)
    PROVE  \A m \in Nat : m <= n /\ m <= k => g[m] = h[m]
<1> DEFINE G == {l \in Nat : \A m \in 0 .. l : m <= n /\ m <= k => g[m] = h[m]}
<1>0. /\ \A m \in 0 .. n : g[m] = IF m < Bound THEN 1 ELSE 10 * g[m \div 10]
      /\ \A m \in 0 .. k : h[m] = IF m < Bound THEN 1 ELSE 10 * h[m \div 10]
  BY UnitAt
<1>a. PICK tenth \in Nat : tenth >= 1 /\ Bound = 10 * tenth
  BY BoundIs
<1>1. 0 \in G
  <2>1. 0 < Bound /\ 0 \in 0 .. n /\ 0 \in 0 .. k
    BY <1>a
  <2>2. g[0] = 1 /\ h[0] = 1
    BY <1>0, <2>1
  <2>3. \A m \in 0 .. 0 : m = 0
    OBVIOUS
  <2> QED BY <2>2, <2>3
<1>2. ASSUME NEW l \in Nat, l \in G PROVE l + 1 \in G
  <2> SUFFICES ASSUME NEW m \in 0 .. (l + 1), m <= n, m <= k PROVE g[m] = h[m]
    OBVIOUS
  <2>1. m \in 0 .. n /\ m \in 0 .. k /\ m \in Nat
    OBVIOUS
  <2>2. CASE m < Bound
    BY <1>0, <2>1, <2>2
  <2>3. CASE ~(m < Bound)
    <3>1. m \div 10 \in Nat /\ m \div 10 < m
      BY <2>1, <2>3, Tenth
    <3>2. m \div 10 \in 0 .. l /\ m \div 10 <= n /\ m \div 10 <= k
      BY <3>1
    <3>3. g[m \div 10] = h[m \div 10]
      BY <1>2, <3>2
    <3> QED BY <1>0, <2>1, <2>3, <3>3
  <2> QED BY <2>2, <2>3
<1>3. \A l \in Nat : l \in G
  <2> HIDE DEF G
  <2> QED BY <1>1, <1>2, Successors
<1>4. \A m \in Nat : m \in 0 .. m
  OBVIOUS
<1> QED BY <1>3, <1>4

\* The unit of a number, by its leading digits.
LEMMA UnitIs ==
    ASSUME NEW m \in Nat
    PROVE  UnitOf(m) = IF m < Bound THEN 1 ELSE 10 * UnitOf(m \div 10)
<1> DEFINE g == CHOOSE e : IsUnit(e, m)
           k == m \div 10
           h == CHOOSE e : IsUnit(e, k)
<1>1. IsUnit(g, m)
  BY UnitsExist
<1>2. UnitOf(m) = g[m] /\ UnitOf(k) = h[k]
  BY DEF UnitOf
<1> HIDE DEF g
<1>3. m \in 0 .. m
  OBVIOUS
<1>4. g[m] = IF m < Bound THEN 1 ELSE 10 * g[k]
  BY <1>1, <1>3, UnitAt
<1>5. CASE m < Bound
  BY <1>2, <1>4, <1>5
<1>6. CASE ~(m < Bound)
  <2>1. k \in Nat /\ k < m
    BY <1>6, Tenth
  <2>2. k <= m /\ k <= k
    BY <2>1
  <2>3. IsUnit(h, k)
    BY <2>1, UnitsExist
  <2> HIDE DEF h, k
  <2>4. g[k] = h[k]
    BY <1>1, <2>1, <2>2, <2>3, UnitsAgree
  <2> QED BY <1>2, <1>4, <1>6, <2>4 DEF k
<1> QED BY <1>5, <1>6

Multiple(x, u) == u \in Nat /\ \E q \in Nat : x = q * u

\* What is left of the rounded number, for every unit: it is so many units.
Tight(u) ==
    /\ u \in Nat /\ u >= 1
    /\ \A c \in 0 .. Bound : Multiple(c * u, UnitOf(c * u))

LEMMA TightOne == Tight(1)
<1>1. PICK tenth \in Nat : tenth >= 1 /\ Bound = 10 * tenth
  BY BoundIs
<1>2. ASSUME NEW c \in 0 .. Bound PROVE Multiple(c * 1, UnitOf(c * 1))
  <2>1. c * 1 = c /\ c \in Nat
    BY <1>1
  <2>2. CASE c < Bound
    <3>1. UnitOf(c) = 1
      BY <2>1, <2>2, UnitIs
    <3>2. c = c * 1
      BY <2>1
    <3> QED BY <2>1, <3>1, <3>2 DEF Multiple
  <2>3. CASE c = Bound
    <3>1. ~(c < Bound) /\ c \div 10 = tenth /\ tenth < Bound
      BY <1>1, <2>3
    <3>2. UnitOf(tenth) = 1
      BY <3>1, UnitIs
    <3>3. UnitOf(c) = 10 * UnitOf(c \div 10)
      BY <2>1, <3>1, UnitIs
    <3>4. UnitOf(c) = 10 /\ c = tenth * 10
      BY <1>1, <2>3, <3>1, <3>2, <3>3
    <3>5. UnitOf(c) \in Nat /\ c = tenth * UnitOf(c)
      BY <3>4
    <3>6. Multiple(c, UnitOf(c))
      BY <3>5 DEF Multiple
    <3> QED BY <2>1, <3>6
  <2> QED BY <1>1, <2>2, <2>3
<1> QED BY <1>2 DEF Tight

\* What is tight for a unit is so for ten times the unit.
LEMMA TightTen ==
    ASSUME NEW u, Tight(u)
    PROVE  Tight(10 * u)
<1>1. PICK tenth \in Nat : tenth >= 1 /\ Bound = 10 * tenth
  BY BoundIs
<1>2. u \in Nat /\ u >= 1
  BY DEF Tight
<1>3. ASSUME NEW c \in 0 .. Bound PROVE Multiple(c * (10 * u), UnitOf(c * (10 * u)))
  <2> DEFINE x == c * u
             y == c * (10 * u)
  <2>1. c \in Nat /\ x \in Nat /\ y = 10 * x /\ y \in Nat
    <3>1. c \in Nat
      BY <1>1
    <3>2. x \in Nat
      BY <1>2, <3>1
    <3>3. y = 10 * x
      BY <1>2, <3>1
    <3> HIDE DEF x, y
    <3> QED BY <3>1, <3>2, <3>3
  <2>2. PICK q \in Nat : x = q * UnitOf(x) /\ UnitOf(x) \in Nat
    BY <1>3 DEF Tight, Multiple
  <2> HIDE DEF x, y
  <2>3. CASE y < Bound
    <3>1. UnitOf(y) = 1 /\ y = y * 1
      BY <2>1, <2>3, UnitIs
    <3> QED BY <2>1, <3>1 DEF Multiple, y
  <2>4. CASE ~(y < Bound)
    <3>1. y \div 10 = x
      BY <2>1
    <3>2. UnitOf(y) = 10 * UnitOf(x)
      BY <2>1, <2>4, <3>1, UnitIs
    <3> DEFINE w == UnitOf(x)
    <3>3. w \in Nat
      BY <2>2
    <3>4. y = q * (10 * w)
      <4> HIDE DEF w
      <4> QED BY <2>1, <2>2, <3>3 DEF w
    <3>5. 10 * w \in Nat
      <4> HIDE DEF w
      <4> QED BY <3>3
    <3>6. UnitOf(y) \in Nat /\ y = q * UnitOf(y)
      BY <3>2, <3>4, <3>5, Zenon
    <3> QED BY <3>6 DEF Multiple, y
  <2> QED BY <2>3, <2>4
<1>4. 10 * u \in Nat /\ 10 * u >= 1
  BY <1>2
<1> QED BY <1>3, <1>4 DEF Tight

\* The unit a number is rounded to: it has at most Digits digits of it.
LEMMA UnitFits ==
    ASSUME NEW n \in Nat
    PROVE  Tight(UnitOf(n)) /\ n < Bound * UnitOf(n)
<1> DEFINE Good(m) == Tight(UnitOf(m)) /\ m < Bound * UnitOf(m)
           G == {l \in Nat : \A m \in 0 .. l : Good(m)}
<1>a. PICK tenth \in Nat : tenth >= 1 /\ Bound = 10 * tenth
  BY BoundIs
<1>0. ASSUME NEW m \in Nat, m < Bound PROVE Good(m)
  <2>1. UnitOf(m) = 1
    BY <1>0, UnitIs
  <2>2. m < Bound * 1
    BY <1>0, <1>a
  <2> QED BY <2>1, <2>2, TightOne
<1>1. 0 \in G
  <2>1. \A m \in 0 .. 0 : m \in Nat /\ m < Bound
    BY <1>a
  <2> HIDE DEF Good
  <2> QED BY <1>0, <2>1
<1>2. ASSUME NEW l \in Nat, l \in G PROVE l + 1 \in G
  <2> SUFFICES ASSUME NEW m \in 0 .. (l + 1) PROVE Good(m)
    OBVIOUS
  <2>1. m \in Nat
    OBVIOUS
  <2>2. CASE ~(m < Bound)
    <3> DEFINE k == m \div 10
               u == UnitOf(k)
    <3>1. k \in Nat /\ k < m /\ m < 10 * k + 10
      BY <2>1, <2>2, Tenth
    <3>2. Tight(u) /\ k < Bound * u
      <4>1. k \in 0 .. l
        BY <3>1
      <4> QED BY <1>2, <4>1
    <3>3. UnitOf(m) = 10 * u
      BY <2>1, <2>2, UnitIs
    <3> HIDE DEF k, u
    <3>4. u \in Nat
      BY <3>2 DEF Tight
    <3>5. m < Bound * (10 * u)
      <4>1. Bound * u \in Nat /\ Bound * (10 * u) = 10 * (Bound * u)
        BY <1>a, <3>4
      <4> DEFINE v == Bound * u
      <4> HIDE DEF v
      <4>2. k + 1 <= v
        BY <3>1, <3>2, <4>1 DEF v
      <4>3. m < 10 * v
        BY <2>1, <3>1, <4>1, <4>2 DEF v
      <4> QED BY <4>1, <4>3, Zenon DEF v
    <3> QED BY <3>2, <3>3, <3>5, TightTen
  <2> QED BY <1>0, <2>1, <2>2
<1>3. \A l \in Nat : l \in G
  <2> HIDE DEF G
  <2> QED BY <1>1, <1>2, Successors
<1>4. n \in 0 .. n
  OBVIOUS
<1> QED BY <1>3, <1>4

Rounding(n, unit) ==
    LET rest == n % unit
        down == n - rest
    IN  IF 2 * rest < unit \/ (2 * rest = unit /\ (down \div unit) % 2 = 0)
        THEN down ELSE down + unit

\* What is printed is a number rounded to its unit.
LEMMA PrintedIs ==
    ASSUME NEW n
    PROVE  Printed(n) = Rounding(n, UnitOf(n))
BY Zenon DEF Printed, Rounding, UnitOf, IsUnit, Bound

LEMMA InUnits ==
    ASSUME NEW n \in Nat, NEW u \in Nat, u >= 1
    PROVE  \E c \in Nat : n % u \in Nat /\ n % u < u /\ n = c * u + (n % u)
<1>1. n % u \in 0 .. (u - 1) /\ n \div u \in Nat /\ n = u * (n \div u) + (n % u)
  OBVIOUS
<1> DEFINE d == n \div u
           r == n % u
<1>2. d \in Nat /\ r \in Nat /\ r < u /\ n = u * d + r
  BY <1>1
<1> HIDE DEF d, r
<1>3. n = d * u + r
  BY <1>2
<1> QED BY <1>2, <1>3 DEF r

\* A multiple of its unit is not rounded.
LEMMA NoRest ==
    ASSUME NEW x \in Nat, NEW u \in Nat, u >= 1, Multiple(x, u)
    PROVE  x % u = 0
<1>1. PICK q \in Nat : x = q * u
  BY DEF Multiple
<1>2. PICK c \in Nat : x % u \in Nat /\ x % u < u /\ x = c * u + (x % u)
  BY InUnits
<1> DEFINE r == x % u
<1>3. r \in Nat /\ r < u /\ q * u = c * u + r
  BY <1>1, <1>2
<1> HIDE DEF r
<1>4. q * u - c * u = (q - c) * u
  OBVIOUS
<1> DEFINE d == q - c
<1>5. d \in Int /\ d * u = r
  <2>1. q * u \in Int /\ c * u \in Int
    OBVIOUS
  <2> QED BY <1>3, <1>4, <2>1
<1> HIDE DEF d
<1>6. d >= 1 => d * u >= u
  BY <1>5
<1>7. d <= -1 => d * u <= -u
  BY <1>5
<1>8. d = 0 => d * u = 0
  OBVIOUS
<1>9. r = 0
  BY <1>3, <1>5, <1>6, <1>7, <1>8
<1> QED BY <1>9 DEF r

\* A printed number is printed as it is.
THEOREM PrintedTwice ==
    ASSUME NEW n \in Nat
    PROVE  Printed(n) \in Nat /\ Printed(Printed(n)) = Printed(n)
<1> DEFINE u == UnitOf(n)
           x == Printed(n)
<1>a. PICK tenth \in Nat : tenth >= 1 /\ Bound = 10 * tenth
  BY BoundIs
<1>1. Tight(u) /\ n < Bound * u /\ u \in Nat /\ u >= 1
  BY UnitFits DEF Tight
<1>2. x = Rounding(n, u)
  BY PrintedIs
<1> HIDE DEF u, x
<1>3. PICK c \in Nat : n % u \in Nat /\ n % u < u /\ n = c * u + (n % u)
  BY <1>1, InUnits
<1>4. x = c * u \/ x = (c + 1) * u
  <2>1. n - (n % u) = c * u /\ c * u + u = (c + 1) * u
    <3>1. c * u \in Nat
      BY <1>1
    <3>2. c * u + u = (c + 1) * u
      BY <1>1
    <3> DEFINE r == n % u
               v == c * u
    <3>3. r \in Nat /\ v \in Nat /\ n = v + r
      BY <1>3, <3>1
    <3> HIDE DEF r, v
    <3>4. n - r = v
      BY <3>3
    <3> QED BY <3>2, <3>4 DEF r, v
  <2>2. x = n - (n % u) \/ x = n - (n % u) + u
    BY <1>2, Zenon DEF Rounding
  <2> QED BY <2>1, <2>2, Zenon
<1>5. c < Bound
  <2>1. c * u <= n
    BY <1>1, <1>3
  <2>2. ASSUME c >= Bound PROVE FALSE
    <3>1. c * u >= Bound * u
      BY <1>1, <1>a, <2>2
    <3>2. c * u \in Nat /\ Bound * u \in Nat
      BY <1>1, <1>a
    <3> QED BY <1>1, <2>1, <3>1, <3>2
  <2> QED BY <1>a, <2>2
<1>6. PICK k \in 0 .. Bound : x = k * u
  <2>1. c \in 0 .. Bound /\ c + 1 \in 0 .. Bound
    BY <1>a, <1>5
  <2> QED BY <1>4, <2>1
<1>7. x \in Nat
  <2>1. k \in Nat
    BY <1>a
  <2> QED BY <1>1, <1>6, <2>1
<1> DEFINE w == UnitOf(x)
<1>8. Multiple(x, w)
  BY <1>1, <1>6 DEF Tight
<1>9. w \in Nat /\ w >= 1
  BY <1>7, UnitFits DEF Tight
<1>10. Printed(x) = Rounding(x, w)
  BY PrintedIs
<1> HIDE DEF w
<1>11. x % w = 0
  BY <1>7, <1>8, <1>9, NoRest
<1>12. 2 * 0 < w /\ x - 0 = x
  BY <1>7, <1>9
<1>13. Rounding(x, w) = x
  BY <1>11, <1>12, Zenon DEF Rounding
<1> QED BY <1>7, <1>10, <1>13 DEF x

(***************************************************************************)
(* What is read of a text, whole or cut off.                               *)
(***************************************************************************)

\* Where everything has a name everything is kept.
LEMMA NamedAll ==
    ASSUME NEW n \in Nat, NEW T, NEW things \in [1 .. n -> T],
           \A i \in 1 .. n : things[i].name # NoName
    PROVE  Named(things) = things
<1>1. DOMAIN things = 1 .. n
  OBVIOUS
<1>2. PICK m, e : /\ m = n /\ \A k \in 1 .. m : e[k] = k
                  /\ Named(things) = Picked(things, m, e)
  BY <1>1, NamedTogether
<1>3. Picked(things, m, e) = [k \in 1 .. n |-> things[k]]
  BY <1>2 DEF Picked
<1> QED BY <1>2, <1>3

LEMMA NamedNone ==
    ASSUME NEW things, DOMAIN things = 1 .. 0
    PROVE  Named(things) = <<>>
<1>1. PICK m, e : m \in 0 .. 0 /\ Named(things) = Picked(things, m, e)
  <2>1. \A i \in 1 .. 0 : things[i].name = things[i].name
    OBVIOUS
  <2> QED BY <2>1, NamedTogether
<1>2. m = 0
  BY <1>1
<1>3. Picked(things, 0, e) = <<>>
  BY DEF Picked
<1> QED BY <1>1, <1>2, <1>3

\* The first of those stored are those stored of the first.
LEMMA FirstStored ==
    ASSUME NEW list \in Seq(SavedPrinter), NEW n \in 0 .. Len(list)
    PROVE  Storable(SubSeq(list, 1, n)) = Named([j \in 1 .. n |-> Stored(list[j])])
<1> DEFINE first == SubSeq(list, 1, n)
           S == SavedPrinter
<1>1. Len(list) \in Nat /\ \A i \in 1 .. Len(list) : list[i] \in S
  BY LenProperties, ElementOfSeq
<1>2. n \in Nat /\ \A i \in 1 .. n : i \in 1 .. Len(list)
  BY <1>1
<1> HIDE DEF S
<1>3. \A i \in 1 .. n : list[i] \in S
  BY <1>1, <1>2
<1>4. /\ first \in Seq(S) /\ Len(first) = IF 1 <= n THEN n - 1 + 1 ELSE 0
      /\ \A i \in 1 .. n - 1 + 1 : first[i] = list[1 + i - 1]
  BY <1>2, <1>3, SubSeqProperties
<1> HIDE DEF first
<1>5. Len(first) = n
  BY <1>2, <1>4
<1>6. \A i \in 1 .. n : first[i] = list[i]
  <2>1. \A i \in 1 .. n : i \in 1 .. n - 1 + 1 /\ 1 + i - 1 = i
    BY <1>2
  <2> QED BY <1>4, <2>1
<1>7. Storable(first) = Named([j \in 1 .. Len(first) |-> Stored(first[j])])
  BY <1>4, PrintersStored DEF S
<1>8. [j \in 1 .. Len(first) |-> Stored(first[j])] = [j \in 1 .. n |-> Stored(list[j])]
  BY <1>5, <1>6
<1> QED BY <1>7, <1>8 DEF first

CutText(list, t) == SubSeq(ToJson(list), 1, t)

\* A text that is cut off is plain and is the beginning of the whole.
LEMMA CutTextIs ==
    ASSUME NEW list \in Seq(SavedPrinter), Plain(list), NEW t \in 0 .. Len(ToJson(list))
    PROVE  /\ CutOff(CutText(list, t), ToJson(list)) /\ Len(CutText(list, t)) = t
           /\ PlainText(CutText(list, t))
<1> DEFINE whole == ToJson(list)
           text == CutText(list, t)
           T == Tokens
<1>1. whole \in Seq(T) /\ \E s : Layout(whole, list, s)
  BY ToJsonIs
<1>2. PICK s : Layout(whole, list, s)
  BY <1>1
<1>3. Len(list) \in Nat
  BY LenProperties
<1>4. PlainText(whole)
  <2>1. \A i \in 1 .. Len(list) : CleanPrinter(list[i])
    BY PlainIs
  <2> QED BY <1>2, <1>3, <2>1, WholePlain
<1> HIDE DEF whole, T
<1>5. Len(whole) \in Nat /\ \A i \in 1 .. Len(whole) : whole[i] \in T
  BY <1>1, LenProperties, ElementOfSeq
<1>6. t \in Nat /\ t <= Len(whole) /\ \A i \in 1 .. t : i \in 1 .. Len(whole)
  <2>1. t \in 0 .. Len(whole)
    BY DEF whole
  <2> QED BY <1>5, <2>1
<1>7. /\ Len(text) = IF 1 <= t THEN t - 1 + 1 ELSE 0
      /\ \A i \in 1 .. t - 1 + 1 : text[i] = whole[1 + i - 1]
  <2>1. \A i \in 1 .. t : whole[i] \in T
    BY <1>5, <1>6
  <2>2. /\ Len(SubSeq(whole, 1, t)) = IF 1 <= t THEN t - 1 + 1 ELSE 0
        /\ \A i \in 1 .. t - 1 + 1 : SubSeq(whole, 1, t)[i] = whole[1 + i - 1]
    BY <1>6, <2>1, SubSeqProperties
  <2> QED BY <2>2 DEF CutText, whole
<1> HIDE DEF text
<1>8. Len(text) = t
  BY <1>6, <1>7
<1>9. \A i \in 1 .. t : text[i] = whole[i]
  <2>1. \A i \in 1 .. t : i \in 1 .. t - 1 + 1 /\ 1 + i - 1 = i
    BY <1>6
  <2> QED BY <1>7, <2>1
<1>10. CutOff(text, whole)
  BY <1>5, <1>6, <1>8, <1>9 DEF CutOff
<1>11. PlainText(text)
  BY <1>4, <1>6, <1>8, <1>9 DEF PlainText
<1> QED BY <1>8, <1>10, <1>11 DEF text, whole

\* Of profiles.json, cut off anywhere, the printers are read that are there as a
\* whole, as they can be kept, and of the whole text all of them.
THEOREM CutIsReadToTheLastWhole ==
    ASSUME NEW list \in Seq(SavedPrinter), Plain(list), NEW t \in 0 .. Len(ToJson(list))
    PROVE  \E n \in 0 .. Len(list) :
               /\ FromJson(SubSeq(ToJson(list), 1, t)) = Storable(SubSeq(list, 1, n))
               /\ t = Len(ToJson(list)) => n = Len(list)
<1> DEFINE whole == ToJson(list)
           text == CutText(list, t)
<1>1. PICK s : Layout(whole, list, s)
  BY ToJsonIs
<1>2. Len(list) \in Nat
  BY LenProperties
<1>3. CutOff(text, whole) /\ Len(text) = t /\ PlainText(text)
  BY CutTextIs
<1>4. Len(whole) \in Nat /\ Len(whole) >= 5
  <2>1. Len(list) + 1 \in 1 .. (Len(list) + 1)
    BY <1>2
  <2>2. s[Len(list) + 1] \in Nat /\ s[Len(list) + 1] >= 3
    BY <1>1, <1>2, <2>1, Rising
  <2>3. Len(whole) = s[Len(list) + 1] + 2
    BY <1>1 DEF Layout
  <2> QED BY <2>2, <2>3
<1>5. t \in 0 .. Len(whole) /\ FromJson(SubSeq(ToJson(list), 1, t)) = FromJson(text)
  BY DEF CutText
<1> SUFFICES \E n \in 0 .. Len(list) : /\ FromJson(text) = Storable(SubSeq(list, 1, n))
                                       /\ t = Len(whole) => n = Len(list)
  BY <1>5
<1> HIDE DEF whole, text
<1>6. CASE t <= 2
  <2>1. FromJson(text) = <<>>
    BY <1>1, <1>3, <1>6, NothingRead
  <2>2. 0 \in 0 .. Len(list)
    BY <1>2
  <2>3. Storable(SubSeq(list, 1, 0)) = Named([j \in 1 .. 0 |-> Stored(list[j])])
    BY <2>2, FirstStored
  <2>4. Named([j \in 1 .. 0 |-> Stored(list[j])]) = <<>>
    <3> DEFINE things == [j \in 1 .. 0 |-> Stored(list[j])]
    <3>1. DOMAIN things = 1 .. 0
      OBVIOUS
    <3> HIDE DEF things
    <3>2. Named(things) = <<>>
      BY <3>1, NamedNone
    <3> QED BY <3>2 DEF things
  <2>5. t # Len(whole)
    BY <1>4, <1>5, <1>6
  <2> QED BY <2>1, <2>2, <2>3, <2>4, <2>5
<1>7. CASE ~(t <= 2)
  <2>1. 3 <= Len(text)
    BY <1>3, <1>4, <1>5, <1>7
  <2>2. PICK n \in 0 .. Len(list) : /\ WholeUpTo(text, list, s, n)
                                    /\ Len(text) = Len(whole) => n = Len(list)
    BY <1>1, <1>2, <1>3, <2>1, WholesExist
  <2>3. FromJson(text) = Named([j \in 1 .. n |-> Stored(list[j])])
    BY <1>1, <1>2, <1>3, <2>1, <2>2, PrintersRead
  <2>4. Storable(SubSeq(list, 1, n)) = Named([j \in 1 .. n |-> Stored(list[j])])
    BY FirstStored
  <2>5. FromJson(text) = Storable(SubSeq(list, 1, n))
    BY <2>3, <2>4, Zenon
  <2>6. t = Len(whole) => n = Len(list)
    BY <1>3, <2>2
  <2> QED BY <2>5, <2>6
<1> QED BY <1>6, <1>7

LEMMA SeqIsFunction ==
    ASSUME NEW T, NEW s \in Seq(T)
    PROVE  Len(s) \in Nat /\ s \in [1 .. Len(s) -> T] /\ DOMAIN s = 1 .. Len(s)
BY LenProperties

\* The printers that are read of a text that is cut off are the first of those
\* that are read of the whole one.
LEMMA FirstOfStorable ==
    ASSUME NEW list \in Seq(SavedPrinter), NEW n \in 0 .. Len(list)
    PROVE  \E k \in 0 .. Len(Storable(list)) :
               Storable(SubSeq(list, 1, n)) = SubSeq(Storable(list), 1, k)
<1> DEFINE N == Len(list)
           things == [j \in 1 .. N |-> Stored(list[j])]
           T == {Stored(list[j]) : j \in 1 .. N}
           first == [i \in 1 .. n |-> things[i]]
<1>1. N \in Nat
  BY LenProperties
<1>2. things \in [1 .. N -> T]
  OBVIOUS
<1>3. Storable(list) = Named(things)
  BY PrintersStored
<1>4. first = [j \in 1 .. n |-> Stored(list[j])]
  <2>1. \A j \in 1 .. n : j \in 1 .. N
    BY <1>1
  <2> QED BY <2>1
<1>5. Storable(SubSeq(list, 1, n)) = Named(first)
  BY <1>4, FirstStored
<1> HIDE DEF things, T
<1>6. \E k \in 0 .. Len(Named(things)) : Named(first) = SubSeq(Named(things), 1, k)
  BY <1>1, <1>2, NamedFirst
<1> QED BY <1>3, <1>5, <1>6, Zenon

(***************************************************************************)
(* Storing twice.                                                          *)
(***************************************************************************)

\* A filament that was rounded is rounded, and stays clean.
LEMMA RoundedTwice ==
    ASSUME NEW f \in SavedFilament
    PROVE  Rounded(Rounded(f)) = Rounded(f) /\ Rounded(f).name = f.name
           /\ (CleanFilament(f) => CleanFilament(Rounded(f)))
<1>1. f.lowFlow \in Nat
  BY DEF SavedFilament
<1>2. Printed(Printed(f.lowFlow)) = Printed(f.lowFlow)
  BY <1>1, PrintedTwice
<1>3. Rounded(f).name = f.name /\ Rounded(f).type = f.type
      /\ Rounded(f).lowFlow = Printed(f.lowFlow)
  BY DEF Rounded
<1>4. Rounded(Rounded(f)) = [name |-> f.name, type |-> f.type, lowFlow |-> Printed(Printed(f.lowFlow))]
  BY <1>3, Zenon DEF Rounded
<1>5. Rounded(Rounded(f)) = Rounded(f)
  BY <1>2, <1>4, Zenon DEF Rounded
<1> QED BY <1>3, <1>5, Zenon DEF CleanFilament

\* The named ones of some things are some of them, in their order.
LEMMA NamedOf ==
    ASSUME NEW n \in Nat, NEW things, DOMAIN things = 1 .. n
    PROVE  \E m, e : /\ m \in 0 .. n
                     /\ \A k \in 1 .. m : e[k] \in 1 .. n /\ things[e[k]].name # NoName
                     /\ Named(things) = Picked(things, m, e)
<1>1. \A i \in 1 .. n : things[i].name = things[i].name
  OBVIOUS
<1>2. PICK m, e : /\ m \in 0 .. n
                  /\ \A k \in 1 .. m : e[k] \in 1 .. n /\ things[e[k]].name # NoName
                  /\ (\A i \in 1 .. n : things[i].name # NoName)
                       => m = n /\ \A k \in 1 .. m : e[k] = k
                  /\ Named(things) = Picked(things, m, e)
                  /\ Named(things) = Picked(things, m, e)
  BY <1>1, NamedTogether
<1> QED BY <1>2

\* The filaments of a printer that was read: rounded, named, and some of those
\* that were saved.
LEMMA StoredFilaments ==
    ASSUME NEW fs \in Seq(SavedFilament), NEW kept,
           kept = Named([j \in 1 .. Len(fs) |-> Rounded(fs[j])])
    PROVE  /\ Len(kept) \in Nat /\ DOMAIN kept = 1 .. Len(kept)
           /\ kept = [j \in 1 .. Len(kept) |-> kept[j]]
           /\ \A j \in 1 .. Len(kept) : \E i \in 1 .. Len(fs) :
                  kept[j] = Rounded(fs[i]) /\ kept[j].name # NoName
<1> DEFINE n == Len(fs)
           rs == [j \in 1 .. n |-> Rounded(fs[j])]
           T == {Rounded(fs[j]) : j \in 1 .. n}
<1>1. n \in Nat
  BY LenProperties
<1> HIDE DEF n
<1>2. /\ DOMAIN rs = 1 .. n /\ rs \in [1 .. n -> T]
      /\ \A j \in 1 .. n : rs[j] = Rounded(fs[j])
  OBVIOUS
<1> HIDE DEF rs, T
<1>3. kept = Named(rs)
  BY DEF rs, n
<1>4. PICK m, e : /\ m \in 0 .. n
                  /\ \A k \in 1 .. m : e[k] \in 1 .. n /\ rs[e[k]].name # NoName
                  /\ Named(rs) = Picked(rs, m, e)
  BY <1>1, <1>2, NamedOf
<1>5. kept \in Seq(T)
  BY <1>1, <1>2, <1>3, NamedFirst
<1>6. Len(kept) \in Nat /\ DOMAIN kept = 1 .. Len(kept) /\ kept \in [1 .. Len(kept) -> T]
  BY <1>5, SeqIsFunction
<1>7. DOMAIN kept = 1 .. m /\ \A k \in 1 .. m : kept[k] = rs[e[k]]
  BY <1>3, <1>4 DEF Picked
<1>8. ASSUME NEW j \in 1 .. Len(kept)
      PROVE  \E i \in 1 .. n : kept[j] = Rounded(fs[i]) /\ kept[j].name # NoName
  <2>1. j \in 1 .. m
    BY <1>6, <1>7
  <2>2. kept[j] = rs[e[j]] /\ e[j] \in 1 .. n /\ rs[e[j]].name # NoName
    BY <1>4, <1>7, <2>1
  <2> QED BY <1>2, <2>2
<1> QED BY <1>6, <1>8 DEF n

\* A printer that was read is read again as it is.
LEMMA StoredTwice ==
    ASSUME NEW p \in SavedPrinter
    PROVE  /\ Stored(Stored(p)) = Stored(p) /\ Stored(p).name = p.name
           /\ CleanPrinter(p) => CleanPrinter(Stored(p))
<1> DEFINE fs == p.filaments
           kept == Named([j \in 1 .. Len(fs) |-> Rounded(fs[j])])
           n == Len(kept)
<1>1. /\ p.rise \in Nat /\ p.maxVelocity \in Nat /\ fs \in Seq(SavedFilament)
      /\ \A i \in 1 .. Len(fs) : fs[i] \in SavedFilament
  BY SavedPrinterIs
<1>2. /\ Printed(Printed(p.rise)) = Printed(p.rise)
      /\ Printed(Printed(p.maxVelocity)) = Printed(p.maxVelocity)
  BY <1>1, PrintedTwice
<1>3. /\ n \in Nat /\ kept = [j \in 1 .. n |-> kept[j]]
      /\ \A j \in 1 .. n : \E i \in 1 .. Len(fs) :
             kept[j] = Rounded(fs[i]) /\ kept[j].name # NoName
  <2> HIDE DEF fs
  <2> QED BY <1>1, StoredFilaments
<1>4. Stored(p) = [name |-> p.name, rise |-> Printed(p.rise), startMacro |-> p.startMacro,
                   maxVelocity |-> Printed(p.maxVelocity), filaments |-> kept]
  BY Zenon DEF Stored
<1>5. Stored(Stored(p)) =
        [name |-> Stored(p).name, rise |-> Printed(Stored(p).rise),
         startMacro |-> Stored(p).startMacro, maxVelocity |-> Printed(Stored(p).maxVelocity),
         filaments |-> Named([j \in 1 .. Len(Stored(p).filaments) |->
                                 Rounded(Stored(p).filaments[j])])]
  BY Zenon DEF Stored
<1> HIDE DEF kept, n
<1>6. /\ Stored(p).name = p.name /\ Stored(p).rise = Printed(p.rise)
      /\ Stored(p).startMacro = p.startMacro /\ Stored(p).maxVelocity = Printed(p.maxVelocity)
      /\ Stored(p).filaments = kept
  BY <1>4
<1>7. ASSUME NEW j \in 1 .. n PROVE Rounded(kept[j]) = kept[j] /\ kept[j].name # NoName
  <2>1. PICK i \in 1 .. Len(fs) : kept[j] = Rounded(fs[i]) /\ kept[j].name # NoName
    BY <1>3
  <2>2. Rounded(Rounded(fs[i])) = Rounded(fs[i])
    BY <1>1, RoundedTwice
  <2> QED BY <2>1, <2>2
<1>8. Named([j \in 1 .. n |-> Rounded(kept[j])]) = kept
  <2> DEFINE T == {kept[j] : j \in 1 .. n}
  <2>1. [j \in 1 .. n |-> Rounded(kept[j])] = [j \in 1 .. n |-> kept[j]]
    BY <1>7
  <2>2. kept \in [1 .. n -> T]
    <3>1. \A j \in 1 .. n : kept[j] \in T
      OBVIOUS
    <3> HIDE DEF T
    <3> QED BY <1>3, <3>1
  <2> HIDE DEF T
  <2>3. Named(kept) = kept
    BY <1>3, <1>7, <2>2, NamedAll
  <2> QED BY <1>3, <2>1, <2>3, Zenon
<1>9. Stored(Stored(p)) = Stored(p)
  <2>1. Named([j \in 1 .. Len(Stored(p).filaments) |-> Rounded(Stored(p).filaments[j])]) = kept
    BY <1>6, <1>8, Zenon DEF n
  <2> QED BY <1>2, <1>4, <1>5, <1>6, <2>1, Zenon
<1>10. ASSUME CleanPrinter(p) PROVE CleanPrinter(Stored(p))
  <2>1. ASSUME NEW j \in 1 .. n PROVE CleanFilament(kept[j])
    <3>1. PICK i \in 1 .. Len(fs) : kept[j] = Rounded(fs[i])
      BY <1>3
    <3>2. CleanFilament(fs[i])
      BY <1>10 DEF CleanPrinter
    <3> QED BY <1>1, <3>1, <3>2, RoundedTwice
  <2>2. p.name \notin Excepted /\ p.startMacro \notin Excepted
    BY <1>10 DEF CleanPrinter
  <2>3. Stored(p).name \notin Excepted /\ Stored(p).startMacro \notin Excepted
    BY <1>6, <2>2, Zenon
  <2>4. \A j \in 1 .. Len(Stored(p).filaments) : CleanFilament(Stored(p).filaments[j])
    BY <1>6, <2>1, Zenon DEF n
  <2> QED BY <2>3, <2>4 DEF CleanPrinter
<1> QED BY <1>6, <1>9, <1>10

\* What is read of printers is printers.
LEMMA RoundedSaved == ASSUME NEW f \in SavedFilament PROVE Rounded(f) \in SavedFilament
<1>1. f.name \in STRING /\ f.type \in STRING /\ f.lowFlow \in Nat
  BY DEF SavedFilament
<1>2. Printed(f.lowFlow) \in Nat
  BY <1>1, PrintedTwice
<1> QED BY <1>1, <1>2 DEF Rounded, SavedFilament

LEMMA StoredSaved == ASSUME NEW p \in SavedPrinter PROVE Stored(p) \in SavedPrinter
<1> DEFINE n == Len(p.filaments)
           rs == [j \in 1 .. n |-> Rounded(p.filaments[j])]
           S == SavedFilament
<1>1. /\ p.name \in STRING /\ p.rise \in Nat /\ p.startMacro \in STRING
      /\ p.maxVelocity \in Nat /\ n \in Nat
      /\ \A k \in 1 .. n : p.filaments[k] \in S
  BY SavedPrinterIs
<1>2. Printed(p.rise) \in Nat /\ Printed(p.maxVelocity) \in Nat
  BY <1>1, PrintedTwice
<1>3. \A j \in 1 .. n : Rounded(p.filaments[j]) \in S
  BY <1>1, RoundedSaved
<1>4. rs \in [1 .. n -> S]
  <2> HIDE DEF n, S
  <2> QED BY <1>3
<1>5. Named(rs) \in Seq(S)
  <2>1. n \in 0 .. n
    BY <1>1
  <2> HIDE DEF n, S, rs
  <2> QED BY <1>1, <1>4, <2>1, NamedFirst
<1> DEFINE named == Named(rs)
<1>6. Stored(p) = [name |-> p.name, rise |-> Printed(p.rise), startMacro |-> p.startMacro,
                   maxVelocity |-> Printed(p.maxVelocity), filaments |-> named]
  BY Zenon DEF Stored
<1>7. named \in Seq(S)
  BY <1>5
<1> HIDE DEF named, n, rs, S
<1> QED BY <1>1, <1>2, <1>6, <1>7 DEF SavedPrinter, S

LEMMA StorableSaved ==
    ASSUME NEW list \in Seq(SavedPrinter) PROVE Storable(list) \in Seq(SavedPrinter)
<1> DEFINE n == Len(list)
           rs == [j \in 1 .. n |-> Stored(list[j])]
           S == SavedPrinter
<1>1. n \in Nat /\ \A j \in 1 .. n : list[j] \in S
  BY LenProperties, ElementOfSeq
<1>2. \A j \in 1 .. n : Stored(list[j]) \in S
  BY <1>1, StoredSaved
<1>3. Storable(list) = Named(rs)
  BY PrintersStored
<1>4. rs \in [1 .. n -> S]
  <2> HIDE DEF n, S
  <2> QED BY <1>2
<1>5. n \in 0 .. n
  BY <1>1
<1>6. Named(rs) \in Seq(S)
  <2> HIDE DEF n, S, rs
  <2> QED BY <1>1, <1>4, <1>5, NamedFirst
<1> QED BY <1>3, <1>6

\* What can be kept can be kept as it is, and is plain where the list was.
LEMMA StorableTwice ==
    ASSUME NEW list \in Seq(SavedPrinter), Plain(list)
    PROVE  Plain(Storable(list)) /\ Storable(Storable(list)) = Storable(list)
<1> DEFINE n == Len(list)
           rs == [j \in 1 .. n |-> Stored(list[j])]
           S == SavedPrinter
           kept == Storable(list)
           L == Len(kept)
<1>1. n \in Nat /\ \A j \in 1 .. n : list[j] \in S
  BY LenProperties, ElementOfSeq
<1>a. \A j \in 1 .. n : CleanPrinter(list[j])
  BY PlainIs
<1>2. kept = Named(rs)
  BY PrintersStored
<1> HIDE DEF n
<1>3. DOMAIN rs = 1 .. n /\ \A j \in 1 .. n : rs[j] = Stored(list[j])
  OBVIOUS
<1> HIDE DEF rs
<1>4. PICK m, e : /\ m \in 0 .. n
                  /\ \A k \in 1 .. m : e[k] \in 1 .. n /\ rs[e[k]].name # NoName
                  /\ Named(rs) = Picked(rs, m, e)
  <2>1. n \in Nat
    BY <1>1
  <2>2. DOMAIN rs = 1 .. n
    BY <1>3
  <2> QED BY <2>1, <2>2, NamedOf
<1>5. L \in Nat /\ DOMAIN kept = 1 .. L /\ kept \in [1 .. L -> S]
  <2>1. kept \in Seq(S)
    BY StorableSaved
  <2> HIDE DEF kept, S
  <2> QED BY <2>1, SeqIsFunction
<1> HIDE DEF kept, L, S
<1>6. DOMAIN kept = 1 .. m /\ \A k \in 1 .. m : kept[k] = rs[e[k]]
  BY <1>2, <1>4 DEF Picked
<1>7. ASSUME NEW j \in 1 .. L
      PROVE  Stored(kept[j]) = kept[j] /\ kept[j].name # NoName /\ CleanPrinter(kept[j])
  <2>1. j \in 1 .. m
    BY <1>5, <1>6
  <2>2. kept[j] = rs[e[j]] /\ e[j] \in 1 .. n /\ rs[e[j]].name # NoName
    BY <1>4, <1>6, <2>1
  <2> DEFINE p == list[e[j]]
  <2>3. p \in S /\ CleanPrinter(p) /\ kept[j] = Stored(p) /\ kept[j].name # NoName
    BY <1>1, <1>3, <1>a, <2>2
  <2> HIDE DEF p
  <2>4. Stored(Stored(p)) = Stored(p) /\ CleanPrinter(Stored(p))
    BY <2>3, StoredTwice DEF S
  <2> QED BY <2>3, <2>4
<1>8. Plain(kept)
  <2>1. kept \in Seq(SavedPrinter)
    BY StorableSaved DEF kept
  <2> QED BY <1>7, <2>1, PlainIs DEF L
<1>9. Storable(kept) = kept
  <2>1. Storable(kept) = Named([j \in 1 .. L |-> Stored(kept[j])])
    <3>1. kept \in Seq(SavedPrinter)
      BY StorableSaved DEF kept
    <3> QED BY <3>1, PrintersStored DEF L
  <2>2. [j \in 1 .. L |-> Stored(kept[j])] = kept
    <3>1. [j \in 1 .. L |-> Stored(kept[j])] = [j \in 1 .. L |-> kept[j]]
      BY <1>7
    <3> QED BY <1>5, <3>1
  <2>3. Named(kept) = kept
    BY <1>5, <1>7, NamedAll
  <2> QED BY <2>1, <2>2, <2>3, Zenon
<1> QED BY <1>8, <1>9 DEF kept

\* Of the whole text all printers are read.
LEMMA WholeIsRead ==
    ASSUME NEW list \in Seq(SavedPrinter), Plain(list)
    PROVE  FromJson(ToJson(list)) = Storable(list)
<1> DEFINE t == Len(ToJson(list))
           S == SavedPrinter
           T == Tokens
<1>1. ToJson(list) \in Seq(T)
  BY ToJsonIs
<1>2. t \in Nat /\ SubSeq(ToJson(list), 1, t) = ToJson(list)
  <2> HIDE DEF T
  <2> QED BY <1>1, LenProperties, SubSeqFull
<1>3. t \in 0 .. t
  BY <1>2
<1>4. PICK n \in 0 .. Len(list) : /\ FromJson(SubSeq(ToJson(list), 1, t)) = Storable(SubSeq(list, 1, n))
                                  /\ t = t => n = Len(list)
  BY <1>3, CutIsReadToTheLastWhole
<1>5. SubSeq(list, 1, n) = list
  <2>1. list \in Seq(S)
    OBVIOUS
  <2> HIDE DEF S
  <2> QED BY <1>4, <2>1, SubSeqFull
<1> QED BY <1>2, <1>4, <1>5, Zenon

\* The round trip of any list of printers without the strings that are excepted:
\* fromJson reads of toJson what can be kept of the list, and a second round trip
\* changes nothing.
THEOREM RoundTrip ==
    ASSUME NEW list \in Seq(SavedPrinter), Plain(list)
    PROVE  /\ FromJson(ToJson(list)) = Storable(list)
           /\ FromJson(ToJson(Storable(list))) = Storable(list)
<1>1. ASSUME NEW any \in Seq(SavedPrinter), Plain(any)
      PROVE  FromJson(ToJson(any)) = Storable(any)
  BY <1>1, WholeIsRead
<1>2. Plain(Storable(list)) /\ Storable(Storable(list)) = Storable(list)
  BY StorableTwice
<1>3. Storable(list) \in Seq(SavedPrinter)
  BY StorableSaved
<1> QED BY <1>1, <1>2, <1>3

-----------------------------------------------------------------------------
(***************************************************************************)
(* The readings of the store.                                              *)
(***************************************************************************)

LEMMA TabledIs == \A f : Tabled(f) = f
BY DEF Tabled

\* A reading is what fromJson makes of the first tokens.
LEMMA ReadingsAre ==
    ASSUME NEW list \in Memories, NEW tokens \in 0 .. Length(list)
    PROVE  Readings[list][tokens] = FromJson(SubSeq(ToJson(list), 1, tokens))
<1> DEFINE row(memory) == [t \in 0 .. Length(memory) |-> FromJson(SubSeq(ToJson(memory), 1, t))]
           table == [memory \in Memories |-> Tabled(row(memory))]
<1>1. Readings = Tabled(table)
  BY Zenon DEF Readings
<1>2. Readings = table
  <2> HIDE DEF table
  <2> QED BY <1>1, TabledIs
<1>3. table[list] = Tabled(row(list))
  <2> HIDE DEF row
  <2> QED OBVIOUS
<1>4. Tabled(row(list)) = row(list)
  BY TabledIs
<1>5. row(list)[tokens] = FromJson(SubSeq(ToJson(list), 1, tokens))
  OBVIOUS
<1> HIDE DEF row, table
<1> QED BY <1>2, <1>3, <1>4, <1>5, Zenon

LEMMA LengthNat == ASSUME NEW list \in Memories PROVE Length(list) \in Nat
<1> DEFINE T == Tokens
           S == Seq(SavedPrinter)
<1>1. list \in S
  <2> HIDE DEF S
  <2>1. \A memory \in Memories : memory \in S
    BY StoreAssumption DEF StoreAssumption, S
  <2> QED BY <2>1
<1>2. ToJson(list) \in Seq(T)
  BY <1>1, ToJsonIs
<1> HIDE DEF T
<1> QED BY <1>2, LenProperties DEF Length

\* What memory may hold is printers, and their readings can be held as well.
LEMMA MemoryIs ==
    ASSUME NEW list \in Memories
    PROVE  /\ list \in Seq(SavedPrinter)
           /\ \A tokens \in 0 .. Length(list) : Readings[list][tokens] \in Memories
<1> DEFINE S == Seq(SavedPrinter)
<1>1. \A memory \in Memories :
          /\ memory \in S
          /\ \A tokens \in 0 .. Length(memory) : Readings[memory][tokens] \in Memories
  BY StoreAssumption DEF StoreAssumption
<1> HIDE DEF S
<1>2. list \in S /\ \A tokens \in 0 .. Length(list) : Readings[list][tokens] \in Memories
  BY <1>1
<1> QED BY <1>2 DEF S

\* What is kept of a plain list is what can be kept of it.
LEMMA KeptIs ==
    ASSUME NEW list \in Memories, Plain(list)
    PROVE  Kept(list) = Storable(list) /\ Kept(list) \in Memories
<1> DEFINE t == Length(list)
           S == SavedPrinter
<1>1. t \in 0 .. Length(list) /\ t \in 0 .. Len(ToJson(list)) /\ t = Len(ToJson(list))
  BY LengthNat DEF Length
<1>2. list \in Seq(S) /\ Readings[list][t] \in Memories
  BY <1>1, MemoryIs
<1>3. Readings[list][t] = FromJson(SubSeq(ToJson(list), 1, t))
  BY <1>1, ReadingsAre
<1>4. PICK n \in 0 .. Len(list) : /\ FromJson(SubSeq(ToJson(list), 1, t)) = Storable(SubSeq(list, 1, n))
                                  /\ t = Len(ToJson(list)) => n = Len(list)
  BY <1>1, <1>2, CutIsReadToTheLastWhole
<1>5. SubSeq(list, 1, n) = list
  <2> HIDE DEF S
  <2> QED BY <1>1, <1>2, <1>4, SubSeqFull
<1>6. Kept(list) = Readings[list][t]
  BY DEF Kept
<1> HIDE DEF t, S
<1> QED BY <1>2, <1>3, <1>4, <1>5, <1>6

\* A list that was read back is kept as it is.
LEMMA KeptTwice ==
    ASSUME NEW list \in Memories, Plain(list)
    PROVE  Kept(list) = Storable(list) /\ Kept(Kept(list)) = Kept(list)
<1> DEFINE k == Storable(list)
<1>1. Kept(list) = k /\ k \in Memories
  <2>1. Kept(list) = k /\ Kept(list) \in Memories
    BY KeptIs
  <2> HIDE DEF k
  <2> QED BY <2>1
<1>2. list \in Seq(SavedPrinter) /\ k \in Seq(SavedPrinter)
  BY <1>1, MemoryIs
<1>3. Plain(k) /\ Storable(k) = k
  BY <1>2, StorableTwice
<1> HIDE DEF k
<1>4. Kept(k) = Storable(k)
  BY <1>1, <1>3, KeptIs
<1> QED BY <1>1, <1>3, <1>4, Zenon DEF k

\* What is loaded of a file is a list, and of plain strings the first printers of
\* what was kept.
LEMMA LoadedPart ==
    ASSUME NEW list \in Memories, NEW tokens \in 0 .. Length(list)
    PROVE  /\ Readings[list][tokens] \in Memories
           /\ Plain(list) => \E n \in 0 .. Len(Kept(list)) :
                                 Readings[list][tokens] = SubSeq(Kept(list), 1, n)
<1>1. list \in Seq(SavedPrinter) /\ Readings[list][tokens] \in Memories
  BY MemoryIs
<1>2. ASSUME Plain(list)
      PROVE  \E n \in 0 .. Len(Kept(list)) : Readings[list][tokens] = SubSeq(Kept(list), 1, n)
  <2>1. Readings[list][tokens] = FromJson(SubSeq(ToJson(list), 1, tokens))
    BY ReadingsAre
  <2>2. tokens \in 0 .. Len(ToJson(list))
    BY DEF Length
  <2>3. PICK n \in 0 .. Len(list) :
            FromJson(SubSeq(ToJson(list), 1, tokens)) = Storable(SubSeq(list, 1, n))
    BY <1>1, <1>2, <2>2, CutIsReadToTheLastWhole
  <2>4. \E k \in 0 .. Len(Storable(list)) :
            Storable(SubSeq(list, 1, n)) = SubSeq(Storable(list), 1, k)
    BY <1>1, FirstOfStorable
  <2>5. Kept(list) = Storable(list)
    BY <1>2, KeptIs
  <2> QED BY <2>1, <2>3, <2>4, <2>5, Zenon
<1> QED BY <1>1, <1>2

-----------------------------------------------------------------------------
(***************************************************************************)
(* The store.                                                              *)
(***************************************************************************)

\* A file that is there holds the beginning of the text of a list.
FileOK(file) ==
    \/ file = Missing
    \/ \E list \in Memories : \E tokens \in 0 .. Length(list) :
           file = File(list, tokens)

\* Where the save stands, and what the two files hold there.
SaveOK ==
    /\ pc \in {"idle", "writing", "moving", "failed", "copying"}
    /\ pc \in {"writing", "moving", "failed", "copying"}
           => temporary.exists /\ temporary.list = printers
    /\ pc = "writing" => ~trouble
    /\ pc = "moving" /\ ~trouble => temporary.tokens = Length(printers)
    /\ pc \in {"failed", "copying"} => trouble
    /\ pc = "idle" /\ returned = "true" /\ ~trouble
           => target.exists /\ target.tokens = Length(target.list)
    /\ pc = "copying" => target.exists /\ target.list = printers
                         /\ target.tokens <= temporary.tokens

\* The inductive invariant of the store.
StoreInv ==
    /\ printers \in Memories
    /\ FileOK(target) /\ FileOK(temporary)
    /\ trouble \in BOOLEAN
    /\ SaveOK

-----------------------------------------------------------------------------
\* A file that is there has its list and its tokens.
LEMMA FileParts ==
    ASSUME NEW file, FileOK(file), file.exists
    PROVE  /\ file.list \in Memories /\ file.tokens \in 0 .. Length(file.list)
           /\ file = File(file.list, file.tokens)
BY DEF FileOK, File, Missing

\* One more block leaves the text within its bounds.
LEMMA MoreBounds ==
    ASSUME NEW all \in Nat, NEW tokens \in 0 .. all
    PROVE  More(tokens, all) \in 0 .. all
<1>1. Block \in Nat \ {0}
  <2> DEFINE S == Seq(SavedPrinter)
  <2>1. /\ Block \in Nat \ {0}
        /\ \A memory \in Memories :
              /\ memory \in S
              /\ \A t \in 0 .. Length(memory) : Readings[memory][t] \in Memories
    BY StoreAssumption DEF StoreAssumption
  <2> QED BY <2>1
<1>2. CASE tokens + Block <= all
  <2>1. Min({all, tokens + Block}) = tokens + Block
    BY <1>1, <1>2 DEF Min
  <2> QED BY <1>1, <1>2, <2>1 DEF More
<1>3. CASE ~(tokens + Block <= all)
  <2>1. Min({all, tokens + Block}) = all
    BY <1>1, <1>3 DEF Min
  <2> QED BY <1>1, <1>3, <2>1 DEF More
<1> QED BY <1>2, <1>3

LEMMA NothingInMemories == <<>> \in Memories
<1> DEFINE S == Seq(SavedPrinter)
<1>1. /\ <<>> \in Memories
      /\ \A memory \in Memories :
            /\ memory \in S
            /\ \A t \in 0 .. Length(memory) : Readings[memory][t] \in Memories
  BY StoreAssumption DEF StoreAssumption
<1> QED BY <1>1

\* A loaded list can be held in memory.
LEMMA LoadInMemories == StoreInv => Load \in Memories
<1> SUFFICES ASSUME StoreInv PROVE Load \in Memories
  OBVIOUS
<1>1. CASE target.exists
  BY <1>1, FileParts, LoadedPart DEF StoreInv, Load
<1>2. CASE ~target.exists
  BY <1>2, NothingInMemories DEF Load
<1> QED BY <1>1, <1>2

-----------------------------------------------------------------------------
LEMMA StoreInvInit == StoreInit => StoreInv
BY NothingInMemories DEF StoreInit, StoreInv, FileOK, SaveOK, Missing

LEMMA StoreInvNext == StoreInv /\ [StoreNext]_storeVars => StoreInv'
<1> SUFFICES ASSUME StoreInv, [StoreNext]_storeVars PROVE StoreInv'
  OBVIOUS
<1> USE DEF StoreInv
<1>1. CASE UNCHANGED storeVars
  BY <1>1 DEF storeVars, FileOK, SaveOK
<1>2. CASE EditStep
  BY <1>2 DEF EditStep, Upsert, RemovePrinter, FileOK, SaveOK
<1>3. CASE OpenTemporary
  <2>1. FileOK(temporary')
    BY <1>3, LengthNat DEF OpenTemporary, FileOK
  <2> QED BY <1>3, <2>1 DEF OpenTemporary, GoTo, FileOK, SaveOK, File
<1>4. CASE OpenFails
  BY <1>4 DEF OpenFails, Return, FileOK, SaveOK
<1>5. CASE WriteBlock
  <2>1. temporary.tokens \in 0 .. Length(printers)
    BY <1>5, FileParts DEF WriteBlock, SaveOK
  <2>2. More(temporary.tokens, Length(printers)) \in 0 .. Length(printers)
    BY <2>1, MoreBounds, LengthNat
  <2>3. FileOK(temporary')
    BY <1>5, <2>2 DEF WriteBlock, FileOK
  <2> QED BY <1>5, <2>3 DEF WriteBlock, FileOK, SaveOK, File
<1>6. CASE CloseTemporary
  BY <1>6 DEF CloseTemporary, Flushed, GoTo, FileOK, SaveOK
<1>7. CASE DiskFull
  BY <1>7 DEF DiskFull, GoTo, FileOK, SaveOK
<1>8. CASE Rename
  BY <1>8 DEF Rename, Return, FileOK, SaveOK
<1>9. CASE RenameFails
  BY <1>9 DEF RenameFails, GoTo, FileOK, SaveOK
<1>10. CASE BeginCopy
  <2>1. temporary.list = printers /\ temporary.tokens \in Nat
    BY <1>10, FileParts, LengthNat DEF BeginCopy, SaveOK
  <2>2. FileOK(target')
    BY <1>10, <2>1, LengthNat DEF BeginCopy, FileOK
  <2> QED BY <1>10, <2>1, <2>2 DEF BeginCopy, GoTo, FileOK, SaveOK, File
<1>11. CASE CopyBlock
  <2>1. /\ temporary.list = printers /\ temporary.tokens \in 0 .. Length(printers)
        /\ target.tokens \in 0 .. Length(printers)
    BY <1>11, FileParts DEF CopyBlock, SaveOK
  <2>2. Length(printers) \in Nat
    BY LengthNat
  <2>3. More(target.tokens, temporary.tokens) \in 0 .. temporary.tokens
    BY <1>11, <2>1, <2>2, MoreBounds DEF CopyBlock
  <2>4. More(target.tokens, temporary.tokens) \in 0 .. Length(printers)
    BY <2>1, <2>2, <2>3
  <2>5. FileOK(target')
    BY <1>11, <2>1, <2>4 DEF CopyBlock, FileOK
  <2> QED BY <1>11, <2>1, <2>3, <2>5 DEF CopyBlock, FileOK, SaveOK, File
<1>12. CASE RemoveTemporary
  BY <1>12 DEF RemoveTemporary, Return, FileOK, SaveOK
<1>13. CASE CrashAndLoad
  BY <1>13, LoadInMemories DEF CrashAndLoad, FileOK, SaveOK
<1> QED BY <1>1, <1>2, <1>3, <1>4, <1>5, <1>6, <1>7, <1>8, <1>9, <1>10, <1>11,
           <1>12, <1>13 DEF StoreNext, SaveStep

LEMMA StoreInvariant == StoreSpec => []StoreInv
BY StoreInvInit, StoreInvNext, PTL DEF StoreSpec

-----------------------------------------------------------------------------
\* "Profiles survive a round trip": behind every save that returned true and was
\* not let down, whatever was edited, cut short and loaded before it, a program
\* loads what can be kept of the printers saved, and what it loads is kept as it is.
THEOREM SavedIsRead == StoreSpec => []SavedIsReadBack
<1>1. StoreInv => SavedIsReadBack
  <2> SUFFICES ASSUME StoreInv, pc = "idle", returned = "true", ~trouble, Plain(target.list)
               PROVE  Load = Storable(target.list) /\ Kept(Load) = Load
    BY DEF SavedIsReadBack
  <2>1. target.exists /\ target.tokens = Length(target.list)
    BY DEF StoreInv, SaveOK
  <2>2. target.list \in Memories
    BY <2>1, FileParts DEF StoreInv
  <2>3. Load = Kept(target.list)
    BY <2>1 DEF Load, Kept
  <2> QED BY <2>2, <2>3, KeptTwice
<1> QED BY <1>1, StoreInvariant, PTL

-----------------------------------------------------------------------------
\* The printers memory may hold have none of the strings that are excepted.
PlainMemories == \A memory \in Memories : Plain(memory)

\* A move, or what a copy has brought over, puts the first printers of the one
\* save in place.
LEMMA PutsFirst ==
    ASSUME PlainMemories, StoreInv, trouble, UNCHANGED <<printers, trouble>>,
           NEW tokens \in 0 .. Length(printers), target' = File(printers, tokens)
    PROVE  OneSave!SaveBadly
<1>1. Load' = Readings[printers][tokens]
  BY DEF Load, File
<1>2. printers \in Memories /\ Plain(printers)
  BY DEF StoreInv, PlainMemories
<1>3. \E n \in 0 .. Len(Kept(printers)) :
          Readings[printers][tokens] = SubSeq(Kept(printers), 1, n)
  BY <1>2, LoadedPart
<1> QED BY <1>1, <1>3 DEF OneSave!SaveBadly

LEMMA StepRefines ==
    ASSUME PlainMemories
    PROVE  StoreInv /\ [StoreNext]_storeVars
             => [OneSave!OneSaveNext]_(OneSave!oneSaveVars)
<1> SUFFICES ASSUME StoreInv, [StoreNext]_storeVars
             PROVE  OneSave!OneSaveNext
  BY DEF OneSave!oneSaveVars
<1> USE DEF OneSave!OneSaveNext, OneSave!RegisterNext, OneSave!registerVars
<1>1. CASE UNCHANGED storeVars
  BY <1>1 DEF storeVars, Load, OneSave!Edit
<1>2. CASE EditStep
  BY <1>2 DEF EditStep, Upsert, RemovePrinter, Load, OneSave!Edit
<1>3. CASE OpenTemporary \/ DiskFull \/ RenameFails
  BY <1>3 DEF OpenTemporary, DiskFull, RenameFails, Load, OneSave!Trouble, StoreInv
<1>4. CASE OpenFails \/ WriteBlock \/ CloseTemporary \/ RemoveTemporary
  BY <1>4 DEF OpenFails, WriteBlock, CloseTemporary, RemoveTemporary, Load, OneSave!Edit
<1>5. CASE Rename
  <2>1. /\ temporary = File(printers, temporary.tokens)
        /\ temporary.tokens \in 0 .. Length(printers) /\ temporary.exists
    BY <1>5, FileParts DEF Rename, StoreInv, SaveOK
  <2>2. CASE trouble
    BY <1>5, <2>1, <2>2, PutsFirst DEF Rename
  <2>3. CASE ~trouble
    <3>1. temporary.tokens = Length(printers)
      BY <1>5, <2>3 DEF Rename, StoreInv, SaveOK
    <3>2. Load' = Kept(printers)
      BY <1>5, <2>1, <3>1 DEF Rename, Load, Kept, File
    <3> QED BY <1>5, <3>2 DEF Rename, OneSave!Save
  <2> QED BY <2>2, <2>3 DEF StoreInv
<1>6. CASE BeginCopy
  <2>1. trouble /\ temporary.list = printers
    BY <1>6 DEF BeginCopy, StoreInv, SaveOK
  <2>2. 0 \in 0 .. Length(printers)
    BY LengthNat DEF StoreInv
  <2> QED BY <1>6, <2>1, <2>2, PutsFirst DEF BeginCopy
<1>7. CASE CopyBlock
  <2>1. /\ trouble /\ temporary.list = printers
        /\ temporary.tokens \in 0 .. Length(printers)
        /\ target.tokens \in 0 .. Length(printers)
    BY <1>7, FileParts DEF CopyBlock, StoreInv, SaveOK
  <2>2. Length(printers) \in Nat
    BY LengthNat DEF StoreInv
  <2>3. More(target.tokens, temporary.tokens) \in 0 .. temporary.tokens
    BY <1>7, <2>1, <2>2, MoreBounds DEF CopyBlock
  <2>4. More(target.tokens, temporary.tokens) \in 0 .. Length(printers)
    BY <2>1, <2>2, <2>3
  <2> QED BY <1>7, <2>1, <2>4, PutsFirst DEF CopyBlock
<1>8. CASE CrashAndLoad
  BY <1>8 DEF CrashAndLoad, Load, OneSave!Restart
<1> QED BY <1>1, <1>2, <1>3, <1>4, <1>5, <1>6, <1>7, <1>8 DEF StoreNext, SaveStep

\* Wherever the program is killed, the file in place is replaced in one step or
\* not at all, unless the file system lets the save down: then it holds the first
\* printers of that one save, perhaps not all of them.  (Without the exception the
\* header's promise, KeepsLikeARegister, is false.)
THEOREM StoreKeepsOneSave ==
    ASSUME PlainMemories
    PROVE  StoreSpec => KeepsOneSave
<1>1. StoreInit => OneSave!OneSaveInit
  BY DEF StoreInit, OneSave!OneSaveInit, OneSave!RegisterInit, Load, Missing
<1>2. StoreInv /\ [StoreNext]_storeVars => [OneSave!OneSaveNext]_(OneSave!oneSaveVars)
  BY StepRefines
<1> QED
  BY <1>1, <1>2, StoreInvariant, PTL
     DEF StoreSpec, KeepsOneSave, OneSave!OneSaveSpec
=============================================================================
