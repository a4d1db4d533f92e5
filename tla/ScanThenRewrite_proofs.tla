----------------------- MODULE ScanThenRewrite_proofs -----------------------
(***************************************************************************)
(* What the first pass promises of every file, of any length, over any       *)
(* lines; and that the second counts the same filament, for every file,      *)
(* plan and setting.  The scanner's step lemmas are stated without a          *)
(* specification, so that the composition with the rewriter uses them too.  *)
(***************************************************************************)
EXTENDS ScanThenRewrite, SetSums

\* What is known of scan before the line behind line n is read.
ScanOK(s, n) ==
    /\ s \in ScanResult
    /\ s.bodyFirstLine <= n /\ s.bodyLastLine <= n
    /\ s.bodyLastLine # 0 => /\ 0 < s.bodyFirstLine
                             /\ s.bodyFirstLine <= s.bodyLastLine

\* Line n lies in the body as far as the pass has seen it.
Within(s, n) ==
    /\ s.bodyFirstLine # 0 /\ s.bodyFirstLine <= n
    /\ s.bodyLastLine # 0 => n <= s.bodyLastLine

FilamentIn(line) == IF IsExtrudingMove(line) THEN Word(line, "E", 0) ELSE 0

Counted(n) == IF n = 0 THEN 0 ELSE trail[n]

\* The trail is the running sum of the filament of the body's lines.
TrailSums ==
    \A n \in 1 .. Len(file) :
        trail[n] = Counted(n - 1) + (IF Within(scan, n) THEN FilamentIn(file[n]) ELSE 0)

\* The inductive invariant of the pass.
ScannerInv ==
    /\ ScannerTypeOK
    /\ ScanOK(scan, Len(file))
    /\ Counted(Len(file)) = scan.bodyFilament
    /\ MarksFollowTheTrail
    /\ TrailSums
    /\ ~scanning => /\ scan.totalLines = Len(file)
                    /\ errors = {} => HasPrintBody(scan)

IsModeLine(line) == line.kind \in {"M82", "M83"}

\* The body opens at the first layer marker of the file ...
BodyOpensOK ==
    /\ scan.bodyFirstLine = 0 => \A m \in 1 .. Len(file) : ~IsLayerMarker(file[m])
    /\ scan.bodyFirstLine # 0 =>
           /\ IsLayerMarker(file[scan.bodyFirstLine])
           /\ \A m \in 1 .. (scan.bodyFirstLine - 1) : ~IsLayerMarker(file[m])

\* ... and closes before the first end marker behind it.
BodyClosesOK ==
    /\ \A m \in 1 .. Len(file) : Within(scan, m) => ~IsEndMarker(file[m])
    /\ scan.bodyLastLine # 0 =>
           /\ scan.bodyLastLine + 1 <= Len(file)
           /\ IsEndMarker(file[scan.bodyLastLine + 1])

\* The marks are the layer markers of the body, in file order.
LayersOK ==
    /\ \A k \in DOMAIN scan.layers :
           /\ scan.layers[k].line \in 1 .. Len(file)
           /\ Within(scan, scan.layers[k].line)
           /\ IsLayerMarker(file[scan.layers[k].line])
           /\ k > 1 => scan.layers[k - 1].line < scan.layers[k].line
    /\ \A m \in 1 .. Len(file) :
           Within(scan, m) /\ IsLayerMarker(file[m]) =>
               \E k \in DOMAIN scan.layers : scan.layers[k].line = m

\* The mode is that of the first line that sets one.
ModeOK ==
    /\ scan.extrusionMode = "Unknown" =>
           \A m \in 1 .. Len(file) : ~IsModeLine(file[m])
    /\ scan.extrusionMode # "Unknown" =>
           \E m \in 1 .. Len(file) :
               /\ IsModeLine(file[m])
               /\ \A j \in 1 .. (m - 1) : ~IsModeLine(file[j])
               /\ scan.extrusionMode = "Relative" => file[m].kind = "M83"

StampOK ==
    ~scan.alreadyProcessed => \A m \in 1 .. Len(file) : file[m].kind # "stamp"

\* What no diagnostic means.
ResultOK ==
    ~scanning /\ errors = {} =>
        /\ ~scan.alreadyProcessed /\ scan.extrusionMode = "Relative"
        /\ HasPrintBody(scan)

\* What the pass has found, read off the file instead of its own steps.
BodyInv == BodyOpensOK /\ BodyClosesOK /\ LayersOK /\ ModeOK /\ StampOK /\ ResultOK

-----------------------------------------------------------------------------
(***************************************************************************)
(* One lemma per stage of the loop body.                                   *)
(***************************************************************************)

LEMMA LineValues ==
    ASSUME NEW line \in Lines, NEW letter \in Letters, NEW default \in Int
    PROVE  Word(line, letter, default) \in Int
<1>1. IsLine(line)
  BY ScannerAssumption DEF ScannerAssumption
<1> QED BY <1>1 DEF IsLine, Word, Has

LEMMA LineText ==
    ASSUME NEW line \in Lines PROVE line.text \in Texts
BY DEF Texts

\* What a stage leaves of the two checks, and what a line makes of the mode.
SameChecks(r, s) ==
    r.extrusionMode = s.extrusionMode /\ r.alreadyProcessed = s.alreadyProcessed

ModeBehind(s, line) ==
    IF s.extrusionMode = "Unknown" /\ line.kind \in {"M82", "M83"}
    THEN IF line.kind = "M83" THEN "Relative" ELSE "Absolute"
    ELSE s.extrusionMode

\* The stages that the body does not depend on leave its fields alone.
LEMMA ReadModeKeeps ==
    ASSUME NEW s \in ScanResult, NEW line \in Lines, NEW r, r = ReadMode(s, line)
    PROVE  /\ r \in ScanResult
           /\ r.extrusionMode = ModeBehind(s, line) /\ r.alreadyProcessed = s.alreadyProcessed
           /\ r.bodyFirstLine = s.bodyFirstLine /\ r.bodyLastLine = s.bodyLastLine
           /\ r.layers = s.layers /\ r.bodyFilament = s.bodyFilament
BY DEF ReadMode, ScanResult, ModeBehind

LEMMA ReadStampKeeps ==
    ASSUME NEW s \in ScanResult, NEW line \in Lines, NEW r, r = ReadStamp(s, line)
    PROVE  /\ r \in ScanResult
           /\ r.extrusionMode = s.extrusionMode
           /\ r.alreadyProcessed = (s.alreadyProcessed \/ line.kind = "stamp")
           /\ r.bodyFirstLine = s.bodyFirstLine /\ r.bodyLastLine = s.bodyLastLine
           /\ r.layers = s.layers /\ r.bodyFilament = s.bodyFilament
BY DEF ReadStamp, ScanResult

LEMMA ReadIdentityKeeps ==
    ASSUME NEW s \in ScanResult, NEW line \in Lines, NEW r, r = ReadIdentity(s, line)
    PROVE  /\ r \in ScanResult /\ SameChecks(r, s)
           /\ r.bodyFirstLine = s.bodyFirstLine /\ r.bodyLastLine = s.bodyLastLine
           /\ r.layers = s.layers /\ r.bodyFilament = s.bodyFilament
BY LineText DEF ReadIdentity, ScanResult, SameChecks

LEMMA ReadEstimateKeeps ==
    ASSUME NEW s \in ScanResult, NEW line \in Lines, NEW r, r = ReadEstimate(s, line)
    PROVE  /\ r \in ScanResult /\ SameChecks(r, s)
           /\ r.bodyFirstLine = s.bodyFirstLine /\ r.bodyLastLine = s.bodyLastLine
           /\ r.layers = s.layers /\ r.bodyFilament = s.bodyFilament
<1>1. Word(line, "V", 0) \in Int
  BY LineValues DEF Letters
<1> QED BY <1>1 DEF ReadEstimate, ScanResult, SameChecks

LEMMA OpenBodyFacts ==
    ASSUME NEW s \in ScanResult, NEW line \in Lines, NEW n \in Nat, NEW r,
           r = OpenBody(s, n, line)
    PROVE  /\ r \in ScanResult /\ SameChecks(r, s)
           /\ r.bodyFirstLine = (IF s.bodyFirstLine = 0 /\ IsLayerMarker(line)
                                 THEN n ELSE s.bodyFirstLine)
           /\ r.bodyLastLine = s.bodyLastLine
           /\ r.layers = s.layers /\ r.bodyFilament = s.bodyFilament
BY DEF OpenBody, ScanResult, SameChecks

LEMMA TrackBodyFacts ==
    ASSUME NEW s \in ScanResult, NEW line \in Lines, NEW n \in Nat, NEW r,
           r = TrackBody(s, n, line)
    PROVE  /\ r \in ScanResult /\ SameChecks(r, s)
           /\ r.bodyFirstLine = s.bodyFirstLine /\ r.bodyLastLine = s.bodyLastLine
           /\ r.layers = (IF InOpenBody(s) /\ IsLayerMarker(line)
                          THEN Append(s.layers, NewMark(s, n, line)) ELSE s.layers)
           /\ r.bodyFilament = s.bodyFilament
                  + (IF InOpenBody(s) THEN FilamentIn(line) ELSE 0)
<1>1. Word(line, "E", 0) \in Int /\ Word(line, "V", 0) \in Int
  BY LineValues DEF Letters
<1>2. NewMark(s, n, line) \in LayerMark
  BY <1>1 DEF NewMark, LayerMark, ScanResult
<1>3. IsLayerMarker(line) => ~IsExtrudingMove(line)
  BY DEF IsLayerMarker, IsExtrudingMove, IsMove
<1>4. CASE ~InOpenBody(s)
  BY <1>4 DEF TrackBody, ScanResult, SameChecks
<1>5. CASE InOpenBody(s) /\ IsLayerMarker(line)
  <2>1. Append(s.layers, NewMark(s, n, line)) \in Seq(LayerMark)
    BY <1>2 DEF ScanResult
  <2> DEFINE grown == Append(s.layers, NewMark(s, n, line))
  <2>2. r = [s EXCEPT !.layers = grown]
    BY <1>5 DEF TrackBody
  <2>3. FilamentIn(line) = 0
    BY <1>3, <1>5 DEF FilamentIn
  <2> HIDE DEF grown
  <2>4. /\ r \in ScanResult /\ SameChecks(r, s)
        /\ r.bodyFirstLine = s.bodyFirstLine /\ r.bodyLastLine = s.bodyLastLine
        /\ r.layers = grown /\ r.bodyFilament = s.bodyFilament
        /\ s.bodyFilament \in Int
    BY <2>1, <2>2 DEF ScanResult, grown, SameChecks
  <2> QED BY <1>5, <2>3, <2>4 DEF grown
<1>6. CASE InOpenBody(s) /\ ~IsLayerMarker(line)
  <2> DEFINE laid == s.bodyFilament + FilamentIn(line)
  <2>1. FilamentIn(line) \in Int /\ s.bodyFilament \in Int
    BY <1>1 DEF FilamentIn, ScanResult
  <2>2. r = [s EXCEPT !.bodyFilament = laid]
    BY <1>6, <2>1 DEF TrackBody, FilamentIn, ScanResult
  <2>3. laid \in Int
    BY <2>1
  <2> HIDE DEF laid
  <2>4. /\ r \in ScanResult /\ SameChecks(r, s)
        /\ r.bodyFirstLine = s.bodyFirstLine /\ r.bodyLastLine = s.bodyLastLine
        /\ r.layers = s.layers /\ r.bodyFilament = laid
    BY <2>2, <2>3 DEF ScanResult, SameChecks
  <2> QED BY <1>6, <2>4 DEF laid
<1> QED BY <1>4, <1>5, <1>6

LEMMA CloseBodyFacts ==
    ASSUME NEW s \in ScanResult, NEW line \in Lines, NEW n \in Nat \ {0}, NEW r,
           r = CloseBody(s, n, line)
    PROVE  /\ r \in ScanResult /\ SameChecks(r, s)
           /\ r.bodyFirstLine = s.bodyFirstLine
           /\ r.bodyLastLine = (IF InOpenBody(s) /\ IsEndMarker(line)
                                THEN n - 1 ELSE s.bodyLastLine)
           /\ r.layers = s.layers /\ r.bodyFilament = s.bodyFilament
BY DEF CloseBody, ScanResult, SameChecks

-----------------------------------------------------------------------------
(***************************************************************************)
(* The whole loop body, by what it does to the body's bounds.               *)
(***************************************************************************)

ScanLineEffect(s, n, line, r) ==
    /\ ScanOK(r, n + 1)
    /\ r.bodyFilament = s.bodyFilament
           + (IF Within(r, n + 1) THEN FilamentIn(line) ELSE 0)
    /\ r.extrusionMode = ModeBehind(s, line)
    /\ r.alreadyProcessed = (s.alreadyProcessed \/ line.kind = "stamp")
    /\ r.bodyFirstLine = (IF s.bodyFirstLine = 0 /\ IsLayerMarker(line)
                          THEN n + 1 ELSE s.bodyFirstLine)
    /\ r.bodyLastLine = (IF InOpenBody(s) /\ IsEndMarker(line) THEN n ELSE s.bodyLastLine)
    /\ \/ /\ ~(IsLayerMarker(line) /\ Within(r, n + 1))
          /\ r.layers = s.layers
       \/ /\ IsLayerMarker(line) /\ Within(r, n + 1) /\ r.bodyLastLine = 0
          /\ \E mark \in LayerMark :
                /\ mark.line = n + 1 /\ mark.usedFilament = s.bodyFilament
                /\ r.layers = Append(s.layers, mark)
    /\ \A m \in 1 .. n : Within(r, m) <=> Within(s, m)
    /\ s.bodyLastLine # 0 =>
           /\ r.bodyFirstLine = s.bodyFirstLine /\ r.bodyLastLine = s.bodyLastLine
           /\ r.layers = s.layers /\ r.bodyFilament = s.bodyFilament

LEMMA ScanLineFacts ==
    ASSUME NEW s, NEW n \in Nat, ScanOK(s, n), NEW line \in Lines,
           NEW r, r = ScanLine(s, n + 1, line)
    PROVE  ScanLineEffect(s, n, line, r)
<1> DEFINE a == ReadMode(s, line)
           b == ReadStamp(a, line)
           c == OpenBody(b, n + 1, line)
           d == TrackBody(c, n + 1, line)
           e == CloseBody(d, n + 1, line)
           f == ReadIdentity(e, line)
           g == ReadEstimate(f, line)
<1>0. n + 1 \in Nat \ {0} /\ n + 1 \in Nat
  OBVIOUS
<1>1. s \in ScanResult
  BY DEF ScanOK
<1>2. /\ b \in ScanResult
      /\ b.extrusionMode = ModeBehind(s, line)
      /\ b.alreadyProcessed = (s.alreadyProcessed \/ line.kind = "stamp")
      /\ b.bodyFirstLine = s.bodyFirstLine
      /\ b.bodyLastLine = s.bodyLastLine
      /\ b.layers = s.layers /\ b.bodyFilament = s.bodyFilament
  <2> HIDE DEF a, b
  <2>1. a = ReadMode(s, line) /\ b = ReadStamp(a, line)
    BY DEF a, b
  <2> QED BY <1>1, <2>1, ReadModeKeeps, ReadStampKeeps
<1>3. /\ c \in ScanResult /\ SameChecks(c, b)
      /\ c.bodyFirstLine = (IF s.bodyFirstLine = 0 /\ IsLayerMarker(line)
                            THEN n + 1 ELSE s.bodyFirstLine)
      /\ c.bodyLastLine = s.bodyLastLine
      /\ c.layers = s.layers /\ c.bodyFilament = s.bodyFilament
  <2> HIDE DEF b, c
  <2>1. c = OpenBody(b, n + 1, line)
    BY DEF c
  <2> QED BY <1>0, <1>2, <2>1, OpenBodyFacts
<1>4. /\ d \in ScanResult /\ SameChecks(d, c)
      /\ d.bodyFirstLine = c.bodyFirstLine /\ d.bodyLastLine = c.bodyLastLine
      /\ d.layers = (IF InOpenBody(c) /\ IsLayerMarker(line)
                     THEN Append(c.layers, NewMark(c, n + 1, line)) ELSE c.layers)
      /\ d.bodyFilament = c.bodyFilament
             + (IF InOpenBody(c) THEN FilamentIn(line) ELSE 0)
  <2> HIDE DEF c, d
  <2>1. d = TrackBody(c, n + 1, line)
    BY DEF d
  <2> QED BY <1>0, <1>3, <2>1, TrackBodyFacts
<1>5. /\ e \in ScanResult /\ SameChecks(e, d)
      /\ e.bodyFirstLine = d.bodyFirstLine
      /\ e.bodyLastLine = (IF InOpenBody(d) /\ IsEndMarker(line)
                           THEN n ELSE d.bodyLastLine)
      /\ e.layers = d.layers /\ e.bodyFilament = d.bodyFilament
  <2> HIDE DEF d, e
  <2>1. e = CloseBody(d, n + 1, line) /\ (n + 1) - 1 = n
    BY DEF e
  <2> QED BY <1>0, <1>4, <2>1, CloseBodyFacts
<1>6. /\ r \in ScanResult /\ SameChecks(r, e)
      /\ r.bodyFirstLine = e.bodyFirstLine
      /\ r.bodyLastLine = e.bodyLastLine
      /\ r.layers = e.layers /\ r.bodyFilament = e.bodyFilament
  <2>1. r = ReadEstimate(ReadIdentity(e, line), line)
    BY DEF ScanLine
  <2> HIDE DEF e
  <2> QED BY <1>5, <2>1, ReadIdentityKeeps, ReadEstimateKeeps DEF SameChecks
<1> HIDE DEF a, b, c, d, e, f, g
<1>7. InOpenBody(d) <=> InOpenBody(c)
  BY <1>4 DEF InOpenBody
<1>8. IsEndMarker(line) => ~IsLayerMarker(line) /\ FilamentIn(line) = 0
  BY DEF IsEndMarker, IsLayerMarker, FilamentIn, IsExtrudingMove, IsMove
<1>9. /\ s.bodyFirstLine \in Nat /\ s.bodyLastLine \in Nat /\ s.bodyFilament \in Int
      /\ s.layers \in Seq(LayerMark)
  BY <1>1 DEF ScanResult
<1>10. IsLayerMarker(line) => FilamentIn(line) = 0
  BY DEF IsLayerMarker, FilamentIn, IsExtrudingMove, IsMove
<1>11. FilamentIn(line) \in Int
  BY LineValues DEF FilamentIn, Letters
<1>12. ScanOK(r, n + 1)
  BY <1>3, <1>4, <1>5, <1>6, <1>7, <1>8, <1>9 DEF ScanOK, InOpenBody
<1>13. r.bodyFilament = s.bodyFilament
           + (IF Within(r, n + 1) THEN FilamentIn(line) ELSE 0)
  <2>1. CASE InOpenBody(c) /\ ~IsEndMarker(line)
    BY <1>3, <1>4, <1>5, <1>6, <1>7, <1>9, <1>11, <2>1 DEF Within, InOpenBody, ScanOK
  <2>2. CASE InOpenBody(c) /\ IsEndMarker(line)
    BY <1>3, <1>4, <1>5, <1>6, <1>8, <1>9, <2>2
  <2>3. CASE ~InOpenBody(c)
    <3>1. r.bodyFilament = s.bodyFilament
      BY <1>3, <1>4, <1>5, <1>6, <1>9, <2>3
    <3>2. ~Within(r, n + 1)
      BY <1>3, <1>4, <1>5, <1>6, <1>7, <1>9, <2>3 DEF Within, InOpenBody, ScanOK
    <3> QED BY <1>9, <3>1, <3>2
  <2> QED BY <2>1, <2>2, <2>3
<1>14. \/ /\ ~(IsLayerMarker(line) /\ Within(r, n + 1))
          /\ r.layers = s.layers
       \/ /\ IsLayerMarker(line) /\ Within(r, n + 1) /\ r.bodyLastLine = 0
          /\ \E mark \in LayerMark :
                /\ mark.line = n + 1 /\ mark.usedFilament = s.bodyFilament
                /\ r.layers = Append(s.layers, mark)
  <2>1. CASE InOpenBody(c) /\ IsLayerMarker(line)
    <3> DEFINE mark == NewMark(c, n + 1, line)
    <3>1. Word(line, "V", 0) \in Int
      BY LineValues DEF Letters
    <3>2. mark \in LayerMark /\ mark.line = n + 1 /\ mark.usedFilament = s.bodyFilament
      BY <1>3, <1>9, <3>1 DEF NewMark, LayerMark
    <3> HIDE DEF mark
    <3>3. r.layers = Append(s.layers, mark)
      BY <1>3, <1>4, <1>5, <1>6, <2>1 DEF mark
    <3>4. r.bodyLastLine = 0 /\ Within(r, n + 1)
      BY <1>3, <1>4, <1>5, <1>6, <1>7, <1>8, <1>9, <2>1 DEF InOpenBody, Within, ScanOK
    <3> QED BY <2>1, <3>2, <3>3, <3>4
  <2>2. CASE ~(InOpenBody(c) /\ IsLayerMarker(line))
    <3>1. r.layers = s.layers
      BY <1>3, <1>4, <1>5, <1>6, <2>2
    <3>2. ~(IsLayerMarker(line) /\ Within(r, n + 1))
      BY <1>3, <1>4, <1>5, <1>6, <1>7, <1>8, <1>9, <2>2 DEF InOpenBody, Within, ScanOK
    <3> QED BY <3>1, <3>2
  <2> QED BY <2>1, <2>2
<1>15. ASSUME NEW m \in 1 .. n PROVE Within(r, m) <=> Within(s, m)
  BY <1>3, <1>4, <1>5, <1>6, <1>7, <1>9 DEF Within, InOpenBody, ScanOK
<1>16. s.bodyLastLine # 0 =>
           /\ r.bodyFirstLine = s.bodyFirstLine /\ r.bodyLastLine = s.bodyLastLine
           /\ r.layers = s.layers /\ r.bodyFilament = s.bodyFilament
  BY <1>3, <1>4, <1>5, <1>6, <1>7, <1>9 DEF InOpenBody, ScanOK
<1>17. /\ r.extrusionMode = ModeBehind(s, line)
       /\ r.alreadyProcessed = (s.alreadyProcessed \/ line.kind = "stamp")
  BY <1>2, <1>3, <1>4, <1>5, <1>6 DEF SameChecks
<1>18. r.bodyFirstLine = (IF s.bodyFirstLine = 0 /\ IsLayerMarker(line)
                          THEN n + 1 ELSE s.bodyFirstLine)
  BY <1>3, <1>4, <1>5, <1>6
<1>19. r.bodyLastLine = (IF InOpenBody(s) /\ IsEndMarker(line) THEN n ELSE s.bodyLastLine)
  BY <1>3, <1>4, <1>5, <1>6, <1>7, <1>8 DEF InOpenBody
<1> QED BY <1>12, <1>13, <1>14, <1>15, <1>16, <1>17, <1>18, <1>19 DEF ScanLineEffect

-----------------------------------------------------------------------------
(***************************************************************************)
(* The invariant.                                                          *)
(***************************************************************************)

LEMMA ScannerInvInit == ScannerInit => ScannerInv
<1> SUFFICES ASSUME ScannerInit PROVE ScannerInv
  OBVIOUS
<1>1. scan = EmptyScan /\ file = <<>> /\ trail = <<>> /\ errors = {} /\ scanning = TRUE
  BY DEF ScannerInit
<1>2. EmptyScan \in ScanResult
  <2>1. <<>> \in Seq(LayerMark)
    OBVIOUS
  <2>2. "" \in Texts
    BY DEF Texts
  <2> DEFINE none == [id \in Identities |-> ""]
  <2>3. none \in [Identities -> Texts]
    BY <2>2
  <2> HIDE DEF none
  <2>4. EmptyScan =
            [extrusionMode |-> "Unknown", alreadyProcessed |-> FALSE,
             bodyFirstLine |-> 0, bodyLastLine |-> 0, ids |-> none,
             slicerEstimatedTime |-> 0, totalLines |-> 0,
             layers |-> <<>>, bodyFilament |-> 0]
    BY DEF EmptyScan, none
  <2> HIDE DEF EmptyScan
  <2> QED BY <2>1, <2>3, <2>4 DEF ScanResult
<1>3. /\ Len(file) = 0 /\ Len(trail) = 0
      /\ file \in Seq(Lines) /\ trail \in Seq(Int)
  BY <1>1
<1>4. /\ scan.bodyFirstLine = 0 /\ scan.bodyLastLine = 0 /\ scan.bodyFilament = 0
      /\ scan.layers = <<>>
  BY <1>1 DEF EmptyScan
<1>5. scanning \in BOOLEAN
  BY <1>1
<1>6. ScannerTypeOK
  BY <1>1, <1>2, <1>3, <1>4, <1>5 DEF ScannerTypeOK
<1>7. ScanOK(scan, Len(file))
  BY <1>1, <1>2, <1>3, <1>4 DEF ScanOK
<1>8. MarksFollowTheTrail
  BY <1>4 DEF MarksFollowTheTrail
<1>9. TrailSums /\ Counted(Len(file)) = scan.bodyFilament
  BY <1>3, <1>4 DEF TrailSums, Counted
<1> QED BY <1>1, <1>6, <1>7, <1>8, <1>9 DEF ScannerInv

LEMMA ScannerInvRead ==
    ASSUME ScannerInv, NEW line \in Lines, ReadLine(line)
    PROVE  ScannerInv'
<1> DEFINE n == Len(file)
<1>1. /\ scanning' /\ errors' = errors /\ file' = Append(file, line)
      /\ scan' = ScanLine(scan, n + 1, line)
      /\ trail' = Append(trail, scan'.bodyFilament)
  BY DEF ReadLine, ScannerInv, ScannerTypeOK
<1>2. /\ n \in Nat /\ Len(trail) = n /\ trail \in Seq(Int) /\ file \in Seq(Lines)
      /\ ScanOK(scan, n) /\ scan.layers \in Seq(LayerMark)
  BY DEF ScannerInv, ScannerTypeOK, ScanResult
<1>3. /\ Len(file') = n + 1 /\ Len(trail') = n + 1
      /\ file' \in Seq(Lines)
      /\ \A m \in 1 .. n : file'[m] = file[m] /\ trail'[m] = trail[m]
      /\ file'[n + 1] = line /\ trail'[n + 1] = scan'.bodyFilament
      /\ DOMAIN trail = 1 .. n /\ DOMAIN trail' = 1 .. (n + 1)
  BY <1>1, <1>2
<1> HIDE DEF n
<1>4. /\ ScanOK(scan', n + 1)
      /\ scan'.bodyFilament = scan.bodyFilament
             + (IF Within(scan', n + 1) THEN FilamentIn(line) ELSE 0)
      /\ \/ scan'.layers = scan.layers
         \/ /\ IsLayerMarker(line) /\ scan'.bodyLastLine = 0
            /\ \E mark \in LayerMark :
                  /\ mark.line = n + 1 /\ mark.usedFilament = scan.bodyFilament
                  /\ scan'.layers = Append(scan.layers, mark)
      /\ \A m \in 1 .. n : Within(scan', m) <=> Within(scan, m)
  <2>1. scan' = ScanLine(scan, n + 1, line)
    BY <1>1
  <2>2. n \in Nat /\ ScanOK(scan, n)
    BY <1>2
  <2>3. ScanLineEffect(scan, n, line, scan')
    BY <2>1, <2>2, ScanLineFacts
  <2> QED BY <2>3 DEF ScanLineEffect
<1>5. /\ scan' \in ScanResult /\ scan'.bodyFilament \in Int
      /\ scan'.bodyFirstLine <= n + 1 /\ scan'.bodyLastLine <= n + 1
  BY <1>4 DEF ScanOK, ScanResult
<1>6. trail' \in Seq(Int)
  BY <1>1, <1>2, <1>5
<1>7. ScannerTypeOK'
  BY <1>1, <1>3, <1>5, <1>6 DEF ScannerInv, ScannerTypeOK
<1>8. Counted(Len(file))' = scan'.bodyFilament
  BY <1>2, <1>3 DEF Counted
<1>9. Counted(n) = scan.bodyFilament
  BY DEF ScannerInv, n
<1>10. MarksFollowTheTrail'
  <2>1. \A k \in DOMAIN scan.layers :
            /\ scan.layers[k].line \in 1 .. n
            /\ scan.layers[k].usedFilament = trail[scan.layers[k].line]
    BY <1>3 DEF ScannerInv, MarksFollowTheTrail
  <2>2. CASE scan'.layers = scan.layers
    BY <1>2, <1>3, <2>1, <2>2 DEF MarksFollowTheTrail
  <2>3. ASSUME NEW mark \in LayerMark, mark.line = n + 1,
               mark.usedFilament = scan.bodyFilament,
               scan'.layers = Append(scan.layers, mark), IsLayerMarker(line)
        PROVE  MarksFollowTheTrail'
    <3>1. FilamentIn(line) = 0
      BY <2>3 DEF IsLayerMarker, FilamentIn, IsExtrudingMove, IsMove
    <3>2. scan.bodyFilament \in Int
      BY DEF ScannerInv, ScannerTypeOK, ScanResult
    <3>3. mark.usedFilament = trail'[n + 1]
      BY <1>3, <1>4, <2>3, <3>1, <3>2
    <3> DEFINE m == Len(scan.layers)
    <3>4. /\ m \in Nat /\ DOMAIN scan.layers = 1 .. m
          /\ DOMAIN scan'.layers = 1 .. (m + 1)
          /\ \A k \in 1 .. m : scan'.layers[k] = scan.layers[k]
          /\ scan'.layers[m + 1] = mark
      BY <1>2, <2>3
    <3> HIDE DEF m
    <3>5. ASSUME NEW k \in DOMAIN scan'.layers
          PROVE  /\ scan'.layers[k].line \in DOMAIN trail'
                 /\ scan'.layers[k].usedFilament = trail'[scan'.layers[k].line]
      <4>1. CASE k \in 1 .. m
        <5>1. scan'.layers[k] = scan.layers[k] /\ k \in DOMAIN scan.layers
          BY <3>4, <4>1
        <5>2. /\ scan.layers[k].line \in 1 .. n
              /\ scan.layers[k].usedFilament = trail[scan.layers[k].line]
          BY <2>1, <5>1
        <5> QED BY <1>2, <1>3, <5>1, <5>2
      <4>2. CASE k = m + 1
        BY <1>2, <1>3, <2>3, <3>3, <3>4, <4>2
      <4> QED BY <3>4, <4>1, <4>2
    <3> QED BY <3>5 DEF MarksFollowTheTrail
  <2> QED BY <1>4, <2>2, <2>3
<1>11. TrailSums'
  <2>1. ASSUME NEW m \in 1 .. (n + 1)
        PROVE  trail'[m] = Counted(m - 1)'
                   + (IF Within(scan', m) THEN FilamentIn(file'[m]) ELSE 0)
    <3>1. CASE m \in 1 .. n
      <4>1. trail[m] = Counted(m - 1)
                + (IF Within(scan, m) THEN FilamentIn(file[m]) ELSE 0)
        BY <3>1 DEF ScannerInv, TrailSums, n
      <4>2. Counted(m - 1)' = Counted(m - 1)
        BY <1>2, <1>3, <3>1 DEF Counted
      <4> QED BY <1>3, <1>4, <3>1, <4>1, <4>2
    <3>2. CASE m = n + 1
      <4>1. Counted(m - 1)' = Counted(n)
        BY <1>2, <1>3, <3>2 DEF Counted
      <4> QED BY <1>3, <1>4, <1>9, <3>2, <4>1
    <3> QED BY <1>2, <3>1, <3>2
  <2> QED BY <1>3, <2>1 DEF TrailSums
<1> QED BY <1>1, <1>3, <1>4, <1>7, <1>8, <1>10, <1>11 DEF ScannerInv

LEMMA ScannerInvFinish ==
    ASSUME ScannerInv, FinishScan
    PROVE  ScannerInv'
<1>1. /\ scan' = [scan EXCEPT !.totalLines = Len(file)]
      /\ errors' = Diagnose(scan, Len(file)) /\ ~scanning'
      /\ file' = file /\ trail' = trail
  BY DEF FinishScan, ScannerInv, ScannerTypeOK
<1>2. /\ Len(file) \in Nat /\ scan \in ScanResult
  BY DEF ScannerInv, ScannerTypeOK
<1>3. /\ scan' \in ScanResult /\ scan'.totalLines = Len(file)
      /\ scan'.bodyFirstLine = scan.bodyFirstLine
      /\ scan'.bodyLastLine = scan.bodyLastLine
      /\ scan'.layers = scan.layers /\ scan'.bodyFilament = scan.bodyFilament
  BY <1>1, <1>2 DEF ScanResult
<1>4. errors' \subseteq {"FileEmpty", "AlreadyProcessed", "PrintBodyNotFound",
                         "AbsoluteExtrusionUnsupported", "ExtrusionModeUnknown"}
  BY <1>1 DEF Diagnose
<1>5. errors' = {} => HasPrintBody(scan)
  BY <1>1 DEF Diagnose
<1>6. ScannerTypeOK'
  BY <1>1, <1>3, <1>4 DEF ScannerInv, ScannerTypeOK, FinishScan
<1>7. ScanOK(scan', Len(file'))
  BY <1>1, <1>3 DEF ScannerInv, ScanOK
<1>8. Counted(Len(file))' = scan'.bodyFilament
  BY <1>1, <1>3 DEF ScannerInv, Counted
<1>9. MarksFollowTheTrail'
  BY <1>1, <1>3 DEF ScannerInv, MarksFollowTheTrail
<1>10. TrailSums'
  BY <1>1, <1>3 DEF ScannerInv, TrailSums, Counted, Within
<1>11. errors' = {} => HasPrintBody(scan')
  BY <1>3, <1>5 DEF HasPrintBody
<1> QED BY <1>1, <1>3, <1>6, <1>7, <1>8, <1>9, <1>10, <1>11 DEF ScannerInv

LEMMA ScannerInvStep ==
    ASSUME ScannerInv, [ScannerNext]_scannerVars
    PROVE  ScannerInv'
<1>1. CASE UNCHANGED scannerVars
  BY <1>1 DEF scannerVars, ScannerInv, ScannerTypeOK, MarksFollowTheTrail, TrailSums,
     Counted
<1> QED BY <1>1, ScannerInvRead, ScannerInvFinish DEF ScannerNext

LEMMA ScannerInvAlways == ScannerSpec => []ScannerInv
BY ScannerInvInit, ScannerInvStep, PTL DEF ScannerSpec

\* Every field of the result keeps its type and every bound stays inside the file,
\* for files of any length.
THEOREM ScannerTypeCorrect == ScannerSpec => []ScannerTypeOK
<1>1. ScannerInv => ScannerTypeOK
  BY DEF ScannerInv
<1> QED BY <1>1, ScannerInvAlways, PTL

\* Every layer mark holds the filament that had been counted at its marker.
THEOREM ScannerMarksFollow == ScannerSpec => []MarksFollowTheTrail
<1>1. ScannerInv => MarksFollowTheTrail
  BY DEF ScannerInv
<1> QED BY <1>1, ScannerInvAlways, PTL

\* Nothing behind the end marker reopens the body or is counted to it: the start
\* of a second object or the purge of the end macro cannot disturb the first body.
THEOREM ScannerClosesForGood == ScannerSpec => ClosedBodyIsFinal
<1> DEFINE Kept == UNCHANGED <<scan.bodyFirstLine, scan.bodyLastLine,
                               scan.layers, scan.bodyFilament>>
<1>1. ASSUME ScannerInv, [ScannerNext]_scannerVars, scan.bodyLastLine # 0
      PROVE  Kept
  <2>1. ASSUME NEW line \in Lines, ReadLine(line) PROVE Kept
    <3>1. scan' = ScanLine(scan, Len(file) + 1, line)
      BY <2>1 DEF ReadLine
    <3>2. ScanOK(scan, Len(file)) /\ Len(file) \in Nat
      BY <1>1 DEF ScannerInv, ScannerTypeOK
    <3>3. ScanLineEffect(scan, Len(file), line, scan')
      BY <3>1, <3>2, ScanLineFacts
    <3> QED BY <1>1, <3>3 DEF ScanLineEffect
  <2>2. CASE FinishScan
    BY <1>1, <2>2 DEF FinishScan, ScannerInv, ScannerTypeOK, ScanResult
  <2>3. CASE UNCHANGED scannerVars
    BY <2>3 DEF scannerVars
  <2> QED BY <1>1, <2>1, <2>2, <2>3 DEF ScannerNext
<1>2. ScannerInv /\ [ScannerNext]_scannerVars
          => [scan.bodyLastLine # 0 => Kept]_scannerVars
  BY <1>1
<1> QED BY <1>2, ScannerInvAlways, PTL DEF ScannerSpec, ClosedBodyIsFinal

-----------------------------------------------------------------------------
(***************************************************************************)
(* What the pass has found, as a property of the file.                      *)
(***************************************************************************)

LEMMA BodyInvInit == ScannerInit => BodyInv
<1> SUFFICES ASSUME ScannerInit PROVE BodyInv
  OBVIOUS
<1>1. /\ file = <<>> /\ scanning = TRUE /\ scan = EmptyScan
      /\ Len(file) = 0 /\ 1 .. Len(file) = {}
  BY DEF ScannerInit
<1>2. /\ scan.bodyFirstLine = 0 /\ scan.bodyLastLine = 0 /\ scan.layers = <<>>
      /\ scan.extrusionMode = "Unknown"
  BY <1>1 DEF EmptyScan
<1> QED BY <1>1, <1>2 DEF BodyInv, BodyOpensOK, BodyClosesOK, LayersOK, ModeOK, StampOK,
        ResultOK

LEMMA BodyInvRead ==
    ASSUME ScannerInv, BodyInv, NEW line \in Lines, ReadLine(line)
    PROVE  BodyInv'
<1> DEFINE n == Len(file)
<1>1. /\ scanning' /\ file' = Append(file, line)
      /\ scan' = ScanLine(scan, n + 1, line)
  BY DEF ReadLine, ScannerInv, ScannerTypeOK
<1>2. /\ n \in Nat /\ file \in Seq(Lines) /\ ScanOK(scan, n)
      /\ scan.layers \in Seq(LayerMark)
      /\ scan.bodyFirstLine \in Nat /\ scan.bodyLastLine \in Nat
      /\ scan.extrusionMode \in {"Unknown", "Relative", "Absolute"}
      /\ scan.alreadyProcessed \in BOOLEAN
  BY DEF ScannerInv, ScannerTypeOK, ScanResult
<1>3. /\ Len(file') = n + 1 /\ file'[n + 1] = line
      /\ \A m \in 1 .. n : file'[m] = file[m]
  BY <1>1, <1>2
<1> HIDE DEF n
<1>4. ScanLineEffect(scan, n, line, scan')
  BY <1>1, <1>2, ScanLineFacts
<1>5. /\ scan'.bodyFirstLine = (IF scan.bodyFirstLine = 0 /\ IsLayerMarker(line)
                                THEN n + 1 ELSE scan.bodyFirstLine)
      /\ scan'.bodyLastLine = (IF InOpenBody(scan) /\ IsEndMarker(line)
                               THEN n ELSE scan.bodyLastLine)
      /\ \A m \in 1 .. n : Within(scan', m) <=> Within(scan, m)
      /\ scan'.extrusionMode = ModeBehind(scan, line)
      /\ scan'.alreadyProcessed = (scan.alreadyProcessed \/ line.kind = "stamp")
  BY <1>4 DEF ScanLineEffect
<1>6. IsEndMarker(line) => ~IsLayerMarker(line)
  BY DEF IsEndMarker, IsLayerMarker
<1>7. BodyOpensOK'
  <2>1. CASE scan.bodyFirstLine # 0
    <3>1. scan'.bodyFirstLine = scan.bodyFirstLine
      BY <1>5, <2>1
    <3>2. scan.bodyFirstLine \in 1 .. n
      BY <1>2, <2>1 DEF ScanOK
    <3>3. /\ IsLayerMarker(file[scan.bodyFirstLine])
          /\ \A m \in 1 .. (scan.bodyFirstLine - 1) : ~IsLayerMarker(file[m])
      BY <2>1 DEF BodyInv, BodyOpensOK
    <3>4. \A m \in 1 .. (scan.bodyFirstLine - 1) : m \in 1 .. n
      BY <1>2, <3>2
    <3> QED BY <1>3, <2>1, <3>1, <3>2, <3>3, <3>4 DEF BodyOpensOK
  <2>2. CASE scan.bodyFirstLine = 0
    <3>1. \A m \in 1 .. n : ~IsLayerMarker(file'[m])
      BY <1>3, <2>2 DEF BodyInv, BodyOpensOK, n
    <3>2. CASE IsLayerMarker(line)
      BY <1>2, <1>3, <1>5, <2>2, <3>1, <3>2 DEF BodyOpensOK
    <3>3. CASE ~IsLayerMarker(line)
      <4>1. \A m \in 1 .. (n + 1) : ~IsLayerMarker(file'[m])
        BY <1>2, <1>3, <3>1, <3>3
      <4> QED BY <1>3, <1>5, <2>2, <3>3, <4>1 DEF BodyOpensOK
    <3> QED BY <3>2, <3>3
  <2> QED BY <2>1, <2>2
<1>8. BodyClosesOK'
  <2>1. ASSUME NEW m \in 1 .. (n + 1), Within(scan', m) PROVE ~IsEndMarker(file'[m])
    <3>1. CASE m \in 1 .. n
      BY <1>3, <1>5, <2>1, <3>1 DEF BodyInv, BodyClosesOK, n
    <3>2. CASE m = n + 1
      BY <1>2, <1>3, <1>5, <1>6, <2>1, <3>2 DEF Within, InOpenBody, ScanOK
    <3> QED BY <1>2, <3>1, <3>2
  <2>2. ASSUME scan'.bodyLastLine # 0
        PROVE  scan'.bodyLastLine + 1 <= n + 1 /\ IsEndMarker(file'[scan'.bodyLastLine + 1])
    <3>1. CASE InOpenBody(scan) /\ IsEndMarker(line)
      BY <1>2, <1>3, <1>5, <3>1
    <3>2. CASE ~(InOpenBody(scan) /\ IsEndMarker(line))
      <4>1. scan'.bodyLastLine = scan.bodyLastLine
        BY <1>5, <3>2
      <4>2. /\ scan.bodyLastLine + 1 <= n
            /\ IsEndMarker(file[scan.bodyLastLine + 1])
        BY <2>2, <4>1 DEF BodyInv, BodyClosesOK, n
      <4>3. scan.bodyLastLine + 1 \in 1 .. n
        BY <1>2, <4>2
      <4> QED BY <1>2, <1>3, <4>1, <4>2, <4>3
    <3> QED BY <3>1, <3>2
  <2> QED BY <1>3, <2>1, <2>2 DEF BodyClosesOK
<1>9. LayersOK'
  <2>1. /\ \A k \in DOMAIN scan.layers :
              /\ scan.layers[k].line \in 1 .. n
              /\ Within(scan, scan.layers[k].line)
              /\ IsLayerMarker(file[scan.layers[k].line])
              /\ k > 1 => scan.layers[k - 1].line < scan.layers[k].line
        /\ \A m \in 1 .. n :
              Within(scan, m) /\ IsLayerMarker(file[m]) =>
                  \E k \in DOMAIN scan.layers : scan.layers[k].line = m
    BY DEF BodyInv, LayersOK, n
  <2>2. CASE ~(IsLayerMarker(line) /\ Within(scan', n + 1)) /\ scan'.layers = scan.layers
    <3>1. ASSUME NEW k \in DOMAIN scan'.layers
          PROVE  /\ scan'.layers[k].line \in 1 .. (n + 1)
                 /\ Within(scan', scan'.layers[k].line)
                 /\ IsLayerMarker(file'[scan'.layers[k].line])
                 /\ k > 1 => scan'.layers[k - 1].line < scan'.layers[k].line
      BY <1>2, <1>3, <1>5, <2>1, <2>2
    <3>2. ASSUME NEW m \in 1 .. (n + 1), Within(scan', m), IsLayerMarker(file'[m])
          PROVE  \E k \in DOMAIN scan'.layers : scan'.layers[k].line = m
      <4>1. m \in 1 .. n
        BY <1>2, <1>3, <2>2, <3>2
      <4> QED BY <1>3, <1>5, <2>1, <2>2, <3>2, <4>1
    <3> QED BY <1>3, <3>1, <3>2 DEF LayersOK
  <2>3. ASSUME IsLayerMarker(line), Within(scan', n + 1), NEW mark \in LayerMark,
               mark.line = n + 1, scan'.layers = Append(scan.layers, mark)
        PROVE  LayersOK'
    <3> DEFINE c == Len(scan.layers)
    <3>1. /\ c \in Nat /\ DOMAIN scan.layers = 1 .. c
          /\ DOMAIN scan'.layers = 1 .. (c + 1)
          /\ \A k \in 1 .. c : scan'.layers[k] = scan.layers[k]
          /\ scan'.layers[c + 1] = mark
      BY <1>2, <2>3
    <3> HIDE DEF c
    <3>2. ASSUME NEW k \in DOMAIN scan'.layers
          PROVE  /\ scan'.layers[k].line \in 1 .. (n + 1)
                 /\ Within(scan', scan'.layers[k].line)
                 /\ IsLayerMarker(file'[scan'.layers[k].line])
                 /\ k > 1 => scan'.layers[k - 1].line < scan'.layers[k].line
      <4>1. CASE k \in 1 .. c
        <5>1. /\ scan.layers[k].line \in 1 .. n
              /\ Within(scan, scan.layers[k].line)
              /\ IsLayerMarker(file[scan.layers[k].line])
              /\ k > 1 => scan.layers[k - 1].line < scan.layers[k].line
          BY <2>1, <3>1, <4>1
        <5>2. scan'.layers[k] = scan.layers[k]
          BY <3>1, <4>1
        <5>3. k > 1 => scan'.layers[k - 1] = scan.layers[k - 1]
          BY <3>1, <4>1
        <5> QED BY <1>2, <1>3, <1>5, <5>1, <5>2, <5>3
      <4>2. CASE k = c + 1
        <5>1. k > 1 => /\ scan'.layers[k - 1] = scan.layers[c]
                       /\ scan.layers[c].line \in 1 .. n
          BY <2>1, <3>1, <4>2
        <5> QED BY <1>2, <1>3, <2>3, <3>1, <4>2, <5>1
      <4> QED BY <3>1, <4>1, <4>2
    <3>3. ASSUME NEW m \in 1 .. (n + 1), Within(scan', m), IsLayerMarker(file'[m])
          PROVE  \E k \in DOMAIN scan'.layers : scan'.layers[k].line = m
      <4>1. CASE m = n + 1
        BY <2>3, <3>1, <4>1
      <4>2. CASE m \in 1 .. n
        <5>1. PICK k \in DOMAIN scan.layers : scan.layers[k].line = m
          BY <1>3, <1>5, <2>1, <3>3, <4>2
        <5>2. k \in DOMAIN scan'.layers /\ scan'.layers[k].line = m
          BY <3>1, <5>1
        <5> QED BY <5>2
      <4> QED BY <1>2, <4>1, <4>2
    <3> QED BY <1>3, <3>2, <3>3 DEF LayersOK
  <2> QED BY <1>4, <2>2, <2>3 DEF ScanLineEffect
<1>10. ModeOK'
  <2>1. CASE scan.extrusionMode # "Unknown"
    <3>1. scan'.extrusionMode = scan.extrusionMode
      BY <1>5, <2>1 DEF ModeBehind
    <3>2. PICK m \in 1 .. n :
              /\ IsModeLine(file[m]) /\ \A j \in 1 .. (m - 1) : ~IsModeLine(file[j])
              /\ scan.extrusionMode = "Relative" => file[m].kind = "M83"
      BY <2>1 DEF BodyInv, ModeOK, n
    <3>3. /\ m \in 1 .. (n + 1) /\ file'[m] = file[m]
          /\ \A j \in 1 .. (m - 1) : file'[j] = file[j]
      BY <1>2, <1>3
    <3>4. /\ IsModeLine(file'[m]) /\ \A j \in 1 .. (m - 1) : ~IsModeLine(file'[j])
          /\ scan'.extrusionMode = "Relative" => file'[m].kind = "M83"
      BY <3>1, <3>2, <3>3
    <3> QED BY <1>3, <2>1, <3>1, <3>3, <3>4 DEF ModeOK
  <2>2. CASE scan.extrusionMode = "Unknown"
    <3>1. \A m \in 1 .. n : ~IsModeLine(file'[m])
      BY <1>3, <2>2 DEF BodyInv, ModeOK, n
    <3>2. CASE ~IsModeLine(line)
      <4>1. scan'.extrusionMode = "Unknown"
        BY <1>5, <2>2, <3>2 DEF ModeBehind, IsModeLine
      <4>2. \A m \in 1 .. (n + 1) : ~IsModeLine(file'[m])
        BY <1>2, <1>3, <3>1, <3>2
      <4> QED BY <1>3, <4>1, <4>2 DEF ModeOK
    <3>3. CASE IsModeLine(line)
      <4>1. /\ scan'.extrusionMode # "Unknown"
            /\ scan'.extrusionMode = "Relative" => line.kind = "M83"
        BY <1>5, <2>2, <3>3 DEF ModeBehind, IsModeLine
      <4>2. n + 1 \in 1 .. (n + 1) /\ \A j \in 1 .. ((n + 1) - 1) : ~IsModeLine(file'[j])
        BY <1>2, <3>1
      <4> QED BY <1>3, <3>3, <4>1, <4>2 DEF ModeOK
    <3> QED BY <3>2, <3>3
  <2> QED BY <2>1, <2>2
<1>11. StampOK'
  <2>1. ASSUME ~scan'.alreadyProcessed, NEW m \in 1 .. (n + 1)
        PROVE  file'[m].kind # "stamp"
    <3>1. ~(scan.alreadyProcessed \/ line.kind = "stamp")
      BY <1>5, <2>1, Zenon
    <3>2. \A j \in 1 .. n : file[j].kind # "stamp"
      BY <3>1 DEF BodyInv, StampOK, n
    <3> QED BY <1>2, <1>3, <3>1, <3>2
  <2> QED BY <1>3, <2>1 DEF StampOK
<1> QED BY <1>1, <1>7, <1>8, <1>9, <1>10, <1>11 DEF BodyInv, ResultOK

LEMMA BodyInvFinish ==
    ASSUME ScannerInv, BodyInv, FinishScan
    PROVE  BodyInv'
<1>1. /\ scan' = [scan EXCEPT !.totalLines = Len(file)]
      /\ errors' = Diagnose(scan, Len(file)) /\ ~scanning' /\ file' = file
  BY DEF FinishScan, ScannerInv, ScannerTypeOK
<1>2. scan \in ScanResult
  BY DEF ScannerInv, ScannerTypeOK
<1>3. /\ scan'.bodyFirstLine = scan.bodyFirstLine
      /\ scan'.bodyLastLine = scan.bodyLastLine /\ scan'.layers = scan.layers
      /\ scan'.extrusionMode = scan.extrusionMode
      /\ scan'.alreadyProcessed = scan.alreadyProcessed
  BY <1>1, <1>2 DEF ScanResult
<1>4. ASSUME errors' = {}
      PROVE  /\ ~scan.alreadyProcessed /\ scan.extrusionMode = "Relative"
             /\ HasPrintBody(scan)
  <2>1. Diagnose(scan, Len(file)) = {}
    BY <1>1, <1>4
  <2>2. HasPrintBody(scan)
    BY <2>1 DEF Diagnose
  <2>3. ~scan.alreadyProcessed
    BY <2>1 DEF Diagnose
  <2>4. scan.extrusionMode # "Absolute" /\ scan.extrusionMode # "Unknown"
    BY <2>1 DEF Diagnose
  <2>5. scan.extrusionMode \in {"Unknown", "Relative", "Absolute"}
    BY <1>2 DEF ScanResult
  <2> QED BY <2>2, <2>3, <2>4, <2>5
<1>5. \A m \in Int : Within(scan', m) <=> Within(scan, m)
  BY <1>3 DEF Within
<1>6. Len(file) \in Nat
  BY DEF ScannerInv, ScannerTypeOK
<1>7. BodyOpensOK' /\ BodyClosesOK'
  BY <1>1, <1>3, <1>5, <1>6 DEF BodyInv, BodyOpensOK, BodyClosesOK
<1>8. LayersOK'
  BY <1>1, <1>3, <1>5, <1>6 DEF BodyInv, LayersOK
<1>9. ModeOK' /\ StampOK'
  BY <1>1, <1>3 DEF BodyInv, ModeOK, StampOK
<1>10. ResultOK'
  BY <1>3, <1>4 DEF ResultOK, HasPrintBody
<1> QED BY <1>7, <1>8, <1>9, <1>10 DEF BodyInv

LEMMA BodyInvAlways == ScannerSpec => [](ScannerInv /\ BodyInv)
<1>1. ScannerInv /\ BodyInv /\ [ScannerNext]_scannerVars => BodyInv'
  <2> SUFFICES ASSUME ScannerInv, BodyInv, [ScannerNext]_scannerVars PROVE BodyInv'
    OBVIOUS
  <2>1. CASE UNCHANGED scannerVars
    BY <2>1 DEF scannerVars, BodyInv, BodyOpensOK, BodyClosesOK, LayersOK, ModeOK,
       StampOK, ResultOK
  <2> QED BY <2>1, BodyInvRead, BodyInvFinish DEF ScannerNext
<1> QED BY <1>1, BodyInvInit, ScannerInvAlways, PTL DEF ScannerSpec

-----------------------------------------------------------------------------
(***************************************************************************)
(* The bounds of the body, named on the file as a whole.                    *)
(***************************************************************************)

\* The first line is where the pass opened the body, or behind the file.
LEMMA BodyStartIs ==
    ASSUME ScannerInv, BodyInv
    PROVE  BodyStart = (IF scan.bodyFirstLine = 0 THEN Len(file) + 1
                        ELSE scan.bodyFirstLine)
<1> DEFINE n == Len(file)
           S == {m \in DOMAIN file : IsLayerMarker(file[m])} \cup {n + 1}
<1>1. BodyStart = Min(S)
  BY DEF BodyStart, FirstLine
<1>2. n \in Nat /\ DOMAIN file = 1 .. n /\ ScanOK(scan, n) /\ scan.bodyFirstLine \in Nat
  BY DEF ScannerInv, ScannerTypeOK, ScanResult
<1>3. S \in SUBSET Int
  BY <1>2
<1>4. CASE scan.bodyFirstLine = 0
  <2>1. n + 1 \in S /\ \A y \in S : n + 1 <= y
    BY <1>2, <1>4 DEF BodyInv, BodyOpensOK
  <2> HIDE DEF S
  <2>2. Min(S) = n + 1
    BY <1>3, <2>1, MinIs
  <2> QED BY <1>1, <1>4, <2>2
<1>5. CASE scan.bodyFirstLine # 0
  <2> DEFINE first == scan.bodyFirstLine
  <2>1. /\ first \in 1 .. n /\ IsLayerMarker(file[first])
        /\ \A m \in 1 .. (first - 1) : ~IsLayerMarker(file[m])
    BY <1>2, <1>5 DEF BodyInv, BodyOpensOK, ScanOK
  <2> HIDE DEF first
  <2>2. first \in S /\ \A y \in S : first <= y
    BY <1>2, <2>1
  <2> HIDE DEF S
  <2>3. Min(S) = first
    BY <1>3, <2>2, MinIs
  <2> QED BY <1>1, <1>5, <2>3 DEF first
<1> QED BY <1>4, <1>5

\* The last one is behind the line where it closed it, or behind the file.
LEMMA BodyEndIs ==
    ASSUME ScannerInv, BodyInv
    PROVE  BodyEnd = (IF scan.bodyLastLine = 0 THEN Len(file) + 1
                      ELSE scan.bodyLastLine + 1)
<1> DEFINE n == Len(file)
           first == scan.bodyFirstLine
           last == scan.bodyLastLine
           S == {m \in BodyStart .. n : IsEndMarker(file[m])} \cup {n + 1}
<1>1. BodyEnd = Min(S)
  BY DEF BodyEnd
<1>2. /\ n \in Nat /\ ScanOK(scan, n) /\ first \in Nat /\ last \in Nat
      /\ last # 0 => 0 < first /\ first <= last
      /\ first <= n
  BY DEF ScannerInv, ScannerTypeOK, ScanResult, ScanOK
<1>3. BodyStart = IF first = 0 THEN n + 1 ELSE first
  BY BodyStartIs
<1>4. \A m \in 1 .. n : Within(scan, m) => ~IsEndMarker(file[m])
  BY DEF BodyInv, BodyClosesOK
<1>5. last # 0 => last + 1 <= n /\ IsEndMarker(file[last + 1])
  BY DEF BodyInv, BodyClosesOK
<1>6. \A m \in Int : Within(scan, m) <=> first # 0 /\ first <= m /\ (last # 0 => m <= last)
  BY DEF Within
<1> HIDE DEF n, first, last
<1>7. S \in SUBSET Int
  BY <1>2, <1>3
<1>8. CASE last = 0
  <2>1. n + 1 \in S
    OBVIOUS
  <2>2. ASSUME NEW y \in S PROVE n + 1 <= y
    BY <1>2, <1>3, <1>4, <1>6, <1>8
  <2> HIDE DEF S
  <2>3. Min(S) = n + 1
    BY <1>2, <1>7, <2>1, <2>2, MinIs
  <2> QED BY <1>1, <1>8, <2>3 DEF n, last
<1>9. CASE last # 0
  <2>1. last + 1 \in S
    BY <1>2, <1>3, <1>5, <1>9
  <2>2. ASSUME NEW y \in S PROVE last + 1 <= y
    <3>1. CASE y = n + 1
      BY <1>2, <1>5, <1>9, <3>1
    <3>2. CASE y \in first .. n /\ IsEndMarker(file[y])
      <4>1. y \in 1 .. n /\ ~Within(scan, y)
        BY <1>2, <1>4, <1>9, <3>2
      <4> QED BY <1>2, <1>6, <1>9, <3>2, <4>1
    <3> QED BY <1>2, <1>3, <1>9, <3>1, <3>2
  <2> HIDE DEF S
  <2>3. Min(S) = last + 1
    BY <1>2, <1>7, <2>1, <2>2, MinIs
  <2> QED BY <1>1, <1>9, <2>3 DEF last
<1> QED BY <1>8, <1>9

\* So the lines of the documented body are those the pass was within.
LEMMA BodyIsWithin ==
    ASSUME ScannerInv, BodyInv
    PROVE  \A m \in Int : m \in BodyStart .. (BodyEnd - 1)
                              <=> m \in 1 .. Len(file) /\ Within(scan, m)
<1>1. /\ Len(file) \in Nat /\ scan.bodyFirstLine \in Nat /\ scan.bodyLastLine \in Nat
      /\ scan.bodyFirstLine <= Len(file) /\ scan.bodyLastLine <= Len(file)
      /\ scan.bodyLastLine # 0 => 0 < scan.bodyFirstLine
  BY DEF ScannerInv, ScannerTypeOK, ScanResult, ScanOK
<1> QED BY <1>1, BodyStartIs, BodyEndIs DEF Within

\* Nothing is counted before the body opens ...
LEMMA NothingBefore ==
    ASSUME ScannerInv
    PROVE  \A m \in Nat : m <= Len(file) /\ (scan.bodyFirstLine # 0 => m < scan.bodyFirstLine)
                              => Counted(m) = 0
<1> DEFINE Before(m) == m <= Len(file) /\ (scan.bodyFirstLine # 0 => m < scan.bodyFirstLine)
           G == {m \in Nat : Before(m) => Counted(m) = 0}
<1>1. 0 \in G
  BY DEF Counted
<1>2. ASSUME NEW m \in Nat, m \in G PROVE m + 1 \in G
  <2> SUFFICES ASSUME Before(m + 1) PROVE Counted(m + 1) = 0
    OBVIOUS
  <2>1. /\ Len(file) \in Nat /\ scan.bodyFirstLine \in Nat
    BY DEF ScannerInv, ScannerTypeOK, ScanResult
  <2>2. Before(m) /\ m + 1 \in 1 .. Len(file) /\ (m + 1) - 1 = m
    BY <2>1
  <2>3. Counted(m) = 0
    BY <1>2, <2>2
  <2>4. ~Within(scan, m + 1)
    BY <2>1 DEF Within
  <2>5. trail[m + 1] = Counted(m)
                + (IF Within(scan, m + 1) THEN FilamentIn(file[m + 1]) ELSE 0)
    BY <2>2 DEF ScannerInv, TrailSums
  <2>6. trail[m + 1] = 0
    BY <2>3, <2>4, <2>5
  <2> QED BY <2>6 DEF Counted
<1>3. \A m \in Nat : m \in G
  <2> HIDE DEF G
  <2> QED BY <1>1, <1>2, Successors
<1> QED BY <1>3

\* ... nor behind its end.
LEMMA NothingBehind ==
    ASSUME ScannerInv, scan.bodyLastLine # 0
    PROVE  Counted(Len(file)) = Counted(scan.bodyLastLine)
<1> DEFINE last == scan.bodyLastLine
           G == {d \in Nat : last + d <= Len(file) => Counted(last + d) = Counted(last)}
<1>0. Len(file) \in Nat /\ last \in Nat /\ last <= Len(file) /\ last # 0
  BY DEF ScannerInv, ScannerTypeOK, ScanResult
<1>1. 0 \in G
  BY <1>0
<1>2. ASSUME NEW d \in Nat, d \in G PROVE d + 1 \in G
  <2> DEFINE m == last + d
  <2>1. m \in Nat /\ last + (d + 1) = m + 1 /\ m + 1 > last /\ m # 0
    BY <1>0
  <2> SUFFICES ASSUME m + 1 <= Len(file) PROVE Counted(m + 1) = Counted(last)
    BY <2>1
  <2>2. Counted(m) = Counted(last)
    BY <1>0, <1>2
  <2> HIDE DEF m
  <2>3. m + 1 \in 1 .. Len(file) /\ (m + 1) - 1 = m
    BY <1>0, <2>1
  <2>4. ~Within(scan, m + 1)
    BY <1>0, <2>1 DEF Within
  <2>5. trail[m + 1] = Counted(m)
                + (IF Within(scan, m + 1) THEN FilamentIn(file[m + 1]) ELSE 0)
    BY <2>3 DEF ScannerInv, TrailSums
  <2>6. Counted(m) \in Int
    <3>1. m \in DOMAIN trail /\ trail \in Seq(Int)
      BY <1>0, <2>1, <2>3 DEF ScannerInv, ScannerTypeOK
    <3> QED BY <2>1, <3>1 DEF Counted
  <2>7. trail[m + 1] = Counted(m)
    BY <2>4, <2>5, <2>6
  <2> QED BY <2>1, <2>2, <2>7 DEF Counted
<1>3. \A d \in Nat : d \in G
  <2> HIDE DEF G
  <2> QED BY <1>1, <1>2, Successors
<1>4. Len(file) - last \in Nat /\ last + (Len(file) - last) = Len(file)
  BY <1>0
<1>5. last + (Len(file) - last) <= Len(file)
  BY <1>0
<1> QED BY <1>3, <1>4, <1>5

\* Between the two the trail is the sum of what the lines extrude.
LEMMA FilamentUpTo ==
    ASSUME ScannerInv, BodyInv, NEW m \in 1 .. Len(file), Within(scan, m)
    PROVE  FilamentOf(BodyStart .. m) = Counted(m)
<1> DEFINE n == Len(file)
           first == scan.bodyFirstLine
           lo == first - 1
           at == [k \in 0 .. n |-> Counted(k)]
<1>1. /\ n \in Nat /\ first \in Nat /\ first # 0 /\ first <= m /\ m <= n
      /\ scan.bodyLastLine \in Nat
      /\ lo \in Nat /\ lo + 1 = first /\ lo <= m /\ m \in Nat /\ lo < first
      /\ DOMAIN file = 1 .. n
  <2>1. n \in Nat /\ DOMAIN file = 1 .. n
    BY DEF ScannerInv, ScannerTypeOK
  <2>2. first \in Nat /\ scan.bodyLastLine \in Nat
    BY DEF ScannerInv, ScannerTypeOK, ScanResult
  <2>3. first # 0 /\ first <= m
    BY DEF Within
  <2> HIDE DEF n, first
  <2>4. m \in Nat /\ m <= n
    BY <2>1 DEF n
  <2>5. lo \in Nat /\ lo + 1 = first /\ lo <= m /\ lo < first
    BY <2>2, <2>3, <2>4
  <2> QED BY <2>1, <2>2, <2>3, <2>4, <2>5
<1>2. BodyStart = first
  BY <1>1, BodyStartIs
<1>3. \A k \in 0 .. n : Counted(k) \in Int
  BY DEF ScannerInv, ScannerTypeOK, Counted
<1>4. \A k \in first .. m : Within(scan, k) /\ k \in 1 .. n
  BY <1>1 DEF Within
<1>5. \A k \in 1 .. n : Fed[k] = FilamentIn(file[k]) /\ FilamentIn(file[k]) \in Int
  <2>1. \A k \in 1 .. n : Fed[k] = FilamentIn(file[k])
    BY <1>1 DEF Fed, FilamentIn
  <2>2. \A k \in 1 .. n : file[k] \in Lines
    BY DEF ScannerInv, ScannerTypeOK
  <2>3. \A k \in 1 .. n : FilamentIn(file[k]) \in Int
    BY <2>2, LineValues DEF FilamentIn, Letters
  <2> QED BY <2>1, <2>3
<1>6. ASSUME NEW k \in (lo + 1) .. m
      PROVE  at[k] \in Int /\ Fed[k] = at[k] - at[k - 1]
  <2>1. k \in first .. m /\ k \in 1 .. n /\ k - 1 \in 0 .. n /\ k # 0 /\ k \in 0 .. n
    BY <1>1
  <2>2. trail[k] = Counted(k - 1) + FilamentIn(file[k])
    BY <1>4, <2>1 DEF ScannerInv, TrailSums
  <2>3. Counted(k) = trail[k]
    BY <2>1 DEF Counted
  <2>4. at[k] = Counted(k) /\ at[k - 1] = Counted(k - 1)
    BY <2>1
  <2>5. Fed[k] = FilamentIn(file[k]) /\ FilamentIn(file[k]) \in Int
    BY <1>5, <2>1
  <2>6. Counted(k) \in Int /\ Counted(k - 1) \in Int
    BY <1>3, <2>1
  <2> HIDE DEF at
  <2> QED BY <2>2, <2>3, <2>4, <2>5, <2>6
<1>7. at[lo] = 0 /\ at[m] = Counted(m) /\ Counted(m) \in Int
  <2>1. lo \in 0 .. n /\ m \in 0 .. n /\ lo <= Len(file)
    BY <1>1
  <2>2. Counted(lo) = 0
    BY <1>1, <2>1, NothingBefore
  <2> QED BY <1>3, <2>1, <2>2
<1>8. SumOver(Fed, (lo + 1) .. m) = at[m] - at[lo]
  <2>1. at[lo] \in Int
    BY <1>7
  <2> HIDE DEF at, lo
  <2>2. Telescopes(Fed, at, lo, m)
    BY <1>1, <1>6, <2>1, SumTelescopes
  <2> QED BY <2>2 DEF Telescopes
<1>9. FilamentOf(BodyStart .. m) = SumOver(Fed, BodyStart .. m)
  BY Zenon DEF FilamentOf, MapThenSumSet, MapThenFoldSet, SumOver, IsRun, One
<1> HIDE DEF at
<1> QED BY <1>1, <1>2, <1>7, <1>8, <1>9

LEMMA BodyIsMeasured ==
    ASSUME ScannerInv, BodyInv PROVE MeasuresTheBody
<1> DEFINE n == Len(file)
           first == scan.bodyFirstLine
           last == scan.bodyLastLine
<1>1. /\ n \in Nat /\ first \in Nat /\ last \in Nat /\ first <= n /\ last <= n
      /\ last # 0 => 0 < first /\ first <= last
  BY DEF ScannerInv, ScannerTypeOK, ScanResult, ScanOK
<1>2. /\ BodyStart = IF first = 0 THEN n + 1 ELSE first
      /\ BodyEnd = IF last = 0 THEN n + 1 ELSE last + 1
  BY BodyStartIs, BodyEndIs
<1>3. scan.bodyFilament = Counted(n)
  BY DEF ScannerInv
<1>4. scan.bodyFilament = FilamentOf(BodyStart .. (BodyEnd - 1))
  <2>1. CASE first = 0
    <3>1. Counted(n) = 0
      BY <1>1, <2>1, NothingBefore
    <3>2. BodyStart .. (BodyEnd - 1) = {}
      BY <1>1, <1>2, <2>1
    <3>3. FilamentOf({}) = SumOver(Fed, {})
      BY Zenon DEF FilamentOf, MapThenSumSet, MapThenFoldSet, SumOver, IsRun, One
    <3>4. SumOver(Fed, {}) = 0
      BY SumEmpty
    <3> QED BY <1>3, <3>1, <3>2, <3>3, <3>4
  <2>2. CASE first # 0
    <3> DEFINE m == BodyEnd - 1
    <3>1. m = IF last = 0 THEN n ELSE last
      BY <1>1, <1>2
    <3>2. m \in 1 .. n /\ Within(scan, m)
      BY <1>1, <2>2, <3>1 DEF Within
    <3>3. Counted(m) = Counted(n)
      BY <3>1, NothingBehind
    <3> HIDE DEF m
    <3>4. FilamentOf(BodyStart .. m) = Counted(m)
      BY <3>2, FilamentUpTo
    <3> QED BY <1>3, <3>3, <3>4 DEF m
  <2> QED BY <2>1, <2>2
<1>5. first = (IF BodyStart > n THEN 0 ELSE BodyStart)
  BY <1>1, <1>2
<1>6. last = (IF BodyEnd > n THEN 0 ELSE BodyEnd - 1)
  <2>1. last # 0 => last + 1 <= n
    BY DEF BodyInv, BodyClosesOK
  <2> QED BY <1>1, <1>2, <2>1
<1> QED BY <1>4, <1>5, <1>6 DEF MeasuresTheBody

LEMMA LayersAreMarked ==
    ASSUME ScannerInv, BodyInv PROVE LayersMarkTheBody
<1> DEFINE Marked == {scan.layers[k].line : k \in DOMAIN scan.layers}
           Markers == {m \in BodyStart .. (BodyEnd - 1) : IsLayerMarker(file[m])}
<1>1. /\ Len(file) \in Nat
      /\ \A m \in Int : m \in BodyStart .. (BodyEnd - 1)
                              <=> m \in 1 .. Len(file) /\ Within(scan, m)
  BY BodyIsWithin DEF ScannerInv, ScannerTypeOK
<1>2. \A k \in DOMAIN scan.layers :
          /\ scan.layers[k].line \in 1 .. Len(file)
          /\ Within(scan, scan.layers[k].line)
          /\ IsLayerMarker(file[scan.layers[k].line])
          /\ k > 1 => scan.layers[k - 1].line < scan.layers[k].line
  BY DEF BodyInv, LayersOK
<1>3. \A m \in 1 .. Len(file) :
          Within(scan, m) /\ IsLayerMarker(file[m]) =>
              \E k \in DOMAIN scan.layers : scan.layers[k].line = m
  BY DEF BodyInv, LayersOK
<1>4. Marked = Markers
  <2>1. ASSUME NEW m \in Marked PROVE m \in Markers
    BY <1>1, <1>2
  <2>2. ASSUME NEW m \in Markers PROVE m \in Marked
    <3>1. m \in BodyStart .. (BodyEnd - 1) /\ m \in Int
      OBVIOUS
    <3> QED BY <1>1, <1>3, <3>1
  <2> QED BY <2>1, <2>2
<1>5. ASSUME NEW k \in DOMAIN scan.layers
      PROVE  scan.layers[k].usedFilament = FilamentOf(BodyStart .. scan.layers[k].line)
  <2> DEFINE m == scan.layers[k].line
  <2>1. m \in 1 .. Len(file) /\ Within(scan, m) /\ m # 0
    BY <1>1, <1>2
  <2>2. scan.layers[k].usedFilament = Counted(m)
    BY <2>1 DEF ScannerInv, MarksFollowTheTrail, Counted
  <2> HIDE DEF m
  <2>3. FilamentOf(BodyStart .. m) = Counted(m)
    BY <2>1, FilamentUpTo
  <2> QED BY <2>2, <2>3 DEF m
<1> QED BY <1>2, <1>4, <1>5 DEF LayersMarkTheBody

LEMMA AcceptedIsFit ==
    ASSUME ScannerInv, BodyInv PROVE AcceptedIsPrintable
<1> SUFFICES ASSUME ~scanning, errors = {}
             PROVE  /\ \A n \in DOMAIN file : file[n].kind # "stamp"
                    /\ file[FirstLine(LAMBDA l : l.kind \in {"M82", "M83"})].kind = "M83"
                    /\ scan.layers[1].line = BodyStart
                    /\ BodyEnd \in DOMAIN file
  BY DEF AcceptedIsPrintable
<1> DEFINE n == Len(file)
<1>1. /\ ~scan.alreadyProcessed /\ scan.extrusionMode = "Relative" /\ HasPrintBody(scan)
  BY DEF BodyInv, ResultOK
<1>2. /\ n \in Nat /\ DOMAIN file = 1 .. n /\ scan.layers \in Seq(LayerMark)
      /\ scan.bodyFirstLine \in Nat /\ scan.bodyLastLine \in Nat
      /\ scan.bodyFirstLine <= n /\ scan.bodyLastLine <= n
  BY DEF ScannerInv, ScannerTypeOK, ScanResult
<1>3. \A m \in DOMAIN file : file[m].kind # "stamp"
  BY <1>1, <1>2 DEF BodyInv, StampOK
<1>4. file[FirstLine(LAMBDA l : l.kind \in {"M82", "M83"})].kind = "M83"
  <2>1. PICK m \in 1 .. n : /\ IsModeLine(file[m]) /\ file[m].kind = "M83"
                            /\ \A j \in 1 .. (m - 1) : ~IsModeLine(file[j])
    BY <1>1 DEF BodyInv, ModeOK
  <2> DEFINE S == {j \in DOMAIN file : file[j].kind \in {"M82", "M83"}} \cup {n + 1}
  <2>2. FirstLine(LAMBDA l : l.kind \in {"M82", "M83"}) = Min(S)
    BY DEF FirstLine
  <2>3. m \in S /\ S \in SUBSET Int /\ \A y \in S : m <= y
    BY <1>2, <2>1 DEF IsModeLine
  <2> HIDE DEF S
  <2>4. Min(S) = m
    BY <2>3, MinIs
  <2> QED BY <2>1, <2>2, <2>4
<1>5. BodyStart = scan.bodyFirstLine /\ BodyEnd = scan.bodyLastLine + 1
  BY <1>1, <1>2, BodyStartIs, BodyEndIs DEF HasPrintBody
<1>6. BodyEnd \in DOMAIN file
  BY <1>1, <1>2, <1>5 DEF BodyInv, BodyClosesOK, HasPrintBody
<1>7. scan.layers[1].line = BodyStart
  <2> DEFINE first == scan.bodyFirstLine
  <2>1. first \in 1 .. n /\ Within(scan, first) /\ IsLayerMarker(file[first])
    BY <1>1, <1>2 DEF HasPrintBody, Within, BodyInv, BodyOpensOK
  <2>2. PICK k \in DOMAIN scan.layers : scan.layers[k].line = first
    BY <2>1 DEF BodyInv, LayersOK
  <2>3. k \in Nat \ {0} /\ (k > 1 => k - 1 \in DOMAIN scan.layers)
    BY <1>2
  <2>4. k > 1 => /\ scan.layers[k - 1].line < first
                 /\ Within(scan, scan.layers[k - 1].line)
                 /\ scan.layers[k - 1].line \in Nat
    BY <2>2, <2>3 DEF BodyInv, LayersOK
  <2>5. ~(k > 1)
    BY <1>2, <2>4 DEF Within
  <2>6. k = 1
    BY <2>3, <2>5
  <2> QED BY <1>5, <2>2, <2>6
<1> QED BY <1>3, <1>4, <1>6, <1>7

\* One pass that reads every line once, and never looks back, finds the body the
\* documentation draws on the whole file and the filament the body extrudes:
\* nothing of the start macro, nothing of the end macro, for files of any length.
THEOREM BodyIsMeasuredByOnePass == ScannerSpec => []MeasuresTheBody
BY BodyInvAlways, BodyIsMeasured, PTL

\* The layers the planner is given are the layer markers of the body, all of them
\* and in file order, each at the filament extruded before it.
THEOREM LayersAreThoseOfTheBody == ScannerSpec => []LayersMarkTheBody
BY BodyInvAlways, LayersAreMarked, PTL

\* A file that passes without a diagnostic holds no stamp of an earlier run,
\* declares relative extrusion first, and has a body that starts with a layer
\* and is closed by an end marker.  That the body extrudes is not part of it.
THEOREM AcceptedFilesArePrintable == ScannerSpec => []AcceptedIsPrintable
BY BodyInvAlways, AcceptedIsFit, PTL

-----------------------------------------------------------------------------
(***************************************************************************)
(* The two passes over one file.                                            *)
(***************************************************************************)

\* The rewriter runs only behind a finished scan without errors, has counted
\* what the scan had counted, and finishes at the end of the file.
RewriteInv ==
    /\ lineNumber \in Nat /\ lineNumber <= Len(file)
    /\ scanning \/ errors # {} => status = "called"
    /\ status = "called" => lineNumber = 0 /\ usedFilament = 0
    /\ CoordinatesAgree
    /\ status = "done" => lineNumber = Len(file)

\* The filament line n of a scanned file adds in either pass.
Adds(n) == IF Within(scan, n) THEN FilamentIn(file[n]) ELSE 0

-----------------------------------------------------------------------------

\* Both modules read words the same way.
LEMMA SameText ==
    ASSUME NEW line
    PROVE  /\ R!IsExtrudingMove(line) <=> IsExtrudingMove(line)
           /\ R!Word(line, "E", 0) = Word(line, "E", 0)
BY DEF R!IsExtrudingMove, IsExtrudingMove, R!IsMove, IsMove, R!Word, Word, R!Has, Has

LEMMA SameBody ==
    ASSUME ScannerInv, ~scanning, errors = {}, NEW n \in Nat
    PROVE  R!InBody(n) <=> Within(scan, n)
BY DEF ScannerInv, ScannerTypeOK, ScanResult, HasPrintBody, R!InBody, Within

\* Each branch of the rewriter's loop counts what the scanner counted for the
\* line: an extruding move of the body its filament, everything else nothing.
LEMMA LineAdds ==
    ASSUME ScannerInv, ~scanning, errors = {}, lineNumber \in Nat,
           usedFilament \in Int,
           lineNumber < Len(file), R!RewriteLine(file[lineNumber + 1])
    PROVE  /\ status = "rewriting" /\ status' = status /\ scan' = scan
           /\ lineNumber' = lineNumber + 1
           /\ usedFilament' = usedFilament + Adds(lineNumber + 1)
<1> DEFINE n == lineNumber + 1
           line == file[n]
<1>1. n \in Nat /\ line \in Lines
  BY DEF ScannerInv, ScannerTypeOK
<1>2. R!InBody(n) <=> Within(scan, n)
  BY <1>1, SameBody
<1>3. /\ R!IsExtrudingMove(line) <=> IsExtrudingMove(line)
      /\ R!Word(line, "E", 0) = Word(line, "E", 0)
      /\ Word(line, "E", 0) \in Int
  <2>1. "E" \in Letters /\ 0 \in Int
    BY DEF Letters
  <2>2. Word(line, "E", 0) \in Int
    BY <1>1, <2>1, LineValues
  <2> QED BY <2>2, SameText
<1>4. Adds(n) = IF R!InBody(n) /\ IsExtrudingMove(line) THEN Word(line, "E", 0) ELSE 0
  BY <1>2 DEF Adds, FilamentIn
<1>5. R!Consume(line)
  BY DEF R!RewriteLine, R!StampHeader, R!RewriteStartMacro, R!CopyOutside,
     R!ReadMarker, R!Retract, R!ReduceFeedrate, R!KeepFeedrate, R!CopyInBody,
     R!Extrude, R!ConsumeInBody
<1>6. /\ status = "rewriting" /\ status' = status /\ scan' = scan
      /\ lineNumber' = n
  BY <1>5 DEF R!Consume, R!inputs
<1>7. IsExtrudingMove(line) => line.kind = "move" /\ Word(line, "E", 0) > 0
  BY DEF IsExtrudingMove, IsMove
<1>8. ASSUME usedFilament' = usedFilament,
             ~(R!InBody(n) /\ IsExtrudingMove(line))
      PROVE  usedFilament' = usedFilament + Adds(n)
  BY <1>4, <1>8
<1> SUFFICES usedFilament' = usedFilament + Adds(n)
  BY <1>6
<1> HIDE DEF line
<1>9. CASE R!StampHeader(line)
  <2>1. line.kind = "header" /\ usedFilament' = usedFilament
    BY <1>9 DEF R!StampHeader, R!IsHeader
  <2> QED BY <1>7, <1>8, <2>1
<1>10. CASE R!RewriteStartMacro(line)
  <2>1. line.kind = "macro" /\ usedFilament' = usedFilament
    BY <1>10 DEF R!RewriteStartMacro, R!IsStartMacro
  <2> QED BY <1>7, <1>8, <2>1
<1>11. CASE R!CopyOutside(line)
  BY <1>6, <1>8, <1>11 DEF R!CopyOutside
<1>12. CASE R!ReadMarker(line)
  <2>1. line.kind \in {"height", "width", "type"} /\ usedFilament' = usedFilament
    BY <1>12 DEF R!ReadMarker
  <2> QED BY <1>7, <1>8, <2>1
<1>13. CASE R!Retract(line)
  <2>1. Word(line, "E", 0) < 0 /\ usedFilament' = usedFilament
    BY <1>3, <1>13 DEF R!Retract, R!IsRetraction
  <2>2. ~IsExtrudingMove(line)
    BY <1>3, <1>7, <2>1
  <2> QED BY <1>8, <2>1, <2>2
<1>14. CASE R!ReduceFeedrate(line) \/ R!KeepFeedrate(line)
  <2>1. ~Has(line, "E") /\ usedFilament' = usedFilament
    BY <1>14 DEF R!ReduceFeedrate, R!KeepFeedrate, R!IsBareFeedrate, R!Has, Has
  <2>2. ~IsExtrudingMove(line)
    BY <1>7, <2>1 DEF Word
  <2> QED BY <1>8, <2>1, <2>2
<1>15. CASE R!CopyInBody(line)
  <2>1. ~IsExtrudingMove(line) /\ usedFilament' = usedFilament
    BY <1>3, <1>15 DEF R!CopyInBody
  <2> QED BY <1>8, <2>1
<1>16. CASE R!Extrude(line)
  BY <1>3, <1>4, <1>6, <1>16 DEF R!Extrude, R!ConsumeInBody
<1> QED BY <1>9, <1>10, <1>11, <1>12, <1>13, <1>14, <1>15, <1>16
        DEF R!RewriteLine, line

-----------------------------------------------------------------------------

LEMMA JointInit == Init => ScannerInv /\ RewriteInv
<1> SUFFICES ASSUME Init PROVE ScannerInv /\ RewriteInv
  OBVIOUS
<1>1. ScannerInv
  BY ScannerInvInit DEF Init
<1>2. Len(file) \in Nat
  BY <1>1 DEF ScannerInv, ScannerTypeOK
<1>3. RewriteInv
  BY <1>2 DEF Init, R!FreshCall, RewriteInv, CoordinatesAgree
<1> QED BY <1>1, <1>3

LEMMA JointScan ==
    ASSUME ScannerInv, RewriteInv, ScanPass
    PROVE  ScannerInv' /\ RewriteInv'
<1>1. ScannerInv'
  BY ScannerInvStep DEF ScanPass
<1>2. status' = status /\ lineNumber' = lineNumber /\ usedFilament' = usedFilament
  BY DEF ScanPass, rewriteState
<1>3. scanning
  BY DEF ScanPass, ScannerNext, ReadLine, FinishScan
<1>4. Len(file') \in Nat
  BY <1>1 DEF ScannerInv, ScannerTypeOK
<1> QED BY <1>1, <1>2, <1>3, <1>4 DEF RewriteInv, CoordinatesAgree

LEMMA JointRewrite ==
    ASSUME ScannerInv, RewriteInv, RewritePass
    PROVE  ScannerInv' /\ RewriteInv'
<1>1. /\ ~scanning /\ errors = {}
      /\ file' = file /\ errors' = errors /\ scanning' = scanning /\ trail' = trail
  BY DEF RewritePass
<1>2. scan.totalLines = Len(file) /\ Len(file) \in Nat
  BY <1>1 DEF ScannerInv, ScannerTypeOK
<1>3. ASSUME scan' = scan PROVE ScannerInv'
  BY <1>1, <1>3 DEF ScannerInv, ScannerTypeOK, MarksFollowTheTrail, TrailSums, Counted
<1>4. CASE R!Refuse
  <2>1. scan' = scan
    BY <1>4 DEF R!Refuse, R!inputs
  <2> QED BY <1>1, <1>3, <1>4, <2>1 DEF R!Refuse, RewriteInv, CoordinatesAgree
<1>5. CASE R!Begin
  <2>1. scan' = scan
    BY <1>5 DEF R!Begin, R!inputs
  <2> QED BY <1>1, <1>3, <1>5, <2>1 DEF R!Begin, RewriteInv, CoordinatesAgree,
          CountedByScan
<1>6. CASE R!Cancel
  <2>1. scan' = scan
    BY <1>6 DEF R!Cancel, R!inputs
  <2> QED BY <1>1, <1>2, <1>3, <1>6, <2>1 DEF R!Cancel, RewriteInv, CoordinatesAgree
<1>7. CASE R!EndOfFile
  <2>1. scan' = scan
    BY <1>7 DEF R!EndOfFile, R!inputs
  <2> QED BY <1>1, <1>2, <1>3, <1>7, <2>1 DEF R!EndOfFile, RewriteInv,
          CoordinatesAgree, CountedByScan
<1>8. CASE NextLine
  <2> DEFINE n == lineNumber + 1
  <2>1. /\ lineNumber \in Nat /\ lineNumber < Len(file)
        /\ R!RewriteLine(file[n])
    BY <1>8 DEF NextLine, RewriteInv
  <2>2. status = "rewriting"
    BY <2>1 DEF R!RewriteLine, R!StampHeader, R!RewriteStartMacro, R!CopyOutside,
       R!ReadMarker, R!Retract, R!ReduceFeedrate, R!KeepFeedrate, R!CopyInBody,
       R!Extrude, R!ConsumeInBody, R!Consume
  <2>3. usedFilament = CountedByScan(lineNumber)
    BY <2>2 DEF RewriteInv, CoordinatesAgree
  <2>4. usedFilament \in Int
    BY <1>2, <2>1, <2>3 DEF CountedByScan, ScannerInv, ScannerTypeOK
  <2>5. /\ status' = status /\ scan' = scan /\ lineNumber' = n
        /\ usedFilament' = usedFilament + Adds(n)
    BY <1>1, <2>1, <2>4, LineAdds
  <2>6. trail[n] = Counted(lineNumber) + Adds(n)
    <3>1. n \in 1 .. Len(file) /\ n - 1 = lineNumber
      BY <1>2, <2>1
    <3> HIDE DEF n
    <3> QED BY <3>1 DEF ScannerInv, TrailSums, Adds
  <2>7. usedFilament' = CountedByScan(n)
    BY <2>1, <2>3, <2>5, <2>6 DEF CountedByScan, Counted
  <2>8. CountedByScan(lineNumber)' = CountedByScan(n)
    BY <1>1, <2>5 DEF CountedByScan
  <2>9. CoordinatesAgree'
    BY <2>7, <2>8 DEF CoordinatesAgree
  <2>10. RewriteInv'
    BY <1>1, <1>2, <2>1, <2>2, <2>5, <2>9 DEF RewriteInv
  <2> QED BY <1>3, <2>5, <2>10
<1> QED BY <1>4, <1>5, <1>6, <1>7, <1>8 DEF RewritePass

LEMMA JointStep ==
    ASSUME ScannerInv, RewriteInv, [Next]_vars
    PROVE  ScannerInv' /\ RewriteInv'
<1>1. CASE UNCHANGED vars
  BY <1>1 DEF vars, scannerVars, rewriteState, ScannerInv, ScannerTypeOK,
     MarksFollowTheTrail, TrailSums, Counted, RewriteInv, CoordinatesAgree,
     CountedByScan
<1> QED BY <1>1, JointScan, JointRewrite DEF Next

LEMMA JointAlways == Spec => [](ScannerInv /\ RewriteInv)
<1>1. ScannerInv /\ RewriteInv /\ [Next]_vars => (ScannerInv /\ RewriteInv)'
  BY JointStep
<1> QED BY JointInit, <1>1, PTL DEF Spec

\* For every file, plan and setting: behind every line of an accepted file the
\* rewriter has counted the filament that the scanner had counted there, so the
\* plan is looked up in the coordinate it was made in.
THEOREM CountsAgree == Spec => []CoordinatesAgree
<1>1. RewriteInv => CoordinatesAgree
  BY DEF RewriteInv
<1> QED BY <1>1, JointAlways, PTL

\* The rewriter enters every layer at the filament the scanner recorded for it.
THEOREM LayersInPlace == Spec => []LayersReachedInPlace
<1>1. ScannerInv /\ RewriteInv => LayersReachedInPlace
  BY DEF ScannerInv, ScannerTypeOK, MarksFollowTheTrail, RewriteInv, CoordinatesAgree,
     CountedByScan, LayersReachedInPlace
<1> QED BY <1>1, JointAlways, PTL

\* A file that is rewritten to its end consumed the scanned body's filament.
THEOREM BodyRewritten == Spec => []WholeBodyRewritten
<1>1. ScannerInv /\ RewriteInv => WholeBodyRewritten
  BY DEF ScannerInv, Counted, RewriteInv, CoordinatesAgree, CountedByScan,
     WholeBodyRewritten
<1> QED BY <1>1, JointAlways, PTL
-----------------------------------------------------------------------------
(***************************************************************************)
(* The scan is over when the rewriter reads its result.                     *)
(***************************************************************************)

LEMMA RewriteKeepsScan ==
    ASSUME RewritePass
    PROVE  UNCHANGED scannerVars
<1>1. file' = file /\ errors' = errors /\ scanning' = scanning /\ trail' = trail
  BY DEF RewritePass
<1>2. R!Refuse \/ R!Begin \/ R!Cancel \/ R!EndOfFile \/ NextLine
  BY DEF RewritePass
<1>3. CASE R!Refuse \/ R!Begin \/ R!Cancel \/ R!EndOfFile
  BY <1>1, <1>3 DEF R!Refuse, R!Begin, R!Cancel, R!EndOfFile, R!inputs, scannerVars
<1>4. CASE NextLine
  <2>1. R!Consume(file[lineNumber + 1])
    BY <1>4 DEF NextLine, R!RewriteLine, R!StampHeader, R!RewriteStartMacro,
       R!CopyOutside, R!ReadMarker, R!Retract, R!ReduceFeedrate, R!KeepFeedrate,
       R!CopyInBody, R!Extrude, R!ConsumeInBody
  <2>2. scan' = scan
    BY <2>1 DEF R!Consume, R!inputs
  <2> QED BY <1>1, <2>2 DEF scannerVars
<1> QED BY <1>2, <1>3, <1>4

\* Behind the first pass the second only reads what it found: run together the
\* two are a scanner that takes its steps and otherwise stands still, so all that
\* holds of the scan alone holds of the scan the rewriter works from.
THEOREM ScanIsReadOnly == Spec => ScannerSpec
<1>1. Init => ScannerInit
  BY DEF Init
<1>2. [Next]_vars => [ScannerNext]_scannerVars
  <2>1. CASE ScanPass
    BY <2>1 DEF ScanPass
  <2>2. CASE RewritePass
    BY <2>2, RewriteKeepsScan
  <2>3. CASE UNCHANGED vars
    BY <2>3 DEF vars
  <2> QED BY <2>1, <2>2, <2>3 DEF Next
<1> QED BY <1>1, <1>2, PTL DEF Spec, ScannerSpec

\* The bounds and the layers the rewriter and the planner work from are those of
\* the file, and a file that is rewritten at all is one that may be.
COROLLARY BodyOfBothPasses ==
    Spec => [](MeasuresTheBody /\ LayersMarkTheBody /\ AcceptedIsPrintable)
BY ScanIsReadOnly, BodyIsMeasuredByOnePass, LayersAreThoseOfTheBody,
   AcceptedFilesArePrintable, PTL
=============================================================================
