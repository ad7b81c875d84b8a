------------------------ MODULE Classification_proofs ------------------------
(***************************************************************************)
(* Proofs about Classification, for any formats, hints, content types,     *)
(* settings and depths.  The output is always what Classified makes of the *)
(* file and the request (OutputInv); the rest is about the operators.      *)
(***************************************************************************)
EXTENDS Classification, TLAPS

Matches == {"exact-unique-signature", "ole2-with-clsid", "zip-with-ooxml-or-odf",
            "ole2-or-zip-ext-fallback", "text-heuristic", "extension-only", "no-match"}

Tiers == {"file-type", "ole2-clsid", "zip-marker", "text-heuristic", "extension-fallback"}

OutputInv ==
  /\ file \in Files /\ request \in Requests
  /\ output = NoOutput \/ output = Classified(file, request)

\* Detection answers with a tier and a kind of match that the scorer knows.
LEMMA DetectionShape ==
  ASSUME NEW f \in Files, NEW ext
  PROVE  /\ DetectInSequence(f, ext).match \in Matches
         /\ DetectInSequence(f, ext).tier \in Tiers
<1>1. ByExtensionOnly(ext).match \in Matches /\ ByExtensionOnly(ext).tier \in Tiers
  BY DEF ByExtensionOnly, Detection, Matches, Tiers
<1>2. CASE f.kind = "signed"
  <2>1. Tier1(f) = f.format /\ f.format \in Signed
    BY <1>2 DEF Tier1, Files
  <2>2. DetectInSequence(f, ext) = Detection("file-type", f.format, "exact-unique-signature")
    BY <1>2, <2>1, ClassificationAssumption DEF DetectInSequence
  <2>. QED  BY <2>2 DEF Detection, Matches, Tiers
<1>3. CASE f.kind = "ole2"
  <2>1. DetectInSequence(f, ext) = Tier2Ole2(f.clsid, ext)
    BY <1>3 DEF DetectInSequence, Tier1
  <2>. QED  BY <1>1, <2>1 DEF Tier2Ole2, Detection, Matches, Tiers
<1>4. CASE f.kind = "zip"
  <2>1. DetectInSequence(f, ext) = Tier2Zip(f.parts, ext)
    BY <1>4 DEF DetectInSequence, Tier1
  <2>. QED  BY <2>1 DEF Tier2Zip, Detection, Matches, Tiers
<1>5. CASE f.kind = "text"
  <2>1. DetectInSequence(f, ext) = Detection("text-heuristic", Tier3(f.looks), "text-heuristic")
    BY <1>5 DEF DetectInSequence, Tier1
  <2>. QED  BY <2>1 DEF Detection, Matches, Tiers
<1>6. CASE f.kind = "opaque"
  <2>1. DetectInSequence(f, ext) = ByExtensionOnly(ext)
    BY <1>6 DEF DetectInSequence, Tier1
  <2>. QED  BY <1>1, <2>1
<1>. QED  BY <1>2, <1>3, <1>4, <1>5, <1>6 DEF Files

LEMMA Modifiers ==
  ASSUME NEW x, NEW format
  PROVE  /\ ExtensionModifier(x, format) \in {-150, 0, 50}
         /\ ContentTypeModifier(x, format) \in {-100, 0, 50}
  BY DEF ExtensionModifier, ContentTypeModifier

\* A detection, its score as exact arithmetic has it, and as doubles do.
Sum(d, ext, ctype) ==
  Exact(d.match, ExtensionModifier(ext, d.format), ContentTypeModifier(ctype, d.format))

\* A double stays next to the sum it stands for.
LEMMA ScoreBounds ==
  ASSUME NEW d, d.match \in Matches, NEW ext, NEW ctype
  PROVE  /\ Sum(d, ext, ctype) \in 0..1000
         /\ Score(d, ext, ctype) \in 0..1000
         /\ Score(d, ext, ctype) - Sum(d, ext, ctype) \in {-1, 0, 1}
<1> DEFINE e == ExtensionModifier(ext, d.format)
           c == ContentTypeModifier(ctype, d.format)
           base == BaseScore(d.match)
<1>1. base \in {950, 900, 700, 650, 400, 0}
  BY DEF BaseScore, Matches
<1>2. e \in {-150, 0, 50} /\ c \in {-100, 0, 50}
  BY Modifiers
<1>3. /\ Sum(d, ext, ctype) = Clamp(base + e + c)
      /\ Score(d, ext, ctype) = Clamp(base + e + c) + Rounding(<<base, e, c>>)
  BY DEF Sum, Exact, Score
<1> HIDE DEF e, c, base
<1>4. Clamp(base + e + c) \in 0..1000
  BY <1>1, <1>2 DEF Clamp
<1>5. Rounding(<<base, e, c>>) \in {-1, 0, 1}
  BY DEF Rounding
<1>6. Rounding(<<base, e, c>>) # 0 => base + e + c \in 1..999
  BY <1>1, <1>2 DEF Rounding, Above, Below
<1>7. Clamp(base + e + c) + Rounding(<<base, e, c>>) \in 0..1000
  <2>1. CASE Rounding(<<base, e, c>>) = 0
    BY <2>1, <1>4
  <2>2. CASE Rounding(<<base, e, c>>) # 0
    <3>1. base + e + c \in 1..999
      BY <2>2, <1>6
    <3>2. Clamp(base + e + c) = base + e + c
      BY <3>1 DEF Clamp
    <3>. QED  BY <3>1, <3>2, <1>5
  <2>. QED  BY <2>1, <2>2
<1>. QED  BY <1>3, <1>4, <1>5, <1>7

\* The output is what the file and the request make it.
LEMMA OutputStep == OutputInv /\ [Next]_vars => OutputInv'
<1> SUFFICES ASSUME OutputInv, [Next]_vars PROVE OutputInv'
  OBVIOUS
<1>1. ASSUME NEW r \in Requests, Classify(r) PROVE OutputInv'
  BY <1>1 DEF Classify, OutputInv
<1>2. CASE FirstUpload
  BY <1>1, <1>2 DEF FirstUpload, OutputInv
<1>3. CASE OtherHint
  <2>1. PICK h \in Hints \cup {"null", "", "."} : Classify([request EXCEPT !.hint = h])
    BY <1>3 DEF OtherHint
  <2>2. [request EXCEPT !.hint = h] \in Requests
    BY DEF OutputInv, Requests
  <2>. QED  BY <1>1, <2>1, <2>2
<1>4. CASE OtherSuffix
  <2>1. PICK h \in Hints \cup {"null"} : Classify([request EXCEPT !.suffix = h])
    BY <1>4 DEF OtherSuffix
  <2>2. [request EXCEPT !.suffix = h] \in Requests
    BY DEF OutputInv, Requests
  <2>. QED  BY <1>1, <2>1, <2>2
<1>5. CASE OtherContentType
  <2>1. PICK t \in ContentTypes \cup {"null"} : Classify([request EXCEPT !.ctype = t])
    BY <1>5 DEF OtherContentType
  <2>2. [request EXCEPT !.ctype = t] \in Requests
    BY DEF OutputInv, Requests
  <2>. QED  BY <1>1, <2>1, <2>2
<1>6. CASE OtherDepth
  <2>1. PICK n \in Depths : Classify([request EXCEPT !.depth = n])
    BY <1>6 DEF OtherDepth
  <2>2. [request EXCEPT !.depth = n] \in Requests
    BY DEF OutputInv, Requests
  <2>. QED  BY <1>1, <2>1, <2>2
<1>7. CASE OtherSettings
  <2>1. PICK ws \in Workspaces : Classify([request EXCEPT !.ws = ws])
    BY <1>7 DEF OtherSettings
  <2>2. [request EXCEPT !.ws = ws] \in Requests
    BY DEF OutputInv, Requests
  <2>. QED  BY <1>1, <2>1, <2>2
<1>8. CASE UNCHANGED vars
  BY <1>8 DEF vars, OutputInv
<1>. QED  BY <1>2, <1>3, <1>4, <1>5, <1>6, <1>7, <1>8 DEF Next

LEMMA OutputAlways == Spec => []OutputInv
<1>1. Init => OutputInv
  BY DEF Init, OutputInv
<1>. QED  BY <1>1, OutputStep, PTL DEF Spec

LEMMA Settings ==
  ASSUME NEW ws \in Workspaces
  PROVE  ws.threshold \in Int /\ ws.maxDepth \in Nat
<1>1. ws.threshold \in Thresholds /\ ws.maxDepth \in Depths
  BY DEF Workspaces
<1>2. ws.threshold \in {10 * n : n \in 0..100}
  BY <1>1, ClassificationAssumption
<1>3. ws.maxDepth \in Nat
  BY <1>1, ClassificationAssumption
<1>. QED  BY <1>2, <1>3

\* What an output says of the detection, the score and the request behind it.
DecidedAs(o, d, score, depth, ws) ==
  /\ Forwarded(o) <=> o.reason = "null"
  /\ o.reason = "null" <=>
       /\ MapCategory(d.format) # "none" /\ ~ByPolicy(d.format, ws)
       /\ depth < ws.maxDepth /\ score > ws.threshold
  /\ o.reason = "null" => /\ o.format = d.format /\ o.category = MapCategory(d.format)
                          /\ o.sub = SubCategory(d.format, d.tier)
  /\ o.reason # "null" => o.category = "slipsheet" /\ o.sub = "null"
  /\ o.reason = "low-confidence" /\ MapCategory(d.format) # "none"
       => ~(score > ws.threshold)
  /\ o.score = score /\ o.tier = d.tier
  /\ o.format = IF d.format = "null" THEN "unknown" ELSE d.format

LEMMA Decided ==
  ASSUME NEW d, NEW score \in Int, NEW depth \in Nat, NEW ws \in Workspaces,
         NEW o, o = Build(d, score, Decide(d.format, score, depth, ws))
  PROVE  DecidedAs(o, d, score, depth, ws)
<1> DEFINE reason == Decide(d.format, score, depth, ws)
           why == IF reason = "null" /\ MapCategory(d.format) = "none"
                  THEN "low-confidence" ELSE reason
<1>1. ws.threshold \in Int /\ ws.maxDepth \in Int
  BY Settings
<1>2. reason = "null" <=>
        ~ByPolicy(d.format, ws) /\ depth < ws.maxDepth /\ score > ws.threshold
  BY <1>1 DEF Decide
<1>3. MapCategory(d.format) # "slipsheet"
  BY DEF MapCategory
<1>4. MapCategory("null") = "none"
  BY DEF MapCategory, OcrDirect, Media, Email, Convert, Office, Odf, Ooxml
<1>5. o.reason = why
  BY DEF Build
<1>6. /\ why = "null" <=> reason = "null" /\ MapCategory(d.format) # "none"
      /\ MapCategory(d.format) # "none" => why = reason
  OBVIOUS
<1>7. /\ o.category = IF why = "null" THEN MapCategory(d.format) ELSE "slipsheet"
      /\ o.sub = IF why = "null" THEN SubCategory(d.format, d.tier) ELSE "null"
      /\ o.format = IF d.format = "null" THEN "unknown" ELSE d.format
      /\ o.score = score /\ o.tier = d.tier
  BY DEF Build
<1>11. reason = "low-confidence" => ~(score > ws.threshold)
  BY <1>1 DEF Decide
<1> HIDE DEF why, reason
<1>8. o.reason = "null" => d.format # "null"
  BY <1>4, <1>5, <1>6
<1>9. Forwarded(o) <=> o.reason = "null"
  BY <1>3, <1>5, <1>7 DEF Forwarded
<1>10. /\ o.reason = "null" <=>
            /\ MapCategory(d.format) # "none" /\ ~ByPolicy(d.format, ws)
            /\ depth < ws.maxDepth /\ score > ws.threshold
       /\ o.reason = "null" => /\ o.format = d.format /\ o.category = MapCategory(d.format)
                               /\ o.sub = SubCategory(d.format, d.tier)
       /\ o.reason # "null" => o.category = "slipsheet" /\ o.sub = "null"
  BY <1>2, <1>5, <1>6, <1>7, <1>8
<1>12. o.reason = "low-confidence" /\ MapCategory(d.format) # "none"
         => ~(score > ws.threshold)
  BY <1>5, <1>6, <1>11
<1>. QED  BY <1>7, <1>9, <1>10, <1>12 DEF DecidedAs

LEMMA SubOnlyConverted ==
  ASSUME NEW format, NEW tier, SubCategory(format, tier) # "null"
  PROVE  MapCategory(format) = "convert"
  BY DEF SubCategory, MapCategory, OcrDirect, Media, Email, Convert, Office, Odf, Ooxml

\* A detection and its score, and what comes of them.
Found(f, r) == DetectInSequence(f, Extension(r))
Confidence(f, r) == Score(Found(f, r), Extension(r), r.ctype)

LEMMA Decomposed ==
  ASSUME NEW f \in Files, NEW r \in Requests
  PROVE  /\ Found(f, r).match \in Matches /\ Confidence(f, r) \in Int
         /\ r.depth \in Nat /\ r.ws \in Workspaces
         /\ DecidedAs(Classified(f, r), Found(f, r), Confidence(f, r), r.depth, r.ws)
<1>1. r.ws \in Workspaces /\ r.depth \in Nat
  BY ClassificationAssumption DEF Requests
<1>2. Found(f, r).match \in Matches
  BY DetectionShape DEF Found
<1>3. Confidence(f, r) \in Int
  <2>1. Score(Found(f, r), Extension(r), r.ctype) \in 0..1000
    BY <1>2, ScoreBounds
  <2>. QED  BY <2>1 DEF Confidence
<1>4. Classified(f, r) = Build(Found(f, r), Confidence(f, r),
                               Decide(Found(f, r).format, Confidence(f, r), r.depth, r.ws))
  BY DEF Classified, Found, Confidence
<1>5. DecidedAs(Classified(f, r), Found(f, r), Confidence(f, r), r.depth, r.ws)
  BY <1>1, <1>3, <1>4, Decided
<1>. QED  BY <1>1, <1>2, <1>3, <1>5

\* Nothing goes on half decided, or against the settings.
THEOREM NeverSilentAlways == Spec => []NeverSilent
<1>1. OutputInv => NeverSilent
  <2> SUFFICES ASSUME OutputInv, output # NoOutput PROVE NeverSilent
    BY DEF NeverSilent
  <2> DEFINE format == Found(file, request).format
  <2>1. DecidedAs(output, Found(file, request), Confidence(file, request),
                  request.depth, request.ws)
    BY Decomposed DEF OutputInv
  <2>2. output.sub # "null" => output.category = "convert"
    BY <2>1, SubOnlyConverted DEF DecidedAs
  <2>3. MapCategory(format) # "none" =>
          format \in OcrDirect \cup Media \cup Email \cup Convert \cup {"zip"}
    BY DEF MapCategory
  <2>4. ~ByPolicy(format, request.ws) =>
          /\ format \notin request.ws.always
          /\ ~(request.ws.quarantine /\ format \in {"docm", "xlsm", "pptm"})
    BY DEF ByPolicy, Macros
  <2>. QED  BY <2>1, <2>2, <2>3, <2>4 DEF NeverSilent, DecidedAs
<1>. QED  BY <1>1, OutputAlways, PTL

\* The step that a second answer came from.
LEMMA AgainStep ==
  ASSUME OutputInv, [Next]_vars, Again
  PROVE  /\ file' = file /\ file \in Files /\ request \in Requests /\ request' \in Requests
         /\ output = Classified(file, request) /\ output' = Classified(file, request')
<1>1. OutputInv'
  BY OutputStep
<1>2. file' = file
  BY DEF vars, Next, FirstUpload, OtherHint, OtherSuffix, OtherContentType, OtherDepth,
         OtherSettings, Classify
<1>3. NoOutput' = NoOutput
  BY DEF NoOutput
<1>. QED  BY <1>1, <1>2, <1>3 DEF OutputInv, Again

\* Settings that allow more leave what was forwarded as it was.
THEOREM LaxerSettingsForwardAlways == Spec => LaxerSettingsForward
<1>1. ASSUME OutputInv, [Next]_vars, Again, Forwarded(output),
             request' = [request EXCEPT !.ws = request'.ws], Laxer(request.ws, request'.ws)
      PROVE  output' = output
  <2> DEFINE found == Found(file, request)
             score == Confidence(file, request)
  <2>1. /\ file \in Files /\ request \in Requests /\ request' \in Requests
        /\ output = Classified(file, request) /\ output' = Classified(file, request')
    BY <1>1, AgainStep
  <2>2. /\ request'.hint = request.hint /\ request'.suffix = request.suffix
        /\ request'.ctype = request.ctype /\ request'.depth = request.depth
    BY <1>1, <2>1 DEF Requests
  <2>3. Extension(request') = Extension(request)
    BY <2>2 DEF Extension
  <2>4. Found(file, request') = found /\ Confidence(file, request') = score
    BY <2>2, <2>3 DEF Found, Confidence
  <2>5. /\ score \in Int /\ request.depth \in Nat
        /\ request.ws \in Workspaces /\ request'.ws \in Workspaces
        /\ DecidedAs(output, found, score, request.depth, request.ws)
    BY <2>1, Decomposed
  <2>6. /\ MapCategory(found.format) # "none" /\ ~ByPolicy(found.format, request.ws)
        /\ request.depth < request.ws.maxDepth /\ score > request.ws.threshold
    BY <1>1, <2>5 DEF DecidedAs
  <2>7. ~ByPolicy(found.format, request'.ws)
    BY <1>1, <2>6 DEF ByPolicy, Laxer
  <2>8. /\ request.ws.threshold \in Int /\ request'.ws.threshold \in Int
        /\ request.ws.maxDepth \in Nat /\ request'.ws.maxDepth \in Nat
    BY <2>5, Settings
  <2>9. /\ Decide(found.format, score, request.depth, request.ws) = "null"
        /\ Decide(found.format, score, request.depth, request'.ws) = "null"
    <3> HIDE DEF score, found
    <3>1. ~(request.depth >= request'.ws.maxDepth) /\ ~(score <= request'.ws.threshold)
      BY <1>1, <2>5, <2>6, <2>8 DEF Laxer
    <3>2. ~(request.depth >= request.ws.maxDepth) /\ ~(score <= request.ws.threshold)
      BY <2>5, <2>6, <2>8
    <3>. QED  BY <2>6, <2>7, <3>1, <3>2 DEF Decide
  <2>. QED  BY <2>1, <2>2, <2>3, <2>9 DEF Classified, Found, Confidence
<1>2. OutputInv /\ [Next]_vars =>
        [Again /\ request' = [request EXCEPT !.ws = request'.ws]
               /\ Laxer(request.ws, request'.ws) /\ Forwarded(output)
           => output' = output]_vars
  BY <1>1
<1>. QED  BY <1>2, OutputAlways, PTL DEF Spec, LaxerSettingsForward

\* A part name that OOXML uses is found whatever else the ZIP holds.
LEMMA PartFound ==
  ASSUME NEW parts, parts \cap {"word", "xl", "ppt"} # {}
  PROVE  First(<<"word", "xl", "ppt">>, parts, "none") \in {"word", "xl", "ppt"}
<1> DEFINE list == <<"word", "xl", "ppt">>
           hits == {i \in DOMAIN list : list[i] \in parts}
<1>1. DOMAIN list = 1..3 /\ list[1] = "word" /\ list[2] = "xl" /\ list[3] = "ppt"
  OBVIOUS
<1>2. hits \subseteq 1..3 /\ hits # {}
  <2>1. 1 \in hits \/ 2 \in hits \/ 3 \in hits
    BY <1>1
  <2>. QED  BY <1>1, <2>1
<1>3. \A i \in 1..3 : list[i] \in {"word", "xl", "ppt"}
  BY <1>1
<1>4. First(list, parts, "none") = list[CHOOSE i \in hits : \A j \in hits : i <= j]
  BY <1>2 DEF First
<1> HIDE DEF hits, list
<1>5. \E i \in hits : \A j \in hits : i <= j
  <2>1. CASE 1 \in hits
    BY <1>2, <2>1
  <2>2. CASE 1 \notin hits /\ 2 \in hits
    BY <1>2, <2>2
  <2>3. CASE 1 \notin hits /\ 2 \notin hits
    <3>1. \A i \in hits : i = 3
      BY <1>2, <2>3
    <3>2. 3 \in hits
      BY <1>2, <3>1
    <3>. QED  BY <3>1, <3>2
  <2>. QED  BY <2>1, <2>2, <2>3
<1>6. (CHOOSE i \in hits : \A j \in hits : i <= j) \in hits
  BY <1>5
<1>. QED  BY <1>2, <1>3, <1>4, <1>6 DEF list

\* Two extensions for which the bytes are decisive are detected alike.
LEMMA DecisiveDetection ==
  ASSUME NEW f \in Files, NEW x, NEW y, Decisive(f, x), Decisive(f, y)
  PROVE  DetectInSequence(f, x) = DetectInSequence(f, y)
<1>1. CASE f.kind = "signed"
  <2>1. Tier1(f) = f.format /\ f.format \in Signed
    BY <1>1 DEF Tier1, Files
  <2>. QED  BY <1>1, <2>1, ClassificationAssumption DEF DetectInSequence
<1>2. CASE f.kind = "ole2"
  <2>1. f.clsid \in OleById
    BY <1>2 DEF Decisive, Files
  <2>2. \A e : DetectInSequence(f, e) = Tier2Ole2(f.clsid, e)
    BY <1>2 DEF DetectInSequence, Tier1
  <2>. QED  BY <2>1, <2>2 DEF Tier2Ole2
<1>3. CASE f.kind = "zip"
  <2>1. \A e : DetectInSequence(f, e) = Tier2Zip(f.parts, e)
    BY <1>3 DEF DetectInSequence, Tier1
  <2>2. CASE f.parts \cap {"word", "xl", "ppt"} # {}
    <3>1. First(<<"word", "xl", "ppt">>, f.parts, "none") \in {"word", "xl", "ppt"}
      BY <2>2, PartFound
    <3>2. OoxmlFormat(f.parts, x) = OoxmlFormat(f.parts, y)
      BY <3>1 DEF OoxmlFormat
    <3>3. \A e : Tier2Zip(f.parts, e) =
            Detection("zip-marker", OoxmlFormat(f.parts, e), "zip-with-ooxml-or-odf")
      BY <2>2 DEF Tier2Zip
    <3>. QED  BY <2>1, <3>2, <3>3
  <2>3. CASE x \notin Ooxml /\ y \notin Ooxml
    <3>1. OoxmlFormat(f.parts, x) = OoxmlFormat(f.parts, y)
      BY <2>3 DEF OoxmlFormat
    <3>2. Tier2Zip(f.parts, x) = Tier2Zip(f.parts, y)
      BY <2>3, <3>1 DEF Tier2Zip
    <3>. QED  BY <2>1, <3>2
  <2>. QED  BY <1>3, <2>2, <2>3 DEF Decisive
<1>4. CASE f.kind = "text"
  BY <1>4 DEF DetectInSequence, Tier1
<1>. QED  BY <1>1, <1>2, <1>3, <1>4 DEF Decisive

\* One modifier that changes moves the score by 200 thousandths, and rounding
\* each score by one.
LEMMA ScoreMoves ==
  ASSUME NEW d, d.match \in Matches, NEW x, NEW y, NEW s, NEW t, x = y \/ s = t
  PROVE  Score(d, x, s) - Score(d, y, t) <= 202
<1> DEFINE base == BaseScore(d.match)
           e == ExtensionModifier(x, d.format)
           g == ExtensionModifier(y, d.format)
           c == ContentTypeModifier(s, d.format)
           h == ContentTypeModifier(t, d.format)
           a == Sum(d, x, s)
           b == Sum(d, y, t)
           u == Score(d, x, s)
           v == Score(d, y, t)
<1>1. base \in {950, 900, 700, 650, 400, 0}
  BY DEF BaseScore, Matches
<1>2. e \in {-150, 0, 50} /\ g \in {-150, 0, 50} /\ c \in {-100, 0, 50} /\ h \in {-100, 0, 50}
  BY Modifiers
<1>3. e = g \/ c = h
  OBVIOUS
<1>4. a = Clamp(base + e + c) /\ b = Clamp(base + g + h)
  BY DEF Sum, Exact
<1>5. /\ a \in 0..1000 /\ u \in 0..1000 /\ u - a \in {-1, 0, 1}
      /\ b \in 0..1000 /\ v \in 0..1000 /\ v - b \in {-1, 0, 1}
  BY ScoreBounds
<1> HIDE DEF base, e, g, c, h, a, b, u, v
<1>6. (base + e + c) - (base + g + h) <= 200
  BY <1>1, <1>2, <1>3
<1>7. a - b <= 200
  BY <1>1, <1>2, <1>4, <1>6 DEF Clamp
<1>8. u - v <= 202
  BY <1>5, <1>7
<1>. QED  BY <1>8 DEF u, v

\* What is said of a document with decisive bytes does not change what it is.
THEOREM BytesDecideAlways == Spec => BytesDecide
<1>1. ASSUME OutputInv, [Next]_vars, Again, BothDecisive
      PROVE  /\ output'.format = output.format /\ output'.tier = output.tier
             /\ output.score - output'.score <= 202
  <2> DEFINE x == Extension(request)
             y == Extension(request')
             found == Found(file, request)
  <2>1. /\ file \in Files /\ request \in Requests /\ request' \in Requests
        /\ output = Classified(file, request) /\ output' = Classified(file, request')
    BY <1>1, AgainStep
  <2>2. Found(file, request') = found
    BY <1>1, <2>1, DecisiveDetection DEF Found, BothDecisive
  <2>3. /\ found.match \in Matches
        /\ DecidedAs(output, found, Confidence(file, request), request.depth, request.ws)
        /\ DecidedAs(output', found, Confidence(file, request'), request'.depth, request'.ws)
    BY <2>1, <2>2, Decomposed
  <2>4. x = y \/ request.ctype = request'.ctype
    <3>1. CASE UNCHANGED vars
      BY <3>1 DEF vars
    <3>2. CASE \E t \in ContentTypes \cup {"null"} : Classify([request EXCEPT !.ctype = t])
      BY <3>2, <2>1 DEF Classify, Extension, Requests
    <3>3. CASE FirstUpload \/ OtherHint \/ OtherSuffix \/ OtherDepth \/ OtherSettings
      BY <3>3, <2>1 DEF FirstUpload, OtherHint, OtherSuffix, OtherDepth, OtherSettings,
                        Classify, Requests
    <3>. QED  BY <1>1, <3>1, <3>2, <3>3 DEF Next, OtherContentType
  <2>5. Score(found, x, request.ctype) - Score(found, y, request'.ctype) <= 202
    BY <2>3, <2>4, ScoreMoves
  <2>6. /\ output.score = Score(found, x, request.ctype)
        /\ output'.score = Score(found, y, request'.ctype)
    BY <2>2, <2>3 DEF DecidedAs, Confidence
  <2>. QED  BY <2>3, <2>5, <2>6 DEF DecidedAs
<1>2. OutputInv /\ [Next]_vars =>
        [Again /\ BothDecisive =>
           /\ output'.format = output.format /\ output'.tier = output.tier
           /\ output.score - output'.score <= 202]_vars
  BY <1>1
<1>. QED  BY <1>2, OutputAlways, PTL DEF Spec, BytesDecide

LEMMA PartOrNone ==
  ASSUME NEW parts
  PROVE  First(<<"word", "xl", "ppt">>, parts, "none") \in {"word", "xl", "ppt", "none"}
<1> DEFINE list == <<"word", "xl", "ppt">>
<1>1. CASE parts \cap {"word", "xl", "ppt"} # {}
  BY <1>1, PartFound
<1>2. CASE parts \cap {"word", "xl", "ppt"} = {}
  <2>1. DOMAIN list = 1..3 /\ list[1] = "word" /\ list[2] = "xl" /\ list[3] = "ppt"
    OBVIOUS
  <2> HIDE DEF list
  <2>2. {i \in DOMAIN list : list[i] \in parts} = {}
    BY <1>2, <2>1
  <2>3. First(list, parts, "none") = "none"
    BY <2>2 DEF First
  <2>. QED  BY <2>3 DEF list
<1>. QED  BY <1>1, <1>2

LEMMA DetectedAs ==
  ASSUME NEW d, NEW t, NEW x, NEW m, d = Detection(t, x, m)
  PROVE  d.format = x
BY DEF Detection

LEMMA PatternFound ==
  ASSUME NEW looks
  PROVE  Tier3(looks) \in {"xml", "html", "eml", "dxf", "csv", "txt"}
<1> DEFINE list == <<"xml", "html", "eml", "dxf", "csv">>
           hits == {i \in DOMAIN list : list[i] \in looks}
<1>1. /\ DOMAIN list = 1..5
      /\ \A i \in 1..5 : list[i] \in {"xml", "html", "eml", "dxf", "csv"}
  <2>1. /\ DOMAIN list = 1..5
        /\ list[1] = "xml" /\ list[2] = "html" /\ list[3] = "eml"
        /\ list[4] = "dxf" /\ list[5] = "csv"
    OBVIOUS
  <2> HIDE DEF list
  <2>. QED  BY <2>1
<1>2. Tier3(looks) = IF hits = {} THEN "txt"
                     ELSE list[CHOOSE i \in hits : \A j \in hits : i <= j]
  BY DEF Tier3, First
<1>3. hits \subseteq 1..5
  BY <1>1
<1> HIDE DEF hits, list
<1>4. hits # {} => \E i \in hits : \A j \in hits : i <= j
  <2>1. CASE 1 \in hits
    BY <1>3, <2>1
  <2>2. CASE 1 \notin hits /\ 2 \in hits
    BY <1>3, <2>2
  <2>3. CASE 1 \notin hits /\ 2 \notin hits /\ 3 \in hits
    BY <1>3, <2>3
  <2>4. CASE 1 \notin hits /\ 2 \notin hits /\ 3 \notin hits /\ 4 \in hits
    BY <1>3, <2>4
  <2>5. CASE 1 \notin hits /\ 2 \notin hits /\ 3 \notin hits /\ 4 \notin hits
    <3>1. \A i \in hits : i = 5
      BY <1>3, <2>5
    <3>. QED  BY <3>1
  <2>. QED  BY <2>1, <2>2, <2>3, <2>4, <2>5
<1>5. hits # {} => (CHOOSE i \in hits : \A j \in hits : i <= j) \in hits
  BY <1>4
<1>. QED  BY <1>1, <1>2, <1>3, <1>5

\* A format that detection may answer with: one there is a name for, or none.
LEMMA DetectedFormat ==
  ASSUME NEW f \in Files, NEW ext \in Hints \cup {"null", "", "."}
  PROVE  DetectInSequence(f, ext).format \in Formats \cup {"null"}
<1>0. /\ Signed \subseteq Formats /\ Hints \subseteq Formats
      /\ OleById \subseteq Formats /\ Ooxml \subseteq Formats /\ Odf \subseteq Formats
      /\ {"xml", "html", "eml", "dxf", "csv", "txt", "zip", "pps", "mpp", ""} \subseteq Formats
  BY DEF Formats
<1>1. ByExtensionOnly(ext).format \in Formats \cup {"null"}
  BY <1>0 DEF ByExtensionOnly, Detection, Stated
<1>2. CASE f.kind = "signed"
  <2>1. Tier1(f) = f.format /\ f.format \in Signed
    BY <1>2 DEF Tier1, Files
  <2>2. DetectInSequence(f, ext) = Detection("file-type", f.format, "exact-unique-signature")
    BY <1>2, <2>1, ClassificationAssumption DEF DetectInSequence
  <2>3. DetectInSequence(f, ext).format = f.format
    BY <2>2, DetectedAs
  <2>. QED  BY <1>0, <2>1, <2>3
<1>3. CASE f.kind = "ole2"
  <2>1. DetectInSequence(f, ext) = Tier2Ole2(f.clsid, ext)
    BY <1>3 DEF DetectInSequence, Tier1
  <2>2. OleByExtension(ext) \in Formats \cup {"null"}
    <3>1. OleByExtension(ext) \in OleById \cup {"pps", "mpp", "null"}
      BY DEF OleByExtension, OleById
    <3>. QED  BY <1>0, <3>1
  <2>3. ASSUME NEW tier, NEW x \in Formats \cup {"null"}, NEW match,
               DetectInSequence(f, ext) = Detection(tier, x, match)
        PROVE  DetectInSequence(f, ext).format \in Formats \cup {"null"}
    <3>1. DetectInSequence(f, ext).format = x
      BY <2>3, DetectedAs
    <3>. QED  BY <3>1
  <2>4. CASE f.clsid \in OleById
    BY <1>0, <2>1, <2>3, <2>4 DEF Tier2Ole2
  <2>5. CASE f.clsid \notin OleById /\ OleByExtension(ext) # "null"
    BY <2>1, <2>2, <2>3, <2>5 DEF Tier2Ole2
  <2>6. CASE f.clsid \notin OleById /\ OleByExtension(ext) = "null"
    BY <1>1, <2>1, <2>6 DEF Tier2Ole2
  <2>. QED  BY <2>4, <2>5, <2>6
<1>4. CASE f.kind = "zip"
  <2>1. DetectInSequence(f, ext) = Tier2Zip(f.parts, ext)
    BY <1>4 DEF DetectInSequence, Tier1
  <2>2. OoxmlFormat(f.parts, ext) \in Ooxml
    <3>1. First(<<"word", "xl", "ppt">>, f.parts, "none") \in {"word", "xl", "ppt", "none"}
      BY PartOrNone
    <3>2. {"docx", "xlsx", "pptx"} \subseteq Ooxml
      BY DEF Ooxml
    <3>. QED  BY <3>1, <3>2 DEF OoxmlFormat
  <2>3. f.parts \cap Odf # {} => (CHOOSE o \in f.parts \cap Odf : TRUE) \in Odf
    OBVIOUS
  <2>4. Tier2Zip(f.parts, ext).format \in Ooxml \cup Odf \cup {"zip"}
    BY <2>2, <2>3 DEF Tier2Zip, Detection
  <2>. QED  BY <1>0, <2>1, <2>4
<1>5. CASE f.kind = "text"
  <2>1. DetectInSequence(f, ext) = Detection("text-heuristic", Tier3(f.looks), "text-heuristic")
    BY <1>5 DEF DetectInSequence, Tier1
  <2>2. DetectInSequence(f, ext).format = Tier3(f.looks)
    BY <2>1, DetectedAs
  <2>. QED  BY <1>0, <2>2, PatternFound
<1>6. CASE f.kind = "opaque"
  <2>1. DetectInSequence(f, ext) = ByExtensionOnly(ext)
    BY <1>6 DEF DetectInSequence, Tier1
  <2>. QED  BY <1>1, <2>1
<1>. QED  BY <1>2, <1>3, <1>4, <1>5, <1>6 DEF Files

\* Every output is one that the consumers of the service know.
THEOREM TypeCorrect == Spec => []TypeOK
<1>1. ASSUME OutputInv, output = Classified(file, request)
      PROVE  output \in Output
  <2> DEFINE d == Found(file, request)
             score == Confidence(file, request)
             reason == Decide(d.format, score, request.depth, request.ws)
             why == IF reason = "null" /\ MapCategory(d.format) = "none"
                    THEN "low-confidence" ELSE reason
  <2>1. Extension(request) \in Hints \cup {"null", "", "."}
    BY <1>1 DEF OutputInv, Requests, Extension
  <2>2. d.format \in Formats \cup {"null"} /\ d.match \in Matches /\ d.tier \in Tiers
    BY <1>1, <2>1, DetectedFormat, DetectionShape DEF OutputInv, Found
  <2>3. score \in 0..1000
    BY <2>2, ScoreBounds DEF Confidence
  <2>4. reason \in {"null", "workspace-policy", "max-zip-depth", "low-confidence"}
    BY DEF Decide
  <2>5. /\ MapCategory(d.format) \in {"ocr-direct", "media", "email", "convert", "archive", "none"}
        /\ SubCategory(d.format, d.tier) \in {"null", "office", "tiff", "html", "convert-then-ocr"}
    BY DEF MapCategory, SubCategory
  <2>6. output = [format   |-> IF d.format = "null" THEN "unknown" ELSE d.format,
                  tier     |-> d.tier,
                  score    |-> score,
                  reason   |-> why,
                  category |-> IF why = "null" THEN MapCategory(d.format) ELSE "slipsheet",
                  sub      |-> IF why = "null" THEN SubCategory(d.format, d.tier) ELSE "null"]
    BY <1>1 DEF Classified, Found, Confidence, Build
  <2>7. "unknown" \in Formats
    BY DEF Formats
  <2>8. /\ why \in {"null", "workspace-policy", "max-zip-depth", "low-confidence"}
        /\ why = "null" => MapCategory(d.format) # "none"
    BY <2>4
  <2> HIDE DEF d, score, reason, why
  <2>. QED  BY <2>2, <2>3, <2>5, <2>6, <2>7, <2>8 DEF Output, Tiers
<1>2. OutputInv => TypeOK
  BY <1>1 DEF OutputInv, TypeOK
<1>. QED  BY <1>2, OutputAlways, PTL

\* No name is no known extension, and its own name is never a mismatch.
LEMMA NameModifiers ==
  ASSUME NEW format, NEW x, NEW y, ~Stated(x),
         format = "null" \/ (y = format /\ format \notin DOMAIN OtherExtension)
  PROVE  /\ ExtensionModifier(x, format) = 0
         /\ ExtensionModifier(y, format) \in {0, 50}
<1>1. DOMAIN OtherExtension = {"xlt", "pot", "vst", "tif", "jpeg", "mov", "htm"}
  BY DEF OtherExtension
<1>2. x \notin KnownExtension
  BY <1>1 DEF Stated, KnownExtension, Described, OleById, Ooxml, Odf
<1>3. CASE format = "null"
  BY <1>3 DEF ExtensionModifier
<1>4. CASE format # "null"
  <2>1. ExtensionModifier(x, format) = 0
    BY <1>2 DEF ExtensionModifier
  <2>2. y \in KnownExtension => Fits(y, format)
    BY <1>4 DEF KnownExtension, Fits
  <2>. QED  BY <2>1, <2>2 DEF ExtensionModifier
<1>. QED  BY <1>3, <1>4

\* A modifier of 50 in place of none outweighs what rounding adds to the score
\* without it; where the score cannot rise nothing is rounded.
LEMMA ScoreGains ==
  ASSUME NEW d, d.match \in Matches, NEW x, NEW y, NEW ctype,
         ExtensionModifier(x, d.format) = 0, ExtensionModifier(y, d.format) \in {0, 50}
  PROVE  Score(d, x, ctype) <= Score(d, y, ctype)
<1> DEFINE base == BaseScore(d.match)
           c == ContentTypeModifier(ctype, d.format)
           a == Sum(d, x, ctype)
           b == Sum(d, y, ctype)
           u == Score(d, x, ctype)
           v == Score(d, y, ctype)
<1>1. base \in {950, 900, 700, 650, 400, 0}
  BY DEF BaseScore, Matches
<1>2. c \in {-100, 0, 50}
  BY Modifiers
<1>3. /\ a \in 0..1000 /\ u \in 0..1000 /\ u - a \in {-1, 0, 1}
      /\ b \in 0..1000 /\ v \in 0..1000 /\ v - b \in {-1, 0, 1}
  BY ScoreBounds
<1>4. CASE ExtensionModifier(y, d.format) = 0
  <2>1. u = v
    BY <1>4 DEF Score
  <2>. QED  BY <1>3, <2>1
<1>5. CASE ExtensionModifier(y, d.format) = 50
  <2>1. /\ a = Clamp(base + 0 + c) /\ b = Clamp(base + 50 + c)
        /\ u = Clamp(base + 0 + c) + Rounding(<<base, 0, c>>)
        /\ v = Clamp(base + 50 + c) + Rounding(<<base, 50, c>>)
    BY <1>5 DEF Sum, Exact, Score
  <2> HIDE DEF base, c, a, b, u, v
  <2>2. CASE base + c < 0
    <3>1. base = 0 /\ c = -100
      BY <1>1, <1>2, <2>2
    <3>2. Clamp(base + 0 + c) = 0 /\ Clamp(base + 50 + c) = 0
      BY <3>1 DEF Clamp
    <3>3. Rounding(<<base, 0, c>>) = 0 /\ Rounding(<<base, 50, c>>) = 0
      BY <3>1 DEF Rounding, Above, Below
    <3>. QED  BY <2>1, <3>2, <3>3 DEF u, v
  <2>3. CASE base + c > 950
    <3>1. base = 950 /\ c = 50
      BY <1>1, <1>2, <2>3
    <3>2. Clamp(base + 0 + c) = 1000 /\ Clamp(base + 50 + c) = 1000
      BY <3>1 DEF Clamp
    <3>3. Rounding(<<base, 0, c>>) = 0 /\ Rounding(<<base, 50, c>>) = 0
      BY <3>1 DEF Rounding, Above, Below
    <3>. QED  BY <2>1, <3>2, <3>3 DEF u, v
  <2>4. CASE base + c \in 0..950
    <3>1. a = base + c /\ b = base + c + 50
      BY <1>1, <1>2, <2>1, <2>4 DEF Clamp
    <3>2. u <= v
      BY <1>1, <1>2, <1>3, <3>1
    <3>. QED  BY <3>2 DEF u, v
  <2>. QED  BY <1>1, <1>2, <2>2, <2>3, <2>4
<1>. QED  BY <1>4, <1>5

\* A document called by its own name is trusted no less than one without a name,
\* and goes on where that one did.
THEOREM OwnNameHelpsAlways == Spec => OwnNameHelps
<1>1. ASSUME OutputInv, [Next]_vars, Again, BothDecisive,
             output.format \notin DOMAIN OtherExtension,
             request' = [request EXCEPT !.hint = output.format],
             ~Stated(Extension(request))
      PROVE  /\ output'.score >= output.score
             /\ Forwarded(output) => Forwarded(output')
  <2> DEFINE x == Extension(request)
             y == Extension(request')
             found == Found(file, request)
             u == Confidence(file, request)
             v == Confidence(file, request')
  <2>1. /\ file \in Files /\ request \in Requests /\ request' \in Requests
        /\ output = Classified(file, request) /\ output' = Classified(file, request')
    BY <1>1, AgainStep
  <2>2. /\ request'.hint = output.format /\ request'.ctype = request.ctype
        /\ request'.depth = request.depth /\ request'.ws = request.ws
    BY <1>1, <2>1 DEF Requests
  <2>3. Found(file, request') = found
    BY <1>1, <2>1, DecisiveDetection DEF Found, BothDecisive
  <2>4. /\ found.match \in Matches /\ u \in Int /\ v \in Int
        /\ request.depth \in Nat /\ request.ws \in Workspaces
        /\ DecidedAs(output, found, u, request.depth, request.ws)
        /\ DecidedAs(output', found, v, request.depth, request.ws)
    BY <2>1, <2>2, <2>3, Decomposed
  <2>5. found.format = "null" \/ (y = found.format /\ found.format \notin DOMAIN OtherExtension)
    <3>1. found.format # "null" => output.format = found.format
      BY <2>4 DEF DecidedAs
    <3>. QED  BY <1>1, <2>2, <3>1 DEF Extension
  <2>6. /\ ExtensionModifier(x, found.format) = 0
        /\ ExtensionModifier(y, found.format) \in {0, 50}
    BY <1>1, <2>5, NameModifiers
  <2>7. Score(found, x, request.ctype) <= Score(found, y, request.ctype)
    BY <2>4, <2>6, ScoreGains
  <2>8. u <= v
    BY <2>2, <2>3, <2>7 DEF Confidence
  <2>9. request.ws.threshold \in Int
    BY <2>4, Settings
  <2>10. u > request.ws.threshold => v > request.ws.threshold
    <3> HIDE DEF u, v
    <3>. QED  BY <2>4, <2>8, <2>9
  <2>11. output.score = u /\ output'.score = v
    BY <2>4 DEF DecidedAs
  <2>12. Forwarded(output) => Forwarded(output')
    BY <2>4, <2>10 DEF DecidedAs
  <2>13. v >= u
    <3> HIDE DEF u, v
    <3>. QED  BY <2>4, <2>8
  <2>. QED  BY <2>11, <2>12, <2>13
<1>2. OutputInv /\ [Next]_vars =>
        [Again /\ BothDecisive /\ output.format \notin DOMAIN OtherExtension
               /\ request' = [request EXCEPT !.hint = output.format]
               /\ ~Stated(Extension(request))
           => /\ output'.score >= output.score
              /\ Forwarded(output) => Forwarded(output')]_vars
  BY <1>1
<1>. QED  BY <1>2, OutputAlways, PTL DEF Spec, OwnNameHelps
=============================================================================
