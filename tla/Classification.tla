--------------------------- MODULE Classification ---------------------------
(***************************************************************************)
(* What a document is taken for, and where it goes: the detectors, the     *)
(* score, the category and the slipsheet decision of src/domain, in the    *)
(* order in which classify in src/application/ClassificationService.ts     *)
(* calls them.  All of it is pure; the state is one document, classified   *)
(* again and again with one thing about the request, or the settings of    *)
(* the workspace, changed each time.                                       *)
(*                                                                         *)
(* The document is what the detectors can tell of its first 4100 bytes.    *)
(* Scores and thresholds are in thousandths; a threshold has two decimals, *)
(* which leaves a thousandth to tell on which side of it a double falls.   *)
(* Hints are already in lower case and without a leading dot, to which     *)
(* every consumer reduces them; "." is the hint of which nothing remains.  *)
(***************************************************************************)
EXTENDS Integers, FiniteSets

CONSTANTS
  Signed,        \* formats that file-type names from a signature of their own
  Parts,         \* entries a ZIP may show: "content" ([Content_Types].xml),
                 \* "word", "xl", "ppt", an ODF format (a stored mimetype entry
                 \* naming it), "other"
  Looks,         \* text patterns: subset of {"xml", "html", "eml", "dxf", "csv"}
  Hints,         \* extensions callers may state, beyond "null", "" and "."
  ContentTypes,  \* the format a content type stands for, beyond "null"
  Ruled,         \* formats that a rule of a workspace may name
  Thresholds,    \* thresholds workspaces may set
  Depths         \* archive depths, of parents and as limits

ASSUME ClassificationAssumption ==
  /\ \A S \in {Signed, Parts, Looks, Hints, ContentTypes, Ruled} : IsFiniteSet(S)
  /\ {"none", "cfb", "zip", "null"} \cap Signed = {}
  /\ Looks \subseteq {"xml", "html", "eml", "dxf", "csv"}
  /\ "null" \notin Hints \cup Ruled /\ {"", "."} \cap Hints = {}
  /\ Thresholds \subseteq {10 * n : n \in 0..100} /\ Depths \subseteq Nat

VARIABLES file, request, output

vars == <<file, request, output>>

(***************************************************************************)
(* Detection                                                               *)
(***************************************************************************)
OleById == {"doc", "xls", "ppt", "msg", "vsd"}
Ooxml   == {"docx", "docm", "xlsx", "xlsm", "pptx", "pptm", "ppsx"}
Odf     == {"odt", "ods", "odp", "odg"}

Files ==
       [kind : {"signed"}, format : Signed]
  \cup [kind : {"ole2"}, clsid : OleById \cup {"unreadable"}]
  \cup [kind : {"zip"}, parts : SUBSET Parts]    \* {}: no entry can be read
  \cup [kind : {"text"}, looks : SUBSET Looks]
  \cup [kind : {"opaque"}]                       \* binary without a signature

\* The library names its containers only when it cannot see what is inside.
Tier1(f) == CASE f.kind = "signed" -> f.format
              [] f.kind = "ole2"   -> "cfb"
              [] f.kind = "zip"    -> "zip"
              [] OTHER             -> "none"

\* The OLE2 formats that share an extension map; "null" for any other.
OleByExtension(ext) ==
  CASE ext \in OleById \cup {"pps", "mpp"} -> ext
    [] ext = "xlt" -> "xls"
    [] ext = "pot" -> "ppt"
    [] ext = "vst" -> "vsd"
    [] OTHER       -> "null"

Detection(tier, format, match) == [tier |-> tier, format |-> format, match |-> match]

\* The first of a list that is in a set.
First(list, S, default) ==
  LET hits == {i \in DOMAIN list : list[i] \in S}
  IN IF hits = {} THEN default
     ELSE list[CHOOSE i \in hits : \A j \in hits : i <= j]

\* Slip: the extension decides before the part names.
ExtensionFirst(parts, ext) ==
  IF ext \in Ooxml THEN ext
  ELSE LET part == First(<<"word", "xl", "ppt">>, parts, "none")
       IN CASE part = "xl" -> "xlsx" [] part = "ppt" -> "pptx" [] OTHER -> "docx"

\* A part name decides before the extension does, which alone knows the macro
\* and slide show variants.
OoxmlFormat(parts, ext) ==
  LET part == First(<<"word", "xl", "ppt">>, parts, "none")
  IN CASE part = "word" -> "docx"
       [] part = "xl"   -> "xlsx"
       [] part = "ppt"  -> "pptx"
       [] part = "none" -> IF ext \in Ooxml THEN ext ELSE "docx"

\* A ZIP always gets an answer: OOXML by its entries or the extension, ODF by
\* its mimetype entry, or a plain archive.
Tier2Zip(parts, ext) ==
  LET office == parts \cap {"content", "word", "xl", "ppt"} # {} \/ ext \in Ooxml
      odf    == parts \cap Odf
  IN IF parts # {} /\ office
     THEN Detection("zip-marker", OoxmlFormat(parts, ext), "zip-with-ooxml-or-odf")
     ELSE IF odf # {}
     THEN Detection("zip-marker", CHOOSE o \in odf : TRUE, "zip-with-ooxml-or-odf")
     ELSE Detection("zip-marker", "zip", "exact-unique-signature")

\* Text patterns in their order of priority; any other text is plain.
Tier3(looks) == First(<<"xml", "html", "eml", "dxf", "csv">>, looks, "txt")

\* An empty extension counts as none, a lone dot as one.
Stated(ext) == ext \notin {"null", ""}

\* Nothing in the bytes: the extension is all there is, without its dot.
ByExtensionOnly(ext) ==
  IF Stated(ext)
  THEN Detection("extension-fallback", IF ext = "." THEN "" ELSE ext, "extension-only")
  ELSE Detection("extension-fallback", "null", "no-match")

\* An OLE2 container whose class says nothing; its own header is binary, which
\* keeps the text detector away.
Tier2Ole2(clsid, ext) ==
  IF clsid \in OleById
  THEN Detection("ole2-clsid", clsid, "ole2-with-clsid")
  ELSE IF OleByExtension(ext) # "null"
  THEN Detection("extension-fallback", OleByExtension(ext), "ole2-or-zip-ext-fallback")
  ELSE ByExtensionOnly(ext)

DetectInSequence(f, ext) ==
  CASE Tier1(f) \notin {"none", "cfb", "zip"} ->
         Detection("file-type", Tier1(f), "exact-unique-signature")
    [] f.kind = "ole2"   -> Tier2Ole2(f.clsid, ext)
    [] f.kind = "zip"    -> Tier2Zip(f.parts, ext)
    [] f.kind = "text"   -> Detection("text-heuristic", Tier3(f.looks), "text-heuristic")
    [] f.kind = "opaque" -> ByExtensionOnly(ext)

(***************************************************************************)
(* Score                                                                   *)
(***************************************************************************)
BaseScore(match) ==
  CASE match = "exact-unique-signature" -> 950
    [] match \in {"ole2-with-clsid", "zip-with-ooxml-or-odf"} -> 900
    [] match = "ole2-or-zip-ext-fallback" -> 700
    [] match = "text-heuristic" -> 650
    [] match = "extension-only" -> 400
    [] match = "no-match" -> 0

\* Formats with metadata.  TIFF has it under "tiff", while file-type says "tif".
Described == OleById \cup Ooxml \cup Odf \cup
  {"pdf", "pps", "mpp", "rtf", "dwg", "tiff", "png", "jpg", "bmp", "gif", "mp3", "wav",
   "ogg", "mp4", "zip", "xml", "html", "eml", "dxf", "csv", "txt"}

OtherExtension ==
  [e \in {"xlt", "pot", "vst", "tif", "jpeg", "mov", "htm"} |->
     CASE e = "xlt" -> "xls" [] e = "pot" -> "ppt"  [] e = "vst" -> "vsd"
       [] e = "tif" -> "tiff" [] e = "jpeg" -> "jpg" [] e = "mov" -> "mp4"
       [] e = "htm" -> "html"]

KnownExtension == Described \cup DOMAIN OtherExtension

\* For a known extension.
Fits(ext, format) ==
  IF ext \in Described THEN ext = format ELSE OtherExtension[ext] = format

\* Slip: the two modifiers confused.
ModifierSwapped(ext, format) ==
  IF format = "null" \/ ext \notin KnownExtension THEN 0
  ELSE IF Fits(ext, format) THEN -150 ELSE 50

ExtensionModifier(ext, format) ==
  IF format = "null" \/ ext \notin KnownExtension THEN 0
  ELSE IF Fits(ext, format) THEN 50 ELSE -150

\* The content types of the macro formats are listed in mixed case and compared
\* with lower case, so they are never known; PPS shares the one of PPT.
KnownType == Described \ {"docm", "xlsm", "pptm", "pps"}
TypeFits(ctype, format) == ctype = format \/ (ctype = "ppt" /\ format = "pps")

ContentTypeModifier(ctype, format) ==
  IF format = "null" \/ ctype \notin KnownType THEN 0
  ELSE IF TypeFits(ctype, format) THEN 50 ELSE -100

\* Slip: only the lower end is kept.
ClampBelow(x) == IF x < 0 THEN 0 ELSE x

Clamp(x) == IF x < 0 THEN 0 ELSE IF x > 1000 THEN 1000 ELSE x

Exact(match, e, c) == Clamp(BaseScore(match) + e + c)

\* The sums that doubles miss, upwards or downwards.
Above == {<<900, 50, -100>>, <<900, 50, 0>>, <<900, 0, 50>>, <<650, 50, 50>>,
          <<650, 50, -100>>, <<650, 50, 0>>, <<650, 0, 50>>, <<400, 0, -100>>}
Below == {<<950, -150, 0>>, <<700, -150, -100>>, <<700, -150, 0>>}

Rounding(sum) == IF sum \in Above THEN 1 ELSE IF sum \in Below THEN -1 ELSE 0

Score(d, ext, ctype) ==
  LET e == ExtensionModifier(ext, d.format)
      c == ContentTypeModifier(ctype, d.format)
  IN Exact(d.match, e, c) + Rounding(<<BaseScore(d.match), e, c>>)

(***************************************************************************)
(* Category and slipsheet                                                  *)
(***************************************************************************)
OcrDirect == {"pdf", "jpg", "png", "bmp"}
Media     == {"gif", "mp3", "wav", "ogg", "mp4"}
Email     == {"msg", "eml"}
Office    == {"doc", "xls", "ppt", "pps", "vsd", "mpp", "rtf"} \cup Odf \cup Ooxml
Convert   == Office \cup {"tif", "tiff", "dwg", "xml", "csv", "dxf", "html", "txt"}
ThenOcr   == {"doc", "xls", "ppt", "pps", "vsd"}

\* "none" for a format the table does not have.
MapCategory(format) ==
  CASE format \in OcrDirect -> "ocr-direct"
    [] format \in Media     -> "media"
    [] format \in Email     -> "email"
    [] format \in Convert   -> "convert"
    [] format = "zip"       -> "archive"
    [] OTHER                -> "none"

SubCategory(format, tier) ==
  CASE format \in {"tif", "tiff"} -> "tiff"
    [] format = "html"           -> "html"
    [] format \in Office         -> IF format \in ThenOcr /\ tier = "ole2-clsid"
                                    THEN "convert-then-ocr" ELSE "office"
    [] OTHER                     -> "null"

Macros == {"docm", "xlsm", "pptm"}

\* always: the formats with an "always-slipsheet" rule.
ByPolicy(format, ws) == format \in ws.always \/ (ws.quarantine /\ format \in Macros)

\* Slip: a document at the limit goes through.
DecideBeyond(format, score, depth, ws) ==
  IF ByPolicy(format, ws) THEN "workspace-policy"
  ELSE IF depth > ws.maxDepth THEN "max-zip-depth"
  ELSE IF score <= ws.threshold THEN "low-confidence" ELSE "null"

\* Slip: a limit of zero taken for no limit.
DecideZeroUnset(format, score, depth, ws) ==
  IF ByPolicy(format, ws) THEN "workspace-policy"
  ELSE IF ws.maxDepth # 0 /\ depth >= ws.maxDepth THEN "max-zip-depth"
  ELSE IF score <= ws.threshold THEN "low-confidence" ELSE "null"

\* The reason for a slipsheet, "null" when there is none.
Decide(format, score, depth, ws) ==
  IF ByPolicy(format, ws) THEN "workspace-policy"
  ELSE IF depth >= ws.maxDepth THEN "max-zip-depth"
  ELSE IF score <= ws.threshold THEN "low-confidence" ELSE "null"

\* A format without a category goes to a slipsheet whatever was decided.
Build(d, score, reason) ==
  LET category == MapCategory(d.format)
      why      == IF reason = "null" /\ category = "none" THEN "low-confidence" ELSE reason
  IN [format   |-> IF d.format = "null" THEN "unknown" ELSE d.format,
      tier     |-> d.tier,
      score    |-> score,
      reason   |-> why,
      category |-> IF why = "null" THEN category ELSE "slipsheet",
      sub      |-> IF why = "null" THEN SubCategory(d.format, d.tier) ELSE "null"]

(***************************************************************************)
(* Requests                                                                *)
(***************************************************************************)
Workspaces == [threshold : Thresholds, maxDepth : Depths,
               quarantine : BOOLEAN, always : SUBSET Ruled]

\* suffix: the extension the object key ends in.
Requests == [hint : Hints \cup {"null", "", "."}, suffix : Hints \cup {"null"},
             ctype : ContentTypes \cup {"null"}, depth : Depths, ws : Workspaces]

\* The caller's extension wins, even an empty one.
Extension(r) == IF r.hint = "null" THEN r.suffix ELSE r.hint

Classified(f, r) ==
  LET d     == DetectInSequence(f, Extension(r))
      score == Score(d, Extension(r), r.ctype)
  IN Build(d, score, Decide(d.format, score, r.depth, r.ws))

NoOutput == [tier |-> "none"]

Init ==
  /\ file \in Files /\ request \in Requests
  /\ output = NoOutput

Classify(r) ==
  /\ request' = r
  /\ output' = Classified(file, r)
  /\ UNCHANGED file

\* The document is uploaded as it was, with another name or content type, from
\* another depth, or after an administrator has changed a setting.
FirstUpload == output = NoOutput /\ Classify(request)

OtherHint ==
  \E h \in Hints \cup {"null", "", "."} : Classify([request EXCEPT !.hint = h])

OtherSuffix ==
  \E h \in Hints \cup {"null"} : Classify([request EXCEPT !.suffix = h])

OtherContentType ==
  \E c \in ContentTypes \cup {"null"} : Classify([request EXCEPT !.ctype = c])

OtherDepth == \E n \in Depths : Classify([request EXCEPT !.depth = n])

OtherSettings ==
  \E ws \in Workspaces : Classify([request EXCEPT !.ws = ws])

Next ==
  \/ FirstUpload
  \/ /\ output # NoOutput
     /\ OtherHint \/ OtherSuffix \/ OtherContentType \/ OtherDepth \/ OtherSettings

Spec == Init /\ [][Next]_vars

(***************************************************************************)
(* Properties                                                              *)
(***************************************************************************)
Formats == Signed \cup Hints \cup OleById \cup Ooxml \cup Odf
             \cup {"pps", "mpp", "zip", "xml", "html", "eml", "dxf", "csv", "txt", "unknown", ""}

Output == [format : Formats,
           tier : {"file-type", "ole2-clsid", "zip-marker", "text-heuristic",
                   "extension-fallback"},
           score : 0..1000,
           reason : {"null", "workspace-policy", "max-zip-depth", "low-confidence"},
           category : {"ocr-direct", "media", "email", "convert", "archive", "slipsheet"},
           sub : {"null", "office", "tiff", "html", "convert-then-ocr"}]

TypeOK ==
  /\ file \in Files /\ request \in Requests
  /\ output \in Output \cup {NoOutput}

Forwarded(o) == o.category # "slipsheet"

\* A document goes on only when nothing was against it, and then to a place
\* that knows what to do with it: no output that OutputBuilder leaves half
\* decided (BR-3-FS-3 of the handler's business rules).
NeverSilent ==
  output # NoOutput =>
    /\ Forwarded(output) <=> output.reason = "null"
    /\ output.sub # "null" => output.category = "convert"
    /\ Forwarded(output) =>
         /\ output.format \in OcrDirect \cup Media \cup Email \cup Convert \cup {"zip"}
         /\ output.format \notin request.ws.always
         /\ ~(request.ws.quarantine /\ output.format \in {"docm", "xlsm", "pptm"})
         /\ request.depth < request.ws.maxDepth
         /\ output.score > request.ws.threshold

Again == output # NoOutput /\ output' # NoOutput

\* Files whose bytes settle what they are, for this extension: a ZIP without a
\* part name of OOXML does so only for an extension that is not of OOXML, which
\* Tier2ZIPDetector.ts:46-47 looks at before the mimetype entry of an ODF file
\* (:56), where BR-Z-4 has the mimetype decide.
Decisive(f, ext) ==
  \/ f.kind \in {"signed", "text"}
  \/ f.kind = "ole2" /\ f.clsid # "unreadable"
  \/ f.kind = "zip" /\ (f.parts \cap {"word", "xl", "ppt"} # {} \/ ext \notin Ooxml)

BothDecisive == /\ Decisive(file, Extension(request))
                /\ Decisive(file, Extension(request'))

\* What callers and administrators say never changes what decisive bytes are
\* taken for or in which tier, and one change moves the score by a fifth at most
\* (detectInSequence, Scorer).
BytesDecide ==
  [][Again /\ BothDecisive =>
       /\ output'.format = output.format /\ output'.tier = output.tier
       /\ output.score - output'.score <= 202]_vars

Laxer(ws, other) ==
  /\ other.threshold <= ws.threshold /\ other.maxDepth >= ws.maxDepth
  /\ other.quarantine => ws.quarantine
  /\ other.always \subseteq ws.always

\* Settings that allow more never hold back a document that went on before,
\* and send it to the same place.
LaxerSettingsForward ==
  [][Again /\ request' = [request EXCEPT !.ws = request'.ws]
           /\ Laxer(request.ws, request'.ws) /\ Forwarded(output)
       => output' = output]_vars

\* A document called by its own name is never trusted less than one without a
\* name.  Formats that file-type names by what format-metadata.ts lists as a
\* second extension of another (tif, mov) are the exception.
OwnNameHelps ==
  [][Again /\ BothDecisive /\ output.format \notin DOMAIN OtherExtension
           /\ request' = [request EXCEPT !.hint = output.format]
           /\ ~Stated(Extension(request))
       => /\ output'.score >= output.score
          /\ Forwarded(output) => Forwarded(output')]_vars
=============================================================================
