-------------------------- MODULE MediaAnalysisProofs --------------------------
(***************************************************************************)
(* Proofs about MediaAnalysis: whatever yt-dlp and ffprobe report, the     *)
(* parser's loop lists it completely and without repetition, an analysis   *)
(* that succeeds has variants, and their flags agree.                      *)
(***************************************************************************)
EXTENDS MediaAnalysis, TLAPS

(* What the parser has taken when it comes to the n-th format of a report  *)
(* r: the formats t, with the keys s.                                      *)
TakenBefore(r, n, s, t) ==
    /\ s = {Key(r[t[m]]) : m \in 1 .. Len(t)}
    /\ \A m \in 1 .. Len(t) : t[m] < n /\ Usable(r[t[m]])
    /\ \A k, m \in 1 .. Len(t) : k < m => t[k] < t[m] /\ Key(r[t[k]]) # Key(r[t[m]])
    /\ \A l \in 1 .. n - 1 : Usable(r[l]) =>
            \E m \in 1 .. Len(t) : t[m] <= l /\ Key(r[t[m]]) = Key(r[l])

(* The report is there only from the parser on.                            *)
LoopInv ==
    /\ stage \in {"idle", "route", "ytdlp", "ffprobe"} => report = <<>>
    /\ stage \in {"build", "done"} => i = Len(report) + 1
    /\ stage = "build" => picked # <<>>
    /\ TakenBefore(report, i, seen, picked)

AnalysisInv ==
    /\ AnalysisTypeOK
    /\ LoopInv
    /\ SuccessHasVariants
    /\ VariantsAreConsistent
-------------------------------------------------------------------------------
(* The operators.                                                          *)

(* The parser's test is the one a client would make.                       *)
LEMMA UsableIsListable ==
    ASSUME NEW f \in Format
    PROVE  Usable(f) <=> Listable(f)
  BY DEF Usable, Listable, NoVideo, NoAudio, NormalizeCodec, Known

(* The key tells apart exactly what a client can tell apart.               *)
LEMMA KeyIsAlike ==
    ASSUME NEW f \in Format, NEW g \in Format
    PROVE  Key(f) = Key(g) <=> Alike(f, g)
<1>1. ASSUME NEW c \in STRING, NEW d \in STRING
      PROVE  NormalizeCodec(c) = NormalizeCodec(d) <=> SameCodec(c, d)
  BY DEF NormalizeCodec, SameCodec, Known
<1>2. /\ f.vcodec \in STRING /\ g.vcodec \in STRING
      /\ f.acodec \in STRING /\ g.acodec \in STRING
  BY DEF Format
<1>3. QED
  BY <1>1, <1>2 DEF Key, Alike

LEMMA MimeTells ==
    ASSUME NEW c, NEW a \in BOOLEAN
    PROVE  /\ MimeFromContainer(c, a) \in AudioMimes \cup VideoMimes
           /\ MimeFromContainer(c, a) \in AudioMimes <=> a
  BY DEF MimeFromContainer, AudioMimes, VideoMimes, AudioTypes, VideoTypes

Consistent(v) ==
    /\ ~(v.audioOnly /\ v.videoOnly)
    /\ v.adaptive <=> v.audioOnly \/ v.videoOnly
    /\ v.audioOnly => v.vcodec = ""
    /\ v.videoOnly => v.acodec = ""
    /\ v.mime \in AudioMimes <=> v.audioOnly

(* The flags a variant is built with decide the rest of it.                *)
LEMMA BuiltConsistent ==
    ASSUME NEW c, NEW v \in Codecs, NEW a \in Codecs,
           NEW p \in BOOLEAN, NEW q \in BOOLEAN, NEW d \in BOOLEAN,
           NEW m \in AudioMimes \cup VideoMimes,
           c \in {"mp4"} \cup {Fold[f.ext] : f \in Formats} \cup Containers,
           ~(p /\ q), d <=> p \/ q, p => v = "", q => a = "", m \in AudioMimes <=> p,
           NEW r,
           r = [container |-> c, vcodec |-> v, acodec |-> a, audioOnly |-> p,
                videoOnly |-> q, adaptive |-> d, mime |-> m]
    PROVE  r \in Variant /\ Consistent(r)
<1>1. r \in Variant
  BY Zenon DEF Variant
<1>2. /\ r.audioOnly = p /\ r.videoOnly = q /\ r.adaptive = d
      /\ r.vcodec = v /\ r.acodec = a /\ r.mime = m
  BY Zenon
<1>3. Consistent(r)
  BY <1>2, Zenon DEF Consistent
<1>4. QED
  BY <1>1, <1>3

LEMMA FormatVariantIsConsistent ==
    ASSUME NEW f \in Formats, Usable(f)
    PROVE  FormatVariant(f) \in Variant /\ Consistent(FormatVariant(f))
<1> DEFINE c == IF Fold[f.ext] = "" THEN "mp4" ELSE Fold[f.ext]
           d == NoVideo(f) \/ NoAudio(f)
           m == MimeFromContainer(c, NoVideo(f))
<1>1. c \in {"mp4"} \cup {Fold[g.ext] : g \in Formats} \cup Containers
  OBVIOUS
<1>2. NormalizeCodec(f.vcodec) \in Codecs /\ NormalizeCodec(f.acodec) \in Codecs
  BY DEF NormalizeCodec, Codecs
<1>3. /\ NoVideo(f) \in BOOLEAN /\ NoAudio(f) \in BOOLEAN
      /\ ~(NoVideo(f) /\ NoAudio(f))
      /\ NoVideo(f) => NormalizeCodec(f.vcodec) = ""
      /\ NoAudio(f) => NormalizeCodec(f.acodec) = ""
  BY Zenon DEF NoVideo, NoAudio, Usable
<1>4. FormatVariant(f) =
        [container |-> c, vcodec |-> NormalizeCodec(f.vcodec),
         acodec |-> NormalizeCodec(f.acodec), audioOnly |-> NoVideo(f),
         videoOnly |-> NoAudio(f), adaptive |-> d, mime |-> m]
  BY Zenon DEF FormatVariant
<1>5. d \in BOOLEAN /\ (d <=> NoVideo(f) \/ NoAudio(f))
  BY Zenon
<1>6. m \in AudioMimes \cup VideoMimes /\ (m \in AudioMimes <=> NoVideo(f))
  BY <1>3, MimeTells
<1> HIDE DEF c, d, m
<1>7. QED
  BY <1>1, <1>2, <1>3, <1>4, <1>5, <1>6, BuiltConsistent, Zenon

LEMMA ProbeVariantIsConsistent ==
    ASSUME NEW n \in Nat, NEW s \in [1 .. n -> Streams], NEW c \in Containers,
           NEW v \in FirstCodec(s, "video"), NEW a \in FirstCodec(s, "audio"),
           ~(OfType(s, "video") = {} /\ OfType(s, "audio") = {})
    PROVE  ProbeVariant(s, c, v, a) \in Variant /\ Consistent(ProbeVariant(s, c, v, a))
<1> DEFINE p == OfType(s, "video") = {}
           q == OfType(s, "audio") = {}
           d == p \/ q
           m == MimeFromContainer(c, p)
<1>1. ASSUME NEW t, NEW x \in FirstCodec(s, t)
      PROVE  x \in Codecs /\ (OfType(s, t) = {} => x = "")
  <2>1. CASE OfType(s, t) = {}
    BY <1>1, <2>1 DEF FirstCodec, Codecs
  <2>2. CASE OfType(s, t) # {}
    <3>1. PICK k \in First(s, t) : x = s[k].codec
      BY <1>1, <2>2 DEF FirstCodec
    <3>2. s[k] \in Streams
      BY DEF First, OfType
    <3>3. x \in {u.codec : u \in Streams}
      BY <3>1, <3>2
    <3>4. QED
      BY <2>2, <3>3 DEF Codecs
  <2>3. QED
    BY <2>1, <2>2
<1>2. v \in Codecs /\ a \in Codecs /\ (p => v = "") /\ (q => a = "")
  BY <1>1
<1>3. p \in BOOLEAN /\ q \in BOOLEAN /\ ~(p /\ q)
  BY Zenon
<1>4. ProbeVariant(s, c, v, a) =
        [container |-> c, vcodec |-> v, acodec |-> a, audioOnly |-> p, videoOnly |-> q,
         adaptive |-> d, mime |-> m]
  BY Zenon DEF ProbeVariant
<1>5. c \in {"mp4"} \cup {Fold[g.ext] : g \in Formats} \cup Containers
  OBVIOUS
<1>6. d \in BOOLEAN /\ (d <=> p \/ q)
  BY Zenon
<1>7. m \in AudioMimes \cup VideoMimes /\ (m \in AudioMimes <=> p)
  BY <1>3, MimeTells
<1> HIDE DEF p, q, d, m
<1>8. QED
  BY <1>2, <1>3, <1>4, <1>5, <1>6, <1>7, BuiltConsistent, Zenon

-------------------------------------------------------------------------------
(* The invariant.                                                          *)

LEMMA NothingTaken == ASSUME NEW r PROVE TakenBefore(r, 1, {}, <<>>)
  BY DEF TakenBefore

LEMMA AnalysisInitially == AnalysisInit => AnalysisInv
<1> SUFFICES ASSUME AnalysisInit PROVE AnalysisInv
  OBVIOUS
<1> USE DEF AnalysisInit
<1>1. AnalysisTypeOK
  BY DEF AnalysisTypeOK, Stages
<1>2. LoopInv
  BY NothingTaken DEF LoopInv
<1>3. SuccessHasVariants /\ VariantsAreConsistent
  BY DEF SuccessHasVariants, VariantsAreConsistent
<1>4. QED
  BY <1>1, <1>2, <1>3 DEF AnalysisInv

(* One turn of the loop, with a format that is taken and one that is not.  *)
LEMMA TakeFormat ==
    ASSUME NEW r \in Seq(Formats), NEW n \in 1 .. Len(r), NEW s, NEW t \in Seq(DOMAIN r),
           TakenBefore(r, n, s, t), Usable(r[n]), Key(r[n]) \notin s
    PROVE  /\ Append(t, n) \in Seq(DOMAIN r)
           /\ TakenBefore(r, n + 1, s \cup {Key(r[n])}, Append(t, n))
<1> DEFINE u == Append(t, n)
<1>1. /\ u \in Seq(DOMAIN r)
      /\ Len(t) \in Nat /\ Len(u) = Len(t) + 1
      /\ u[Len(t) + 1] = n
      /\ \A m \in 1 .. Len(t) : u[m] = t[m] /\ t[m] \in Nat
  OBVIOUS
<1> HIDE DEF u
<1>2. \A m \in 1 .. Len(t) : t[m] < n /\ Usable(r[t[m]]) /\ Key(r[t[m]]) # Key(r[n])
  BY DEF TakenBefore
<1>3. s \cup {Key(r[n])} = {Key(r[u[m]]) : m \in 1 .. Len(u)}
  <2>1. s = {Key(r[t[m]]) : m \in 1 .. Len(t)}
    BY DEF TakenBefore
  <2>2. ASSUME NEW k \in s \cup {Key(r[n])}
        PROVE  \E m \in 1 .. Len(u) : k = Key(r[u[m]])
    <3>1. CASE k = Key(r[n])
      BY <1>1, <3>1
    <3>2. CASE k \in s
      <4>1. PICK m \in 1 .. Len(t) : k = Key(r[t[m]])
        BY <2>1, <3>2
      <4>2. m \in 1 .. Len(u) /\ u[m] = t[m]
        BY <1>1
      <4>3. QED
        BY <4>1, <4>2
    <3>3. QED
      BY <3>1, <3>2
  <2>3. ASSUME NEW m \in 1 .. Len(u)
        PROVE  Key(r[u[m]]) \in s \cup {Key(r[n])}
    <3>1. CASE m \in 1 .. Len(t)
      BY <1>1, <2>1, <3>1
    <3>2. CASE m \notin 1 .. Len(t)
      <4>1. m = Len(t) + 1
        BY <1>1, <3>2
      <4>2. QED
        BY <1>1, <4>1
    <3>3. QED
      BY <3>1, <3>2
  <2>4. QED
    BY <2>2, <2>3, Zenon
<1>4. ASSUME NEW m \in 1 .. Len(u)
      PROVE  u[m] < n + 1 /\ Usable(r[u[m]])
  <2>1. CASE m \in 1 .. Len(t)
    <3>1. u[m] = t[m] /\ t[m] \in Nat /\ n \in Nat
      BY <1>1, <2>1
    <3>2. t[m] < n /\ Usable(r[t[m]])
      BY <1>2, <2>1
    <3>3. QED
      BY <3>1, <3>2
  <2>2. CASE m \notin 1 .. Len(t)
    <3>1. m = Len(t) + 1
      BY <1>1, <2>2
    <3>2. QED
      BY <1>1, <3>1
  <2>3. QED
    BY <2>1, <2>2
<1>5. ASSUME NEW k \in 1 .. Len(u), NEW m \in 1 .. Len(u), k < m
      PROVE  u[k] < u[m] /\ Key(r[u[k]]) # Key(r[u[m]])
  <2>1. k \in 1 .. Len(t) /\ u[k] = t[k]
    BY <1>1, <1>5
  <2>2. CASE m \in 1 .. Len(t)
    <3>1. u[m] = t[m]
      BY <1>1, <2>2
    <3>2. t[k] < t[m] /\ Key(r[t[k]]) # Key(r[t[m]])
      BY <1>5, <2>1, <2>2 DEF TakenBefore
    <3>3. QED
      BY <2>1, <3>1, <3>2
  <2>3. CASE m \notin 1 .. Len(t)
    <3>1. m = Len(t) + 1
      BY <1>1, <2>3
    <3>2. u[m] = n
      BY <1>1, <3>1
    <3>3. QED
      BY <1>2, <2>1, <3>2
  <2>4. QED
    BY <2>2, <2>3
<1>6. ASSUME NEW l \in 1 .. n, Usable(r[l])
      PROVE  \E m \in 1 .. Len(u) : u[m] <= l /\ Key(r[u[m]]) = Key(r[l])
  <2>1. CASE l = n
    BY <1>1, <2>1
  <2>2. CASE l # n
    <3>1. PICK m \in 1 .. Len(t) : t[m] <= l /\ Key(r[t[m]]) = Key(r[l])
      BY <1>6, <2>2 DEF TakenBefore
    <3>2. QED
      BY <1>1, <3>1
  <2>3. QED
    BY <2>1, <2>2
<1>7. TakenBefore(r, n + 1, s \cup {Key(r[n])}, u)
  BY <1>3, <1>4, <1>5, <1>6 DEF TakenBefore
<1>8. QED
  BY <1>1, <1>7 DEF u

LEMMA SkipFormat ==
    ASSUME NEW r \in Seq(Formats), NEW n \in 1 .. Len(r), NEW s, NEW t \in Seq(DOMAIN r),
           TakenBefore(r, n, s, t), ~(Usable(r[n]) /\ Key(r[n]) \notin s)
    PROVE  TakenBefore(r, n + 1, s, t)
<1>1. \A m \in 1 .. Len(t) : t[m] \in Nat /\ t[m] < n
  BY DEF TakenBefore
<1>2. ASSUME NEW l \in 1 .. n, Usable(r[l])
      PROVE  \E m \in 1 .. Len(t) : t[m] <= l /\ Key(r[t[m]]) = Key(r[l])
  <2>1. CASE l = n
    <3>1. Key(r[n]) \in s
      BY <1>2, <2>1
    <3>2. PICK m \in 1 .. Len(t) : Key(r[n]) = Key(r[t[m]])
      BY <3>1 DEF TakenBefore
    <3>3. QED
      BY <1>1, <2>1, <3>2
  <2>2. CASE l # n
    BY <1>2, <2>2 DEF TakenBefore
  <2>3. QED
    BY <2>1, <2>2
<1>3. \A m \in 1 .. Len(t) : t[m] < n + 1 /\ Usable(r[t[m]])
  BY <1>1 DEF TakenBefore
<1>4. QED
  BY <1>2, <1>3 DEF TakenBefore

(* The variants of a state are consistent if each of them is.              *)
LEMMA ConsistencyOfEach ==
    VariantsAreConsistent' <=> \A m \in DOMAIN variants' : Consistent(variants'[m])
  BY Zenon DEF VariantsAreConsistent, Consistent

LEMMA AnalysisStep == AnalysisInv /\ [AnalysisNext]_analysisVars => AnalysisInv'
<1> SUFFICES ASSUME AnalysisInv, [AnalysisNext]_analysisVars
             PROVE  AnalysisInv'
  OBVIOUS
<1> USE DEF AnalysisInv
<1>1. CASE Take
  BY <1>1 DEF Take, parserVars, AnalysisTypeOK, Stages, LoopInv, SuccessHasVariants,
              VariantsAreConsistent
<1>2. CASE Route
  BY <1>2 DEF Route, parserVars, AnalysisTypeOK, Stages, LoopInv, SuccessHasVariants,
              VariantsAreConsistent
<1>3. CASE ToolErrs
  BY <1>3 DEF ToolErrs, parserVars, AnalysisTypeOK, Stages, LoopInv, SuccessHasVariants,
              VariantsAreConsistent
<1>4. CASE YtDlpReports
  <2> USE <1>4 DEF YtDlpReports
  <2>1. report' \in Seq(Formats) /\ Len(report') \in Nat
    BY MaxReportAssumption
  <2>2. picked' \in Seq(DOMAIN report') /\ i' \in 1 .. Len(report') + 1
    BY <2>1
  <2>3. AnalysisTypeOK'
    BY <2>1, <2>2 DEF AnalysisTypeOK, Stages
  <2>4. LoopInv'
    BY NothingTaken DEF LoopInv
  <2>5. QED
    BY <2>3, <2>4 DEF SuccessHasVariants, VariantsAreConsistent
<1>5. CASE ParseFormat
  <2> USE <1>5 DEF ParseFormat
  <2>1. /\ report \in Seq(Formats) /\ picked \in Seq(DOMAIN report)
        /\ i \in 1 .. Len(report)
        /\ i' = i + 1 /\ i' \in 1 .. Len(report') + 1
        /\ TakenBefore(report, i, seen, picked)
    BY DEF AnalysisTypeOK, LoopInv
  <2>2. picked' \in Seq(DOMAIN report) /\ TakenBefore(report, i', seen', picked')
    <3>1. CASE Usable(report[i]) /\ Key(report[i]) \notin seen
      BY <2>1, <3>1, TakeFormat DEF Taken
    <3>2. CASE ~(Usable(report[i]) /\ Key(report[i]) \notin seen)
      BY <2>1, <3>2, SkipFormat
    <3>3. QED
      BY <3>1, <3>2
  <2>3. AnalysisTypeOK'
    BY <2>1, <2>2 DEF AnalysisTypeOK
  <2>4. LoopInv'
    BY <2>2 DEF LoopInv
  <2>5. QED
    BY <2>3, <2>4 DEF SuccessHasVariants, VariantsAreConsistent
<1>6. CASE ParseEnds
  <2> USE <1>6 DEF ParseEnds, parserVars
  <2>1. i = Len(report) + 1
    <3>1. Len(report) \in Nat /\ i \in 1 .. Len(report) + 1 /\ i > Len(report)
      BY DEF AnalysisTypeOK
    <3>2. QED
      BY <3>1
  <2>2. stage' = "error" \/ (stage' = "build" /\ picked # <<>>)
    BY DEF Parsed
  <2>3. AnalysisTypeOK'
    BY <2>2 DEF AnalysisTypeOK, Stages
  <2>4. LoopInv'
    BY <2>1, <2>2 DEF LoopInv
  <2>5. QED
    BY <2>2, <2>3, <2>4 DEF SuccessHasVariants, VariantsAreConsistent
<1>7. CASE Build
  <2> USE <1>7 DEF Build, parserVars
  <2>1. \A m \in 1 .. Len(picked) :
            report[picked[m]] \in Formats /\ Usable(report[picked[m]])
    BY DEF AnalysisTypeOK, LoopInv, TakenBefore
  <2>2. \A m \in 1 .. Len(picked) :
            variants'[m] \in Variant /\ Consistent(variants'[m])
    BY <2>1, FormatVariantIsConsistent
  <2>3. Len(picked) \in Nat /\ DOMAIN variants' = 1 .. Len(picked)
    BY DEF AnalysisTypeOK
  <2>4. variants' \in Seq(Variant)
    BY <2>2, <2>3
  <2>5. AnalysisTypeOK'
    BY <2>4 DEF AnalysisTypeOK, Stages
  <2>6. LoopInv'
    BY DEF LoopInv
  <2>7. SuccessHasVariants'
    <3>1. Len(picked) # 0
      BY DEF LoopInv, AnalysisTypeOK
    <3>2. QED
      BY <2>3, <3>1 DEF SuccessHasVariants
  <2>8. VariantsAreConsistent'
    BY <2>2, <2>3, ConsistencyOfEach
  <2>9. QED
    BY <2>5, <2>6, <2>7, <2>8
<1>8. CASE ProbeReports
  <2> USE <1>8 DEF ProbeReports, parserVars
  <2>1. PICK n \in 0 .. MaxReport : \E s \in [1 .. n -> Streams], c \in Containers :
            IF OfType(s, "video") = {} /\ OfType(s, "audio") = {}
            THEN stage' = "error" /\ UNCHANGED variants
            ELSE /\ stage' = "done"
                 /\ \E v \in FirstCodec(s, "video"), a \in FirstCodec(s, "audio") :
                        variants' = <<ProbeVariant(s, c, v, a)>>
    OBVIOUS
  <2>2. CASE stage' = "error" /\ UNCHANGED variants
    BY <2>2 DEF AnalysisTypeOK, Stages, LoopInv, SuccessHasVariants, VariantsAreConsistent
  <2>3. CASE \E x \in Variant : stage' = "done" /\ variants' = <<x>> /\ Consistent(x)
    <3>1. AnalysisTypeOK'
      BY <2>3 DEF AnalysisTypeOK, Stages
    <3>2. LoopInv'
      BY <2>3 DEF LoopInv, AnalysisTypeOK
    <3>3. VariantsAreConsistent'
      BY <2>3, ConsistencyOfEach
    <3>4. SuccessHasVariants'
      BY <2>3 DEF SuccessHasVariants
    <3>5. QED
      BY <3>1, <3>2, <3>3, <3>4
  <2>4. QED
    <3>1. PICK s \in [1 .. n -> Streams], c \in Containers :
            IF OfType(s, "video") = {} /\ OfType(s, "audio") = {}
            THEN stage' = "error" /\ UNCHANGED variants
            ELSE /\ stage' = "done"
                 /\ \E v \in FirstCodec(s, "video"), a \in FirstCodec(s, "audio") :
                        variants' = <<ProbeVariant(s, c, v, a)>>
      BY <2>1
    <3>2. CASE OfType(s, "video") = {} /\ OfType(s, "audio") = {}
      BY <2>2, <3>1, <3>2
    <3>3. CASE ~(OfType(s, "video") = {} /\ OfType(s, "audio") = {})
      <4>1. PICK v \in FirstCodec(s, "video"), a \in FirstCodec(s, "audio") :
                variants' = <<ProbeVariant(s, c, v, a)>>
        BY <3>1, <3>3
      <4>2. n \in Nat
        BY MaxReportAssumption
      <4>3. ProbeVariant(s, c, v, a) \in Variant /\ Consistent(ProbeVariant(s, c, v, a))
        BY <3>3, <4>2, ProbeVariantIsConsistent
      <4>4. QED
        BY <2>3, <3>1, <3>3, <4>1, <4>3
    <3>4. QED
      BY <3>2, <3>3
<1>9. CASE Return
  <2>1. AnalysisTypeOK'
    BY <1>9 DEF Return, AnalysisTypeOK, Stages
  <2>2. LoopInv'
    BY <1>9, NothingTaken DEF Return, LoopInv
  <2>3. stage' = "idle" /\ DOMAIN variants' = {}
    BY <1>9 DEF Return
  <2>4. SuccessHasVariants' /\ VariantsAreConsistent'
    BY <2>3, ConsistencyOfEach DEF SuccessHasVariants
  <2>5. QED
    BY <2>1, <2>2, <2>4
<1>10. CASE UNCHANGED analysisVars
  BY <1>10 DEF analysisVars, parserVars, AnalysisTypeOK, LoopInv, SuccessHasVariants,
               VariantsAreConsistent
<1>11. QED
  BY <1>1, <1>2, <1>3, <1>4, <1>5, <1>6, <1>7, <1>8, <1>9, <1>10 DEF AnalysisNext

THEOREM AnalysisInvariant == AnalysisSpec => []AnalysisInv
  BY AnalysisInitially, AnalysisStep, PTL DEF AnalysisSpec

-------------------------------------------------------------------------------
(* The results.                                                            *)

THEOREM AnalysisTypes == AnalysisSpec => []AnalysisTypeOK
<1>1. AnalysisInv => AnalysisTypeOK
  BY DEF AnalysisInv
<1>2. QED
  BY <1>1, AnalysisInvariant, PTL

(* Whatever yt-dlp reports, in however many formats: the list of variants  *)
(* is complete and without repetition.                                     *)
THEOREM ReportsListedOnce == AnalysisSpec => []EachFormatOnce
<1>1. ASSUME AnalysisInv PROVE EachFormatOnce
  <2> SUFFICES ASSUME stage \in {"build", "done"}
               PROVE  /\ \A n \in DOMAIN report : Listable(report[n]) =>
                            \E m \in DOMAIN picked :
                                picked[m] <= n /\ Alike(report[picked[m]], report[n])
                      /\ \A m \in DOMAIN picked : Listable(report[picked[m]])
                      /\ \A k, m \in DOMAIN picked : k < m =>
                            /\ picked[k] < picked[m]
                            /\ ~Alike(report[picked[k]], report[picked[m]])
    BY DEF EachFormatOnce
  <2>1. /\ \A n \in DOMAIN report : report[n] \in Format
        /\ DOMAIN report = 1 .. i - 1
        /\ DOMAIN picked = 1 .. Len(picked)
        /\ \A m \in DOMAIN picked : picked[m] \in DOMAIN report
    BY <1>1, FormatsAssumption DEF AnalysisInv, AnalysisTypeOK, LoopInv
  <2>2. TakenBefore(report, i, seen, picked)
    BY <1>1 DEF AnalysisInv, LoopInv
  <2>3. ASSUME NEW n \in DOMAIN report, Listable(report[n])
        PROVE  \E m \in DOMAIN picked :
                    picked[m] <= n /\ Alike(report[picked[m]], report[n])
    <3>1. PICK m \in DOMAIN picked :
                picked[m] <= n /\ Key(report[picked[m]]) = Key(report[n])
      BY <2>1, <2>2, <2>3, UsableIsListable DEF TakenBefore
    <3>2. QED
      BY <2>1, <3>1, KeyIsAlike
  <2>4. \A m \in DOMAIN picked : Listable(report[picked[m]])
    BY <2>1, <2>2, UsableIsListable DEF TakenBefore
  <2>5. \A k, m \in DOMAIN picked : k < m =>
            picked[k] < picked[m] /\ ~Alike(report[picked[k]], report[picked[m]])
    BY <2>1, <2>2, KeyIsAlike DEF TakenBefore
  <2>6. QED
    BY <2>3, <2>4, <2>5
<1>2. QED
  BY <1>1, AnalysisInvariant, PTL

(* handleAnalyze never completes a job with an empty list, whatever the    *)
(* tools report.                                                           *)
THEOREM SuccessIsNotEmpty == AnalysisSpec => []SuccessHasVariants
<1>1. AnalysisInv => SuccessHasVariants
  BY DEF AnalysisInv
<1>2. QED
  BY <1>1, AnalysisInvariant, PTL

(* The flags and the MIME type of every variant agree, for any codecs,     *)
(* containers and streams and for both tools.                              *)
THEOREM FlagsAgree == AnalysisSpec => []VariantsAreConsistent
<1>1. AnalysisInv => VariantsAreConsistent
  BY DEF AnalysisInv
<1>2. QED
  BY <1>1, AnalysisInvariant, PTL
================================================================================
