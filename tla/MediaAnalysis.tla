----------------------------- MODULE MediaAnalysis -----------------------------
(***************************************************************************)
(* What an analyze job's handler gets for its URL (internal/media):        *)
(* Analyzer.Analyze chooses a tool by the URL, yt-dlp or ffprobe reports   *)
(* what is there, and the report becomes the list of variants that the     *)
(* worker stores (Persist of WorkerPool).  The URL comes from a request    *)
(* that MediaService.SubmitAnalyze has validated.                          *)
(*                                                                         *)
(*   idle - route - ytdlp - parse ... parse - build - done - idle          *)
(*               \- ffprobe ------------------------ done - idle           *)
(*                                                                         *)
(* and from the tools' steps also to "error".  The tools are external: a   *)
(* report is any sequence of at most MaxReport entries.  Bit rates,        *)
(* durations, labels and titles are left out.                              *)
(***************************************************************************)
EXTENDS Integers, Sequences

CONSTANTS
    URLs,       \* the URLs clients send
    Formats,    \* what an entry of yt-dlp's "formats" may be
    Streams,    \* what an entry of ffprobe's "streams" may be
    Containers, \* the first name in ffprobe's "format_name"
    Fold,       \* a name, without the space around it and in lower case
    MaxReport   \* bound: entries in a report

(* pad is white space around the URL: "before" it, "after" it, or a line   *)
(* end.  shorts says that the path contains /shorts/.  url says that the   *)
(* entry has a URL that is not blank.                                      *)
URL    == [scheme : {"http", "other"}, host : {"youtube", "private", "public"},
           shorts : BOOLEAN, pad : {"none", "before", "after", "newline"}]
Format == [id : STRING, url : BOOLEAN, ext : STRING, vcodec : STRING, acodec : STRING,
           size : Nat]
Stream == [type : STRING, codec : STRING]

ASSUME URLsAssumption       == URLs \subseteq URL
ASSUME FormatsAssumption    == Formats \subseteq Format
ASSUME StreamsAssumption    == Streams \subseteq Stream
ASSUME ContainersAssumption == Containers \subseteq STRING
ASSUME MaxReportAssumption  == MaxReport \in Nat
ASSUME FoldAssumption ==
    /\ Fold \in [DOMAIN Fold -> STRING]
    /\ \A f \in Formats : {f.ext, f.vcodec, f.acodec} \subseteq DOMAIN Fold

VARIABLES
    stage,      \* where the analysis is
    url,        \* the URLs it is about: one, or none when idle
    report,     \* yt-dlp's formats
    i,          \* the format the parser is at
    seen,       \* the keys of the formats taken so far
    picked,     \* the formats taken, by their place in the report
    variants    \* the result

parserVars   == <<report, i, seen, picked>>
analysisVars == <<stage, url, parserVars, variants>>

Stages == {"idle", "route", "ytdlp", "ffprobe", "parse", "build", "done", "error"}

(* MIME types of the containers that have one of their own.                *)
AudioTypes == [mp3 |-> "audio/mpeg", ogg |-> "audio/ogg", wav |-> "audio/wav",
               webm |-> "audio/webm"]
VideoTypes == [webm |-> "video/webm", matroska |-> "video/x-matroska",
               mkv |-> "video/x-matroska"]

AudioMimes == {"audio/mp4"} \cup {AudioTypes[c] : c \in DOMAIN AudioTypes}
VideoMimes == {"video/mp4"} \cup {VideoTypes[c] : c \in DOMAIN VideoTypes}

(* yt-dlp's names are folded before they are stored, ffprobe's are not.    *)
Codecs  == {""} \cup {Fold[f.vcodec] : f \in Formats} \cup {Fold[f.acodec] : f \in Formats}
                \cup {s.codec : s \in Streams}
Variant == [container : {"mp4"} \cup {Fold[f.ext] : f \in Formats} \cup Containers,
            vcodec : Codecs, acodec : Codecs, audioOnly : BOOLEAN, videoOnly : BOOLEAN,
            adaptive : BOOLEAN, mime : AudioMimes \cup VideoMimes]

AnalysisTypeOK ==
    /\ stage \in Stages
    /\ url \subseteq URLs
    /\ stage # "idle" => \E u \in URLs : url = {u}
    /\ report \in Seq(Formats)
    /\ i \in 1 .. Len(report) + 1
    /\ picked \in Seq(DOMAIN report)
    /\ variants \in Seq(Variant)

AnalysisInit ==
    /\ stage = "idle"
    /\ url = {}
    /\ report = <<>>
    /\ i = 1
    /\ seen = {}
    /\ picked = <<>>
    /\ variants = <<>>

-------------------------------------------------------------------------------
(* The URL.                                                                *)

(* validateURL looks at the URL without the white space around it ...      *)
Valid(u) == u.scheme = "http" /\ u.host # "private"

(* ... but what it was given is stored and analysed: url.Parse takes no    *)
(* space in front of the scheme and no control character.                  *)
Parses(u) == u.pad \notin {"before", "newline"}

IsYouTubeURL(u) == Parses(u) /\ (u.host = "youtube" \/ u.shorts)

(* An analyze job for an accepted URL reaches its handler.                 *)
Take ==
    /\ stage = "idle"
    /\ \E u \in URLs : Valid(u) /\ url' = {u}
    /\ stage' = "route"
    /\ UNCHANGED <<parserVars, variants>>

Route ==
    /\ stage = "route"
    /\ stage' = IF \E u \in url : IsYouTubeURL(u) THEN "ytdlp" ELSE "ffprobe"
    /\ UNCHANGED <<url, parserVars, variants>>

(* The tool does not start, exits with an error, or is killed by the 60 s  *)
(* or 120 s limit; or its output is not JSON: CombinedOutput mixes stderr  *)
(* into it, so a remark of a successful run is enough.                     *)
ToolErrs ==
    /\ stage \in {"ytdlp", "ffprobe"}
    /\ stage' = "error"
    /\ UNCHANGED <<url, parserVars, variants>>

-------------------------------------------------------------------------------
MimeFromContainer(c, audioOnly) ==
    IF audioOnly
    THEN IF c \in DOMAIN AudioTypes THEN AudioTypes[c] ELSE "audio/mp4"
    ELSE IF c \in DOMAIN VideoTypes THEN VideoTypes[c] ELSE "video/mp4"

-------------------------------------------------------------------------------
(* yt-dlp: parseYtDlpJSON takes the formats one by one, analyzeYouTube     *)
(* makes a variant of each that was taken.                                 *)

YtDlpReports ==
    /\ stage = "ytdlp"
    /\ stage' = "parse"
    /\ \E n \in 0 .. MaxReport : report' \in [1 .. n -> Formats]
    /\ i' = 1
    /\ seen' = {}
    /\ picked' = <<>>
    /\ UNCHANGED <<url, variants>>

(* A codec that yt-dlp does not know comes as null, hence as "".           *)
NormalizeCodec(c) == IF Fold[c] \in {"", "none"} THEN "" ELSE Fold[c]

NoVideo(f) == NormalizeCodec(f.vcodec) = ""
NoAudio(f) == NormalizeCodec(f.acodec) = ""

Usable(f) == f.url /\ ~(NoVideo(f) /\ NoAudio(f)) /\ f.ext # "mhtml"

(* Seeded fault: two formats of the same id are the same.                  *)
KeyById(f) == <<f.id>>

(* The extension as it was reported, the codecs folded.                    *)
Key(f) == <<f.id, f.ext, NormalizeCodec(f.vcodec), NormalizeCodec(f.acodec), f.size>>

(* Seeded fault: the place after the format's own.                         *)
TakenNext == Append(picked, i + 1)

Taken == Append(picked, i)

ParseFormat ==
    /\ stage = "parse"
    /\ i <= Len(report)
    /\ LET f == report[i] IN
        IF Usable(f) /\ Key(f) \notin seen
        THEN seen' = seen \cup {Key(f)} /\ picked' = Taken
        ELSE UNCHANGED <<seen, picked>>
    /\ i' = i + 1
    /\ UNCHANGED <<stage, url, report, variants>>

(* Seeded fault: an empty list is not an error.                            *)
ParsedAnything == "build"

(* "returned no formats"                                                   *)
Parsed == IF picked = <<>> THEN "error" ELSE "build"

ParseEnds ==
    /\ stage = "parse"
    /\ i > Len(report)
    /\ stage' = Parsed
    /\ UNCHANGED <<url, parserVars, variants>>

(* isAudio and isVideo of the parser, isAudioOnly and isVideoOnly of       *)
(* analyzeYouTube: computed twice, from the same codecs.                   *)
FormatVariant(f) ==
    LET container == IF Fold[f.ext] = "" THEN "mp4" ELSE Fold[f.ext]
    IN  [container |-> container,
         vcodec |-> NormalizeCodec(f.vcodec),
         acodec |-> NormalizeCodec(f.acodec),
         audioOnly |-> NoVideo(f),
         videoOnly |-> NoAudio(f),
         adaptive |-> NoVideo(f) \/ NoAudio(f),
         mime |-> MimeFromContainer(container, NoVideo(f))]

Build ==
    /\ stage = "build"
    /\ stage' = "done"
    /\ variants' = [m \in 1 .. Len(picked) |-> FormatVariant(report[picked[m]])]
    /\ UNCHANGED <<url, parserVars>>

-------------------------------------------------------------------------------
(* ffprobe: one variant of the first video and the first audio stream.     *)

OfType(s, t) == {k \in DOMAIN s : s[k].type = t}

First(s, t)  == {k \in OfType(s, t) : \A l \in OfType(s, t) : k <= l}

(* VideoStream and AudioStream: the codec of the first stream of a type.   *)
FirstCodec(s, t) ==
    IF OfType(s, t) = {} THEN {""} ELSE {s[k].codec : k \in First(s, t)}

(* Seeded fault: a file without audio is taken for one without video.      *)
ProbeVariantSwapped(s, c, v, a) ==
    [container |-> c, vcodec |-> v, acodec |-> a,
     audioOnly |-> OfType(s, "audio") = {}, videoOnly |-> OfType(s, "video") = {},
     adaptive |-> OfType(s, "audio") = {} \/ OfType(s, "video") = {},
     mime |-> MimeFromContainer(c, OfType(s, "video") = {})]

ProbeVariant(s, c, v, a) ==
    LET audioOnly == OfType(s, "video") = {}
        videoOnly == OfType(s, "audio") = {}
    IN  [container |-> c, vcodec |-> v, acodec |-> a,
         audioOnly |-> audioOnly, videoOnly |-> videoOnly,
         adaptive |-> audioOnly \/ videoOnly,
         mime |-> MimeFromContainer(c, audioOnly)]

(* "no playable streams detected" when there is neither.                   *)
ProbeReports ==
    /\ stage = "ffprobe"
    /\ \E n \in 0 .. MaxReport : \E s \in [1 .. n -> Streams], c \in Containers :
        IF OfType(s, "video") = {} /\ OfType(s, "audio") = {}
        THEN stage' = "error" /\ UNCHANGED variants
        ELSE /\ stage' = "done"
             /\ \E v \in FirstCodec(s, "video"), a \in FirstCodec(s, "audio") :
                    variants' = <<ProbeVariant(s, c, v, a)>>
    /\ UNCHANGED <<url, parserVars>>

(* Analyze has returned: to the next attempt, or to another job.           *)
Return ==
    /\ stage \in {"done", "error"}
    /\ stage' = "idle"
    /\ url' = {}
    /\ report' = <<>>
    /\ i' = 1
    /\ seen' = {}
    /\ picked' = <<>>
    /\ variants' = <<>>

AnalysisNext ==
    \/ Take \/ Route \/ ToolErrs
    \/ YtDlpReports \/ ParseFormat \/ ParseEnds \/ Build
    \/ ProbeReports
    \/ Return

AnalysisSpec == AnalysisInit /\ [][AnalysisNext]_analysisVars

-------------------------------------------------------------------------------
(* Properties                                                              *)

(* What a client may count on: a format that has a URL and a known stream  *)
(* and is no story board; two entries that differ in nothing it could      *)
(* choose by.  The case of a codec's name, and space around it, are not    *)
(* told apart.                                                             *)
Known(codec) == Fold[codec] \notin {"", "none"}

Listable(f) == f.url /\ f.ext # "mhtml" /\ (Known(f.vcodec) \/ Known(f.acodec))

SameCodec(c, d) == Fold[c] = Fold[d] \/ (~Known(c) /\ ~Known(d))

Alike(f, g) ==
    /\ f.id = g.id /\ f.ext = g.ext /\ f.size = g.size
    /\ SameCodec(f.vcodec, g.vcodec)
    /\ SameCodec(f.acodec, g.acodec)

(* A report is listed completely and without repetition: of every group of *)
(* like formats the first one gets a variant, in the order of the report,  *)
(* and nothing else does.                                                  *)
EachFormatOnce ==
    stage \in {"build", "done"} =>
        /\ \A n \in DOMAIN report : Listable(report[n]) =>
            \E m \in DOMAIN picked :
                picked[m] <= n /\ Alike(report[picked[m]], report[n])
        /\ \A m \in DOMAIN picked : Listable(report[picked[m]])
        /\ \A k, m \in DOMAIN picked : k < m =>
            picked[k] < picked[m] /\ ~Alike(report[picked[k]], report[picked[m]])

(* An analysis that succeeds has something to store: handleAnalyze stores  *)
(* nothing for an empty list and completes the job all the same.           *)
SuccessHasVariants == stage = "done" => variants # <<>>

(* What a variant says of itself agrees, whichever tool it comes from: a   *)
(* client picks the two inputs of a merge by these flags.                  *)
VariantsAreConsistent ==
    \A m \in DOMAIN variants : LET v == variants[m] IN
        /\ ~(v.audioOnly /\ v.videoOnly)
        /\ v.adaptive <=> v.audioOnly \/ v.videoOnly
        /\ v.audioOnly => v.vcodec = ""
        /\ v.videoOnly => v.acodec = ""
        /\ v.mime \in AudioMimes <=> v.audioOnly

(* A YouTube page is never given to ffprobe (analyzer.go:123).             *)
YouTubeNeverProbed ==
    stage = "ffprobe" => \A u \in url : u.host # "youtube"
================================================================================
