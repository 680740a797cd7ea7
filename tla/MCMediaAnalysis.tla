--------------------------- MODULE MCMediaAnalysis ---------------------------
(* Instances of MediaAnalysis for TLC.                                      *)
EXTENDS MediaAnalysis

Page(scheme, host, shorts, pad) ==
    [scheme |-> scheme, host |-> host, shorts |-> shorts, pad |-> pad]

(* One URL that validateURL refuses for each reason, and the accepted ones. *)
SomeURLs ==
    {Page("other", "public", FALSE, "none"), Page("http", "private", FALSE, "none"),
     Page("http", "public", FALSE, "before"), Page("http", "public", TRUE, "none"),
     Page("http", "youtube", FALSE, "none"), Page("http", "youtube", TRUE, "after")}

PaddedURLs ==
    {Page("http", "youtube", FALSE, pad) : pad \in {"none", "before", "after", "newline"}}

Entry(id, hasURL, ext, vcodec, acodec, size) ==
    [id |-> id, url |-> hasURL, ext |-> ext, vcodec |-> vcodec, acodec |-> acodec,
     size |-> size]

(* Complete, video only, audio only in a video's container, the same id in  *)
(* two sizes, unknown codecs, no extension, the same codec and the same     *)
(* container in another case, and what is to be left out.                   *)
SomeFormats ==
    {Entry("18", TRUE, "mp4", "avc1", "mp4a", 2), Entry("18", TRUE, "mp4", "avc1", "mp4a", 3),
     Entry("18", TRUE, "mp4", "avc1", "none", 2), Entry("249", TRUE, "webm", "none", "opus", 0),
     Entry("249", TRUE, "webm", "NONE", "opus", 0), Entry("0", TRUE, " ", "avc1", "", 1),
     Entry("18", TRUE, "mp4", "AVC1", "mp4a", 2), Entry("250", TRUE, "WebM", "", "opus", 0),
     Entry("0", TRUE, "mp4", "", "", 1), Entry("sb", TRUE, "mhtml", "none", "none", 1),
     Entry("sb", TRUE, "mhtml", "avc1", "none", 1), Entry("18", FALSE, "mp4", "avc1", "mp4a", 2)}

SomeFold ==
    [n \in {"", " ", "none", "NONE", "mp4", "webm", "WebM", "mhtml", "avc1", "AVC1", "mp4a",
            "opus"} |->
        CASE n = " "    -> ""
          [] n = "NONE" -> "none"
          [] n = "WebM" -> "webm"
          [] n = "AVC1" -> "avc1"
          [] OTHER      -> n]

SomeStreams ==
    {[type |-> "video", codec |-> "h264"], [type |-> "video", codec |-> "mjpeg"],
     [type |-> "audio", codec |-> "aac"], [type |-> "audio", codec |-> ""],
     [type |-> "subtitle", codec |-> "srt"]}

SomeContainers == {"mov", "matroska", "webm", "mp3", ""}
==============================================================================
