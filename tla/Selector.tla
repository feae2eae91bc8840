------------------------------ MODULE Selector ------------------------------
(***************************************************************************)
(* Which tracks a job downloads (internal/selector, and the translation of *)
(* a request's options in internal/pipeline/options.go).                   *)
(*                                                                         *)
(* A stream item is a record of the fields the choice depends on.  Its     *)
(* MIME type is abstracted to the container it names and its codec string  *)
(* to the prefix that is compared; a nil bitrate is 0, a nil track NoTrack.*)
(* Number fields keep their values.  An absent option is "" or 0.          *)
(***************************************************************************)
EXTENDS Integers, Sequences, SequencesExt

CONSTANTS
    NoItem,     \* found = false
    NoTrack     \* no audio track identifier

\* `size` is no field of an item: it is how many bytes the peer will send.
VideoItem == [itag: Nat, url: {"", "file", "hls"}, delivery: {"direct", "sabr"},
              manifest: BOOLEAN, container: {"mp4", "webm"}, codec: STRING,
              height: Nat, bitrate: Nat, length: Nat, size: Nat \ {0}]

AudioItem == [itag: Nat, url: {"", "file", "hls"}, delivery: {"direct", "sabr"},
              manifest: BOOLEAN, container: {"mp4", "webm"}, codec: STRING,
              track: {NoTrack} \cup STRING, original: BOOLEAN,
              bitrate: Nat, length: Nat, size: Nat \ {0}]

RequestOptions == [mode: {"video", "audio"}, container: STRING, height: Nat,
                   videoCodec: STRING, audioCodec: STRING,
                   videoItag: Nat, audioItag: Nat]

-----------------------------------------------------------------------------
OrElse(value, default) == IF value = "" THEN default ELSE value

\* Video and audio codec names of a request and the codec prefixes they mean.
codecPrefix(name) ==
    CASE name \in {"h264", "x264"} -> "avc1"
      [] name \in {"h265", "hevc", "x265"} -> "hev1"
      [] name = "av1" -> "av01"
      [] name = "aac" -> "mp4a"
      [] OTHER -> name

Playable(s) == s.url # "" \/ (s.delivery = "sabr" /\ s.manifest)

codecMatches(codec, prefix) == codec \in {"", prefix}

VideoFits(s, o) ==
    /\ o.videoItag > 0 => s.itag = o.videoItag
    /\ Playable(s) /\ s.container = o.container
    /\ codecMatches(s.codec, o.videoCodec)
    /\ s.height <= o.height

AudioFits(s, o) ==
    /\ o.audioItag > 0 => s.itag = o.audioItag
    /\ Playable(s) /\ s.container = o.container
    /\ codecMatches(s.codec, o.audioCodec)

HigherVideo(s, best) ==
    \/ s.height > best.height
    \/ s.height = best.height /\ s.bitrate > best.bitrate

\* Mutant: the preferred track weighs no more than the original one.
audioRank_Light(s, preferred) ==
    s.bitrate + (IF preferred # NoTrack /\ s.track = preferred THEN 500000 ELSE 0)
              + (IF s.original THEN 500000 ELSE 0)

audioRank(s, preferred) ==
    s.bitrate + (IF preferred # NoTrack /\ s.track = preferred THEN 1000000 ELSE 0)
              + (IF s.original THEN 500000 ELSE 0)

\* One pass over the items; a later one must be better to replace the best.
selectVideo(streams, o) ==
    FoldLeft(LAMBDA best, s :
                 IF VideoFits(s, o) /\ (best = NoItem \/ HigherVideo(s, best))
                 THEN s ELSE best,
             NoItem, streams)

selectAudio(streams, preferred, o) ==
    FoldLeft(LAMBDA best, s :
                 IF /\ AudioFits(s, o)
                    /\ \/ best = NoItem
                       \/ audioRank(s, preferred) > audioRank(best, preferred)
                 THEN s ELSE best,
             NoItem, streams)

\* What the options ask for once the defaults of selectorOptions and of
\* SelectMP4WithOptions are in place.
VideoRequest(o) ==
    LET container == OrElse(o.container, "mp4")
        webm == container = "webm"
    IN  [o EXCEPT !.container = container,
                  !.height = IF @ > 0 THEN @ ELSE 1080,
                  !.videoCodec = OrElse(codecPrefix(@), IF webm THEN "vp9" ELSE "avc1"),
                  !.audioCodec = OrElse(codecPrefix(@), IF webm THEN "opus" ELSE "mp4a")]

\* A SABR video is remuxed to mp4, whatever it is coded in.
AudioOf(video, request) ==
    IF video.delivery = "sabr"
    THEN [request EXCEPT !.container = "mp4", !.audioCodec = "mp4a"]
    ELSE request

AudioOnlyRequest(o) ==
    LET container == IF o.container \in {"webm", "opus"} THEN "webm" ELSE "mp4"
    IN  [o EXCEPT !.container = container,
                  !.audioCodec = OrElse(codecPrefix(@), IF container = "webm" THEN "opus" ELSE "mp4a")]

Pick(response, o) ==
    IF o.mode = "audio"
    THEN [video |-> NoItem,
          audio |-> selectAudio(response.audios, response.preferred, AudioOnlyRequest(o))]
    ELSE LET request == VideoRequest(o)
             video == selectVideo(response.videos, request)
         IN  [video |-> video,
              audio |-> IF video = NoItem THEN NoItem
                        ELSE selectAudio(response.audios, response.preferred,
                                         AudioOf(video, request))]

\* SelectMP4WithOptions or SelectAudioOnly returned no error.
Found(pick) == pick.audio # NoItem
=============================================================================
