------------------------------ MODULE MCJobRun ------------------------------
(* TLC instance of JobRun.  A byte is about a third of a track.            *)
EXTENDS JobRun, TLC

Video(itag, url, delivery, height, bitrate, length) ==
    [itag |-> itag, url |-> url, delivery |-> delivery, manifest |-> delivery = "sabr",
     container |-> "mp4", codec |-> "avc1", height |-> height, bitrate |-> bitrate,
     length |-> length, size |-> 1]

Audio(itag, url, delivery, track, original, bitrate, length) ==
    [itag |-> itag, url |-> url, delivery |-> delivery, manifest |-> delivery = "sabr",
     container |-> "mp4", codec |-> "mp4a", track |-> track, original |-> original,
     bitrate |-> bitrate, length |-> length, size |-> 1]

Response(videos, audios) ==
    [videos |-> videos, audios |-> audios, preferred |-> "en", duration |-> 1]

\* Two heights and three languages; the preferred track has the lowest rate.
Direct == Response(
    <<Video(1, "file", "direct", 720, 8, 1), Video(2, "file", "direct", 1080, 8, 1),
      Video(3, "file", "direct", 2160, 8, 1)>>,
    <<Audio(11, "file", "direct", "fr", TRUE, 24, 1),
      Audio(12, "file", "direct", "en", FALSE, 8, 1),
      Audio(13, "file", "direct", "de", FALSE, 96, 1)>>)

Sabr == Response(<<Video(4, "", "sabr", 1080, 8, 1)>>,
                 <<Audio(14, "", "sabr", "en", TRUE, 8, 1)>>)

\* The video can be fetched by ranges, the audio only by SABR.
Mixed == Response(<<Video(5, "file", "direct", 1080, 8, 1)>>,
                  <<Audio(15, "", "sabr", "en", TRUE, 8, 1)>>)

\* Segments, with rates to estimate from; and no estimate at all.
Hls == Response(<<Video(6, "hls", "direct", 1080, 8, 0)>>,
                <<Audio(16, "hls", "direct", "en", TRUE, 8, 0)>>)
Unsized == Response(<<Video(7, "file", "direct", 1080, 0, 0)>>,
                    <<Audio(17, "file", "direct", NoTrack, FALSE, 0, 0)>>)

\* A bit rate whose product with the duration is not representable.
Huge == [Response(<<Video(8, "file", "direct", 1080, 90, 0)>>,
                  <<Audio(18, "file", "direct", "en", TRUE, 8, 1)>>)
         EXCEPT !.duration = 90]

Request(mode) == [mode |-> mode, container |-> "", height |-> 0, videoCodec |-> "",
                  audioCodec |-> "aac", videoItag |-> 0, audioItag |-> 0]

CONSTANTS j1, j2
\* The video job meets every route, the audio job a short and an unsized one.
MCResponses == (j1 :> {Direct, Sabr, Mixed, Hls, Unsized, Huge}) @@ (j2 :> {Direct})
MCOptions == (j1 :> Request("video")) @@ (j2 :> Request("audio"))

ASSUME ResponsesAsExpected == EstimatesHold /\ BitratesBelowWeights
=============================================================================
