---------------------------- MODULE TimelineProjects ----------------------------
(***************************************************************************)
(* Projects to bind, and the values given to calls: one session for each    *)
(* part of a project, on the project its interesting cases need.            *)
(***************************************************************************)
EXTENDS Timeline

Per(n) == [num |-> 1, den |-> n]
Span(start, duration) == [start |-> start, duration |-> duration]

Stream(id, kind) ==
    [id |-> id, index |-> id, kind |-> kind, base |-> Per(4), start |-> 0, duration |-> 8,
     samples |-> <<>>, cues |-> <<>>, chapters |-> FALSE, wellFormed |-> TRUE]

Representation(id, role, streams) ==
    [id |-> id, role |-> role, streams |-> streams, attachments |-> <<>>, wellFormed |-> TRUE]

Original == Representation(1, "Original", <<Stream(1, "Video"), Stream(2, "Audio")>>)
Proxy == Representation(2, "Proxy", <<Stream(1, "Video")>>)

Source(representations, active) ==
    [id |-> 1, representations |-> representations, original |-> 1, active |-> active]

Clip(id, kind, from, start, duration, trim) ==
    [id |-> id, kind |-> kind, source |-> from, range |-> Span(start, duration), trim |-> trim,
     rate |-> [num |-> 1, den |-> 1], loops |-> FALSE, timeMap |-> <<>>, group |-> 0,
     effects |-> <<>>, markers |-> <<>>, wellFormed |-> TRUE]

Media(stream) == [type |-> "media", id |-> 1, stream |-> stream]
Nested(id, kind) == [type |-> "sequence", id |-> id, kind |-> kind]
Generator(kind) == [type |-> "generator", kind |-> kind, base |-> Per(2)]

Track(id, kind, clips, transitions) ==
    [id |-> id, kind |-> kind, clips |-> clips, transitions |-> transitions,
     effects |-> <<>>, markers |-> <<>>, wellFormed |-> TRUE]

Sequence(id, tracks, groups) ==
    [id |-> id, base |-> Per(2), frameRate |-> [num |-> 2, den |-> 1], start |-> 0,
     duration |-> 6, workArea |-> <<Span(0, 4)>>, extent |-> 1, sampleRate |-> 1,
     tracks |-> tracks, groups |-> groups, markers |-> <<>>, wellFormed |-> TRUE]

Transition(id, from, to, range, alignment) ==
    [id |-> id, from |-> from, to |-> to, range |-> range, alignment |-> alignment,
     parameters |-> {}, curves |-> <<>>, wellFormed |-> TRUE]

Project(sources, sequences) ==
    [sources |-> sources, sequences |-> sequences, bins |-> <<>>, profiles |-> <<>>, active |-> 1]

Session(start, edits) ==
    [starts |-> {start}, edits |-> edits, sources |-> {}, sequences |-> {}, profiles |-> {},
     tracks |-> {}, clips |-> {}]

-----------------------------------------------------------------------------
(* Three sequences that may play each other.                                 *)

Nesting(id, other) == Clip(id, "Video", Nested(other, "Video"), 0, 2, Span(0, 2))

Nestable ==
    Project(<<>>, <<Sequence(1, <<Track(1, "Video", <<Nesting(1, 2)>>, <<>>)>>, <<>>),
                    Sequence(2, <<Track(1, "Video", <<>>, <<>>)>>, <<>>),
                    Sequence(3, <<Track(1, "Video", <<>>, <<>>)>>, <<>>)>>)

Binned ==
    [Nestable EXCEPT !.bins = <<[id |-> 1, parent |-> 2, sources |-> <<>>, sequences |-> <<3>>],
                                [id |-> 2, parent |-> 0, sources |-> <<>>, sequences |-> <<>>]>>]

Circular == [Binned EXCEPT !.bins[2].parent = 1]

NestingSession ==
    [Session(Nestable, 3) EXCEPT
        !.starts = {Nestable, Binned, Circular},
        !.clips = {Nesting(1, 3), Nesting(2, 1), Nesting(3, 2),
                   [Nesting(2, 2) EXCEPT !.source.kind = "Audio"]}]

-----------------------------------------------------------------------------
(* A picture and its sound from one source, linked, and a second picture     *)
(* that follows behind a transition.                                         *)

Picture == [Clip(1, "Video", Media(1), 0, 3, Span(0, 6)) EXCEPT !.group = 1]
Sound == [Clip(2, "Audio", Media(2), 0, 3, Span(0, 6)) EXCEPT !.group = 1]
Title == Clip(3, "Video", Generator("Video"), 3, 2, Span(0, 2))

Fade(alignment, start, duration) == Transition(1, 1, 3, Span(start, duration), alignment)

Edited ==
    Project(<<Source(<<Original, Proxy>>, 1)>>,
            <<Sequence(1, <<Track(1, "Video", <<Picture, Title>>, <<Fade("CenteredOnCut", 2, 2)>>),
                            Track(2, "Audio", <<Sound>>, <<>>)>>,
                       <<[id |-> 1, clips |-> <<1, 2>>]>>)>>)

Keyed(times) ==
    [Picture EXCEPT
        !.effects = <<[id |-> 1, active |-> <<Span(0, 2)>>, parameters |-> {"p"},
                       curves |-> <<[parameter |-> "p", times |-> times]>>, wellFormed |-> TRUE]>>,
        !.markers = <<[id |-> 1, range |-> Span(0, 2)]>>]

Mapped(end) ==
    [Picture EXCEPT !.timeMap = <<[at |-> 0, source |-> 0], [at |-> 3, source |-> end]>>]

EditedClips ==
    {Keyed(<<0, 3>>), Keyed(<<2, 1>>), Mapped(5), Mapped(7), [Mapped(7) EXCEPT !.loops = TRUE],
     [Picture EXCEPT !.group = 0], [Picture EXCEPT !.range.duration = 2, !.trim.duration = 4],
     [Title EXCEPT !.range.start = 2], [Title EXCEPT !.id = 4, !.range.start = 4],
     [Title EXCEPT !.id = 4, !.kind = "Audio", !.source.kind = "Audio"]}

EditedTracks ==
    {Track(1, "Video", <<Picture, Title>>, <<t>>) :
        t \in {Fade("StartAtCut", 3, 1), Fade("EndAtCut", 1, 2), Fade("CenteredOnCut", 2, 3),
               Fade("CenteredOnCut", 3, 2), Fade("Custom", 0, 2), Transition(1, 3, 0, Span(4, 1), "EndAtCut"),
               Transition(1, 0, 3, Span(3, 1), "StartAtCut"), Transition(1, 1, 9, Span(2, 2), "Custom")}}
    \union {Track(3, "Data", <<>>, <<>>), Track(2, "Video", <<>>, <<>>)}

Unlinked ==
    Sequence(1, <<Track(1, "Video", <<[Picture EXCEPT !.group = 0]>>, <<>>)>>, <<>>)

EditedSession ==
    [Session(Edited, 2) EXCEPT
        !.clips = EditedClips, !.tracks = EditedTracks,
        !.sequences = {Unlinked, [Unlinked EXCEPT !.groups = <<[id |-> 1, clips |-> <<1, 2>>]>>],
                       [Unlinked EXCEPT !.id = 2], [Unlinked EXCEPT !.duration = 2]}]

-----------------------------------------------------------------------------
(* Representations of the source of those clips.                             *)

Captions(second, chapters) ==
    [Stream(3, "Subtitle") EXCEPT
        !.chapters = chapters,
        !.cues = <<[id |-> 1, range |-> Span(0, 4), image |-> 0],
                   [id |-> 2, range |-> second, image |-> 1]>>]

WithCaptions(stream) ==
    [Original EXCEPT !.streams = Append(@, stream), !.attachments = <<[id |-> 1]>>]

Sampled(second) == [Stream(1, "Video") EXCEPT !.samples = <<Span(0, 2), second>>]

MediaSources ==
    {Source(<<Original, Proxy>>, 2),
     Source(<<Original, [Proxy EXCEPT !.streams = <<Stream(1, "Audio")>>]>>, 1),
     Source(<<Original, [Proxy EXCEPT !.streams[1].duration = 4]>>, 1),
     Source(<<Original, [Proxy EXCEPT !.streams[1].base = Per(2)]>>, 2),
     Source(<<Proxy>>, 2), [Source(<<Original>>, 1) EXCEPT !.id = 2],
     Source(<<WithCaptions(Captions(Span(4, 2), TRUE)), Proxy>>, 1),
     Source(<<WithCaptions(Captions(Span(3, 2), TRUE)), Proxy>>, 1),
     Source(<<WithCaptions(Captions(Span(7, 2), FALSE)), Proxy>>, 1),
     Source(<<[Original EXCEPT !.streams[1] = Sampled(Span(2, 2))], Proxy>>, 1),
     Source(<<[Original EXCEPT !.streams[1] = Sampled(Span(0, 2))], Proxy>>, 1),
     Source(<<[Original EXCEPT !.streams = <<Stream(2, "Audio")>>], Proxy>>, 1)}

MediaSession == [Session(Edited, 3) EXCEPT !.sources = MediaSources]

-----------------------------------------------------------------------------
(* Speeds: a source of 1/4 seconds in a sequence of 1/2 seconds.             *)

Speeds ==
    {[Clip(1, "Video", Media(1), 0, d, Span(0, s)) EXCEPT !.rate = [num |-> n, den |-> m]] :
        d \in {2, 3}, s \in {3, 4, 6}, n \in {-1, 1, 2, 3}, m \in {1, 2}}

SpeedSession ==
    [Session(Project(<<Source(<<Original>>, 1)>>,
                     <<Sequence(1, <<Track(1, "Video", <<>>, <<>>)>>, <<>>)>>), 2)
        EXCEPT !.clips = Speeds]

-----------------------------------------------------------------------------
(* Profiles of a sequence with a work area, and of one without.              *)

RenderProfile(id) ==
    [id |-> id, sequence |-> 1, container |-> "a", rangeMode |-> "Whole", custom |-> <<>>,
     video |-> <<"a">>, audio |-> <<>>, subtitles |-> <<>>, wellFormed |-> TRUE]

Subtitles(mode, codec, uri) == <<[mode |-> mode, codec |-> codec, uri |-> uri]>>

Profiles ==
    {RenderProfile(2), [RenderProfile(2) EXCEPT !.sequence = 2, !.rangeMode = "WorkArea"],
     [RenderProfile(1) EXCEPT !.rangeMode = "WorkArea"],
     [RenderProfile(1) EXCEPT !.rangeMode = "Custom"],
     [RenderProfile(1) EXCEPT !.rangeMode = "Custom", !.custom = <<Span(2, 5)>>],
     [RenderProfile(1) EXCEPT !.video = <<>>, !.audio = <<"a">>],
     [RenderProfile(1) EXCEPT !.video = <<>>, !.subtitles = Subtitles("Omit", "a", TRUE)],
     [RenderProfile(1) EXCEPT !.video = <<>>, !.subtitles = Subtitles("BurnIn", "none", TRUE)],
     [RenderProfile(1) EXCEPT !.subtitles = Subtitles("Sidecar", "a", FALSE)],
     [RenderProfile(1) EXCEPT !.subtitles = Subtitles("Sidecar", "a", TRUE)]}

Published ==
    [Project(<<>>, <<Sequence(1, <<>>, <<>>), [Sequence(2, <<>>, <<>>) EXCEPT !.workArea = <<>>]>>)
        EXCEPT !.profiles = <<RenderProfile(1)>>]

ProfileSession ==
    [Session(Published, 2) EXCEPT
        !.profiles = Profiles,
        !.sequences = {[Sequence(1, <<>>, <<>>) EXCEPT !.workArea = <<>>]}]

SampleSessions == {NestingSession, EditedSession, MediaSession, SpeedSession, ProfileSession}
===============================================================================
