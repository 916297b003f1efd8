-------------------------------- MODULE Timeline --------------------------------
(***************************************************************************)
(* A timeline project as a value: media sources with interchangeable        *)
(* representations, sequences of typed tracks with clips and transitions,   *)
(* bins and render profiles; and when a project is valid.                   *)
(*                                                                         *)
(* "wellFormed" stands for the checks of one object that look at nothing    *)
(* else: finite and normalized numbers, required names, positive extents    *)
(* and rates, distinct property keys.  An optional value is a sequence of   *)
(* none or one.                                                             *)
(***************************************************************************)
EXTENDS Items, FiniteSetsExt

StreamKind == {"Video", "Audio", "Subtitle", "Data"}
TickMax == 100          \* stands for 2^63 - 1

-----------------------------------------------------------------------------
(* What a project is made of                                                 *)

Optional(S) == {s \in Seq(S) : Len(s) <= 1}

TickRange == [start : Int, duration : Int]
TimeBase == [num : Nat, den : Nat]
Rational == [num : Int, den : Nat]

Marker == [id : Nat, range : TickRange]
AutomationCurve == [parameter : STRING, times : Seq(Int)]
Effect ==
    [id : Nat, active : Optional(TickRange), parameters : SUBSET STRING,
     curves : Seq(AutomationCurve), wellFormed : BOOLEAN]

SubtitleCue == [id : Nat, range : TickRange, image : Nat]
MediaStream ==
    [id : Nat, index : Nat, kind : StreamKind, base : TimeBase, start : Int, duration : Int,
     samples : Seq(TickRange), cues : Seq(SubtitleCue), chapters : BOOLEAN, wellFormed : BOOLEAN]
MediaRepresentation ==
    [id : Nat, role : STRING, streams : Seq(MediaStream), attachments : Seq([id : Nat]),
     wellFormed : BOOLEAN]
MediaSource ==
    [id : Nat, representations : Seq(MediaRepresentation), original : Nat, active : Nat]

(* What a clip plays: a stream of media, a sequence or what is generated.    *)
ClipSource ==
    [type : {"media"}, id : Nat, stream : Nat]
      \union [type : {"sequence"}, id : Nat, kind : StreamKind]
      \union [type : {"generator"}, kind : StreamKind, base : TimeBase]

TimelineClip ==
    [id : Nat, kind : StreamKind, source : ClipSource, range : TickRange, trim : TickRange,
     rate : Rational, loops : BOOLEAN, timeMap : Seq([at : Int, source : Int]), group : Nat,
     effects : Seq(Effect), markers : Seq(Marker), wellFormed : BOOLEAN]
TimelineTransition ==
    [id : Nat, from : Nat, to : Nat, range : TickRange, alignment : STRING,
     parameters : SUBSET STRING, curves : Seq(AutomationCurve), wellFormed : BOOLEAN]
TimelineTrack ==
    [id : Nat, kind : StreamKind, clips : Seq(TimelineClip), transitions : Seq(TimelineTransition),
     effects : Seq(Effect), markers : Seq(Marker), wellFormed : BOOLEAN]
LinkGroup == [id : Nat, clips : Seq(Nat)]
TimelineSequence ==
    [id : Nat, base : TimeBase, frameRate : TimeBase, start : Int, duration : Int,
     workArea : Optional(TickRange), extent : Nat, sampleRate : Nat,
     tracks : Seq(TimelineTrack), groups : Seq(LinkGroup), markers : Seq(Marker),
     wellFormed : BOOLEAN]

TimelineBin == [id : Nat, parent : Nat, sources : Seq(Nat), sequences : Seq(Nat)]
SubtitleOutput == [mode : STRING, codec : STRING, uri : BOOLEAN]
TimelineRenderProfile ==
    [id : Nat, sequence : Nat, container : STRING, rangeMode : STRING,
     custom : Optional(TickRange), video : Optional(STRING), audio : Optional(STRING),
     subtitles : Seq(SubtitleOutput), wellFormed : BOOLEAN]
TimelineProject ==
    [sources : Seq(MediaSource), sequences : Seq(TimelineSequence), bins : Seq(TimelineBin),
     profiles : Seq(TimelineRenderProfile), active : Nat]

-----------------------------------------------------------------------------
(* Ranges and rates                                                          *)

End(range) == range.start + range.duration
IsSafe(range) == range.duration >= 0 /\ End(range) <= TickMax

RangeInside(range, start, duration, allowZero) ==
    /\ duration >= 0 /\ start + duration <= TickMax
    /\ range.duration >= IF allowZero THEN 0 ELSE 1
    /\ start <= range.start /\ IsSafe(range) /\ End(range) <= start + duration

Intersect(a, b) == a.start < End(b) /\ b.start < End(a)

(* Time bases, and frame rates.                                              *)
ValidTimeBase(base) == base.num > 0 /\ base.den > 0
ValidRational(rate) == rate.den > 0 /\ rate.num # 0

Magnitude(n) == IF n < 0 THEN -n ELSE n

Divides(d, n) == n % d = 0
GreatestCommonDivisor(a, b) == Max({d \in 1 .. a : Divides(d, a) /\ Divides(d, b)})

(* The products of two rows of factors are compared without being formed:    *)
(* each factor of one is cancelled against each of the other, once.          *)
Cancel(rows, i, j) ==
    LET divisor == GreatestCommonDivisor(rows.source[i], rows.timeline[j])
    IN  [rows EXCEPT !.source[i] = @ \div divisor, !.timeline[j] = @ \div divisor]

(* The rows after n of the sixteen pairs.                                    *)
Cancelled(rows) ==
    LET after[n \in 0 .. 16] ==
            IF n = 0 THEN rows ELSE Cancel(after[n-1], (n + 3) \div 4, ((n - 1) % 4) + 1)
    IN  after[16]

\* Mutant: the denominators of the time bases stand on the wrong sides.
FactorsInverted(duration, base, sourceDuration, sourceBase, rate) ==
    [source |-> <<sourceDuration, sourceBase.num, sourceBase.den, rate.den>>,
     timeline |-> <<duration, base.num, base.den, Magnitude(rate.num)>>]

Factors(duration, base, sourceDuration, sourceBase, rate) ==
    [source |-> <<sourceDuration, sourceBase.num, base.den, rate.den>>,
     timeline |-> <<duration, base.num, sourceBase.den, Magnitude(rate.num)>>]

ClipDurationsMatch(duration, base, sourceDuration, sourceBase, rate) ==
    /\ duration > 0 /\ sourceDuration > 0
    /\ ValidTimeBase(base) /\ ValidTimeBase(sourceBase) /\ ValidRational(rate)
    /\ LET rows == Cancelled(Factors(duration, base, sourceDuration, sourceBase, rate))
       IN  \A i \in 1 .. 4 : rows.source[i] = 1 /\ rows.timeline[i] = 1

-----------------------------------------------------------------------------
(* Markers, automation and effects                                           *)

ValidIds(s) == Distinct(s) /\ \A i \in DOMAIN s : s[i].id # 0

ValidMarkers(markers, duration) ==
    /\ ValidIds(markers)
    /\ \A i \in DOMAIN markers : RangeInside(markers[i].range, 0, duration, TRUE)

Rising(ticks) == \A i \in 2 .. Len(ticks) : ticks[i-1] < ticks[i]

(* One curve at most for each parameter, over the time of its owner.         *)
ValidAutomation(curves, parameters, duration) ==
    /\ \A i \in DOMAIN curves :
            /\ curves[i].parameter \in parameters
            /\ Rising(curves[i].times)
            /\ \A t \in ToSet(curves[i].times) : 0 <= t /\ t <= duration
    /\ \A i, j \in DOMAIN curves : curves[i].parameter = curves[j].parameter => i = j

ValidEffects(effects, duration) ==
    /\ ValidIds(effects)
    /\ \A effect \in ToSet(effects) :
            /\ effect.wellFormed
            /\ \A range \in ToSet(effect.active) : RangeInside(range, 0, duration, FALSE)
            /\ ValidAutomation(effect.curves, effect.parameters, duration)

-----------------------------------------------------------------------------
(* Media                                                                     *)

InStream(range, stream) ==
    stream.duration > 0 => RangeInside(range, stream.start, stream.duration, FALSE)

(* The samples of a video stream, when its timing index is known.            *)
ValidVideoTiming(stream) ==
    \A i \in DOMAIN stream.samples :
        /\ stream.samples[i].duration > 0 /\ IsSafe(stream.samples[i])
        /\ InStream(stream.samples[i], stream)
        /\ i > 1 => stream.samples[i-1].start < stream.samples[i].start

(* Cues follow each other; those of chapters do not overlap.                 *)
ValidCues(stream) ==
    /\ ValidIds(stream.cues)
    /\ \A i \in DOMAIN stream.cues :
            LET range == stream.cues[i].range
            IN  /\ range.duration > 0 /\ IsSafe(range) /\ InStream(range, stream)
                /\ i > 1 => /\ stream.cues[i-1].range.start <= range.start
                            /\ stream.chapters => ~Intersect(stream.cues[i-1].range, range)

ValidStream(stream) ==
    /\ stream.id # 0 /\ stream.wellFormed /\ ValidTimeBase(stream.base)
    /\ stream.duration >= 0
    /\ stream.duration > 0 => stream.start + stream.duration <= TickMax
    /\ stream.kind = "Video" => ValidVideoTiming(stream)
    /\ stream.kind = "Subtitle" => ValidCues(stream)

ValidRepresentation(rep) ==
    /\ rep.wellFormed /\ ValidIds(rep.streams)
    /\ \A i, j \in DOMAIN rep.streams : rep.streams[i].index = rep.streams[j].index => i = j
    /\ \A stream \in ToSet(rep.streams) : ValidStream(stream)
    /\ ValidIds(rep.attachments)
    /\ \A stream \in ToSet(rep.streams) : \A cue \in ToSet(stream.cues) :
            stream.kind = "Subtitle" => cue.image = 0 \/ Has(rep.attachments, cue.image)

StreamsOf(source) == UNION {ToSet(rep.streams) : rep \in ToSet(source.representations)}

\* Mutant: representations agree on the kind of a stream only.
ContractOfKind(stream) == stream.kind

(* What the representations of a source agree on for each logical stream.    *)
Contract(stream) == <<stream.kind, stream.base, stream.start, stream.duration>>

ValidMediaSource(source) ==
    /\ ValidIds(source.representations)
    /\ Has(source.representations, source.original)
    /\ Found(source.representations, source.original).role = "Original"
    /\ Has(source.representations, source.active)
    /\ \A rep \in ToSet(source.representations) : ValidRepresentation(rep)
    /\ \A a, b \in StreamsOf(source) : a.id = b.id => Contract(a) = Contract(b)

(* A stream is looked up in the active representation, then in the original, *)
(* then in all; <<>> if it is in none.                                       *)
Picked(source, rep) ==
    IF Has(source.representations, rep) THEN <<Found(source.representations, rep)>> ELSE <<>>

FindStream(source, id) ==
    LET order == Picked(source, source.active) \o Picked(source, source.original)
                   \o source.representations
        holders == {i \in DOMAIN order : Has(order[i].streams, id)}
    IN  IF holders = {} THEN <<>> ELSE <<Found(order[Min(holders)].streams, id)>>

-----------------------------------------------------------------------------
(* Clips                                                                     *)

(* From 0 to the end of the clip, inside the source trim unless it loops.    *)
ValidTimeMap(clip) ==
    clip.timeMap # <<>> =>
        /\ clip.timeMap[1].at = 0
        /\ clip.timeMap[Len(clip.timeMap)].at = clip.range.duration
        /\ Rising([i \in DOMAIN clip.timeMap |-> clip.timeMap[i].at])
        /\ ~clip.loops =>
                \A point \in ToSet(clip.timeMap) :
                    clip.trim.start <= point.source /\ point.source <= End(clip.trim)

FromMedia(clip, kind, project) ==
    LET streams == FindStream(Found(project.sources, clip.source.id), clip.source.stream)
    IN  /\ Has(project.sources, clip.source.id) /\ streams # <<>>
        /\ Head(streams).kind = kind /\ InStream(clip.trim, Head(streams))

FromSequence(clip, kind, project) ==
    LET nested == Found(project.sequences, clip.source.id)
    IN  /\ Has(project.sequences, clip.source.id) /\ clip.source.kind = kind
        /\ RangeInside(clip.trim, nested.start, nested.duration, FALSE)

FromGenerator(clip, kind) == clip.source.kind = kind /\ ValidTimeBase(clip.source.base)

SourceBase(clip, project) ==
    CASE clip.source.type = "media" ->
            Head(FindStream(Found(project.sources, clip.source.id), clip.source.stream)).base
      [] clip.source.type = "sequence" -> Found(project.sequences, clip.source.id).base
      [] OTHER -> clip.source.base

ValidClip(clip, kind, project, sequence) ==
    /\ clip.id # 0 /\ clip.wellFormed
    /\ RangeInside(clip.range, sequence.start, sequence.duration, FALSE)
    /\ clip.trim.duration > 0 /\ IsSafe(clip.trim) /\ ValidRational(clip.rate)
    /\ CASE clip.source.type = "media" -> FromMedia(clip, kind, project)
         [] clip.source.type = "sequence" -> FromSequence(clip, kind, project)
         [] OTHER -> FromGenerator(clip, kind)
    /\ IF clip.timeMap # <<>> THEN clip.rate = [num |-> 1, den |-> 1]
       ELSE \/ clip.loops
            \/ ClipDurationsMatch(clip.range.duration, sequence.base, clip.trim.duration,
                                  SourceBase(clip, project), clip.rate)
    /\ ValidTimeMap(clip)
    /\ ValidEffects(clip.effects, clip.range.duration)
    /\ ValidMarkers(clip.markers, clip.range.duration)

-----------------------------------------------------------------------------
(* Tracks and transitions                                                    *)

(* Between two clips that meet at a cut, over the cut as it is aligned.      *)
CoversCut(transition, from, to) ==
    LET cut == End(from.range)
        before == cut - transition.range.start
        after == End(transition.range) - cut
    IN  /\ cut = to.range.start
        /\ from.range.start <= transition.range.start /\ before >= 0
        /\ after >= 0 /\ End(transition.range) <= End(to.range)
        /\ transition.alignment = "StartAtCut" => before = 0
        /\ transition.alignment = "CenteredOnCut" => Magnitude(before - after) <= 1
        /\ transition.alignment = "EndAtCut" => after = 0

EndsClip(transition, from) ==
    /\ End(transition.range) = End(from.range)
    /\ from.range.start <= transition.range.start
    /\ transition.alignment \in {"EndAtCut", "Custom"}

StartsClip(transition, to) ==
    /\ transition.range.start = to.range.start
    /\ End(transition.range) <= End(to.range)
    /\ transition.alignment \in {"StartAtCut", "Custom"}

ValidTransition(transition, track, sequence) ==
    LET from == Found(track.clips, transition.from)
        to == Found(track.clips, transition.to)
    IN  /\ transition.wellFormed /\ transition.from # transition.to
        /\ transition.from # 0 => Has(track.clips, transition.from)
        /\ transition.to # 0 => Has(track.clips, transition.to)
        /\ RangeInside(transition.range, sequence.start, sequence.duration, FALSE)
        /\ CASE transition.to = 0 -> EndsClip(transition, from)
             [] transition.from = 0 -> StartsClip(transition, to)
             [] OTHER -> CoversCut(transition, from, to)
        /\ ValidAutomation(transition.curves, transition.parameters, transition.range.duration)

ValidTimelineTrack(track, project, sequence) ==
    /\ track.id # 0 /\ track.wellFormed
    /\ ValidEffects(track.effects, sequence.duration)
    /\ ValidMarkers(track.markers, sequence.duration)
    /\ Distinct(track.clips)
    /\ \A clip \in ToSet(track.clips) : ValidClip(clip, track.kind, project, sequence)
    /\ ValidIds(track.transitions)
    /\ \A transition \in ToSet(track.transitions) : ValidTransition(transition, track, sequence)

-----------------------------------------------------------------------------
(* Sequences                                                                 *)

AllClips(sequence) == UNION {ToSet(track.clips) : track \in ToSet(sequence.tracks)}

DistinctClips(sequence) ==
    \A t, u \in DOMAIN sequence.tracks :
        \A i \in DOMAIN sequence.tracks[t].clips, j \in DOMAIN sequence.tracks[u].clips :
            sequence.tracks[t].clips[i].id = sequence.tracks[u].clips[j].id => t = u /\ i = j

HasClipsOf(sequence, kinds) ==
    \E track \in ToSet(sequence.tracks) : track.kind \in kinds /\ track.clips # <<>>

ValidLinks(sequence) ==
    /\ ValidIds(sequence.groups)
    /\ \A group \in ToSet(sequence.groups) :
            /\ Len(group.clips) >= 2
            /\ \A i, j \in DOMAIN group.clips : group.clips[i] = group.clips[j] => i = j
            /\ \A id \in ToSet(group.clips) :
                    \E clip \in AllClips(sequence) : clip.id = id /\ clip.group = group.id
    /\ \A clip \in AllClips(sequence) : clip.group # 0 =>
            /\ Has(sequence.groups, clip.group)
            /\ clip.id \in ToSet(Found(sequence.groups, clip.group).clips)

ValidSequence(sequence, project) ==
    /\ sequence.id # 0 /\ sequence.wellFormed
    /\ ValidTimeBase(sequence.base) /\ ValidTimeBase(sequence.frameRate)
    /\ sequence.duration >= 0 /\ sequence.start + sequence.duration <= TickMax
    /\ \A area \in ToSet(sequence.workArea) :
            RangeInside(area, sequence.start, sequence.duration, FALSE)
    /\ Distinct(sequence.tracks) /\ DistinctClips(sequence)
    /\ \A track \in ToSet(sequence.tracks) : ValidTimelineTrack(track, project, sequence)
    /\ HasClipsOf(sequence, {"Video", "Subtitle"}) => sequence.extent > 0
    /\ HasClipsOf(sequence, {"Audio"}) => sequence.sampleRate > 0
    /\ ValidMarkers(sequence.markers, sequence.duration)
    /\ ValidLinks(sequence)

-----------------------------------------------------------------------------
(* Cycles, by a search in depth that is in a cycle when it comes back to     *)
(* what it is visiting.  The code does not enter again what is complete;     *)
(* that saves work and changes no answer, so it is left out.                 *)

Targets(edges, id) == IF id \in DOMAIN edges THEN edges[id] ELSE {}

\* Mutant: what is being visited counts as complete.
HasCycleBelow(edges) ==
    LET nodes == DOMAIN edges \union UNION {edges[id] : id \in DOMAIN edges}
        visit[visiting \in SUBSET nodes] ==
            {id \in nodes \ visiting :
                \E target \in Targets(edges, id) : target \in visit[visiting \union {id}]}
    IN  visit[{}] # {}

(* visit[visiting] is where the search finds a cycle.                        *)
HasCycle(edges) ==
    LET nodes == DOMAIN edges \union UNION {edges[id] : id \in DOMAIN edges}
        visit[visiting \in SUBSET nodes] ==
            {id \in nodes : \/ id \in visiting
                           \/ \E target \in Targets(edges, id) : target \in visit[visiting \union {id}]}
    IN  visit[{}] # {}

NestedIn(sequence) ==
    {clip.source.id : clip \in {c \in AllClips(sequence) : c.source.type = "sequence"}}

IdsOf(s) == {e.id : e \in ToSet(s)}

SequenceGraphHasCycle(project) ==
    HasCycle([id \in IdsOf(project.sequences) |-> NestedIn(Found(project.sequences, id))])

BinGraphHasCycle(project) ==
    HasCycle([id \in IdsOf(project.bins) |->
                LET parent == Found(project.bins, id).parent
                IN  IF Has(project.bins, parent) THEN {parent} ELSE {}])

-----------------------------------------------------------------------------
(* Render profiles and the project                                           *)

HasCodec(codec) == codec # "none"

ValidProfile(profile, project) ==
    LET sequence == Found(project.sequences, profile.sequence)
    IN  /\ profile.id # 0 /\ profile.wellFormed
        /\ Has(project.sequences, profile.sequence)
        /\ profile.container # "none"
        /\ \/ profile.video # <<>> \/ profile.audio # <<>>
           \/ \E subtitle \in ToSet(profile.subtitles) : subtitle.mode # "Omit"
        /\ profile.rangeMode = "Custom" => profile.custom # <<>>
        /\ profile.rangeMode = "WorkArea" => sequence.workArea # <<>>
        /\ \A range \in ToSet(profile.custom) :
                RangeInside(range, sequence.start, sequence.duration, FALSE)
        /\ \A codec \in ToSet(profile.video) \union ToSet(profile.audio) : HasCodec(codec)
        /\ \A subtitle \in ToSet(profile.subtitles) :
                /\ subtitle.mode \notin {"Omit", "BurnIn"} => HasCodec(subtitle.codec)
                /\ subtitle.mode = "BurnIn" => profile.video # <<>>
                /\ subtitle.mode = "Sidecar" => subtitle.uri

ValidBin(bin, project) ==
    /\ bin.parent # 0 => Has(project.bins, bin.parent)
    /\ \A id \in ToSet(bin.sources) : Has(project.sources, id)
    /\ \A id \in ToSet(bin.sequences) : Has(project.sequences, id)

ValidProject(project) ==
    /\ ValidIds(project.sources) /\ ValidIds(project.sequences)
    /\ ValidIds(project.bins) /\ ValidIds(project.profiles)
    /\ project.active # 0 => Has(project.sequences, project.active)
    /\ \A source \in ToSet(project.sources) : ValidMediaSource(source)
    /\ \A sequence \in ToSet(project.sequences) : ValidSequence(sequence, project)
    /\ ~SequenceGraphHasCycle(project)
    /\ \A bin \in ToSet(project.bins) : ValidBin(bin, project)
    /\ ~BinGraphHasCycle(project)
    /\ \A profile \in ToSet(project.profiles) : ValidProfile(profile, project)
===============================================================================
