----------------------------- MODULE TimelineEditor -----------------------------
(***************************************************************************)
(* TimelineEditor bound to a timeline project.  Every operation changes a   *)
(* copy of the project, validates the copy as a whole and puts it in the    *)
(* place of the project.  Ends that leave the project alone, an unchanged   *)
(* project among them, are alike here: no operation reads the last result.  *)
(***************************************************************************)
EXTENDS Timeline

CONSTANTS
    TimelineSessions,   \* projects to bind, with the values calls give and a
                        \* bound on the edits
    TimelineIds,        \* the ids that calls name
    TimelinePlaces,     \* and the positions
    Names               \* and the containers and codecs

VARIABLES
    project,            \* the bound project, or none
    bound,              \* m_project is set
    timelineRevision,   \* m_revision
    timelineSession     \* chosen by TimelineInit

timelineVars == <<project, bound, timelineRevision, timelineSession>>

TimelineSession ==
    [starts : SUBSET TimelineProject, edits : Nat, sources : SUBSET MediaSource,
     sequences : SUBSET TimelineSequence, profiles : SUBSET TimelineRenderProfile,
     tracks : SUBSET TimelineTrack, clips : SUBSET TimelineClip]

(* What calls give has the types of the interface; ids and positions are     *)
(* any.                                                                      *)
TimelineCallsAssumption ==
    /\ \A s \in TimelineSessions : s \in TimelineSession
    /\ \A id \in TimelineIds : id \in Nat
    /\ \A at \in TimelinePlaces : at \in Nat \union {AppendIndex}
    /\ \A name \in Names : name \in STRING

-----------------------------------------------------------------------------
(* commit(): what it accepts becomes the project.                            *)

Accepts(new) == ValidProject(new) /\ new # project

EditProject(refused, new) ==
    /\ bound /\ timelineRevision < timelineSession.edits
    /\ IF ~refused /\ ValidProject(project) /\ Accepts(new)
       THEN project' = new /\ timelineRevision' = timelineRevision + 1
       ELSE UNCHANGED <<project, timelineRevision>>
    /\ UNCHANGED <<bound, timelineSession>>

NoProject ==
    [sources |-> <<>>, sequences |-> <<>>, bins |-> <<>>, profiles |-> <<>>, active |-> 0]

(* A refused project leaves the one that was bound before.                   *)
BindProject ==
    /\ \E start \in timelineSession.starts :
            ValidProject(start) /\ project' = start /\ bound' = TRUE /\ timelineRevision' = 0
    /\ UNCHANGED timelineSession

UnbindProject ==
    /\ bound
    /\ bound' = FALSE /\ timelineRevision' = 0 /\ project' = NoProject
    /\ UNCHANGED timelineSession

-----------------------------------------------------------------------------
(* Collections of the project: insertion, replacement, move and removal.     *)

InsertInto(field, e, at) ==
    EditProject(Has(project[field], e.id) \/ IsOutside(at, project[field]),
                [project EXCEPT ![field] = Inserted(@, at, e)])

ReplaceIn(field, id, e) ==
    EditProject(~Has(project[field], id) \/ e.id # id,
                [project EXCEPT ![field][Item(project[field], id)] = e])

MoveIn(field, id, to) ==
    EditProject(~Has(project[field], id) \/ to >= Len(project[field]),
                [project EXCEPT ![field] = MoveElement(@, Item(@, id), to)])

RemoveFrom(field, id) ==
    EditProject(~Has(project[field], id),
                [project EXCEPT ![field] = RemoveAt(@, Item(@, id))])

InsertMediaSource(source, at) == InsertInto("sources", source, at)
ReplaceMediaSource(id, source) == ReplaceIn("sources", id, source)
MoveMediaSource(id, to) == MoveIn("sources", id, to)
RemoveMediaSource(id) == RemoveFrom("sources", id)

InsertSequence(sequence, at) == InsertInto("sequences", sequence, at)
ReplaceSequence(id, sequence) == ReplaceIn("sequences", id, sequence)
MoveSequence(id, to) == MoveIn("sequences", id, to)
RemoveSequence(id) == RemoveFrom("sequences", id)

InsertRenderProfile(profile, at) == InsertInto("profiles", profile, at)
ReplaceRenderProfile(id, profile) == ReplaceIn("profiles", id, profile)
MoveRenderProfile(id, to) == MoveIn("profiles", id, to)
RemoveRenderProfile(id) == RemoveFrom("profiles", id)

SetActiveSequence(id) == EditProject(FALSE, [project EXCEPT !.active = id])

SetSequenceFrameRate(id, rate) ==
    EditProject(~Has(project.sequences, id),
                [project EXCEPT !.sequences[Item(project.sequences, id)].frameRate = rate])

Profile(id) == Found(project.profiles, id)
WithProfile(id, profile) == [project EXCEPT !.profiles[Item(project.profiles, id)] = profile]

SetRenderContainer(id, container) ==
    EditProject(~Has(project.profiles, id),
                WithProfile(id, [Profile(id) EXCEPT !.container = container]))

SetRenderVideoCodec(id, codec) ==
    EditProject(~Has(project.profiles, id) \/ Profile(id).video = <<>>,
                WithProfile(id, [Profile(id) EXCEPT !.video = <<codec>>]))

SetRenderAudioCodec(id, codec) ==
    EditProject(~Has(project.profiles, id) \/ Profile(id).audio = <<>>,
                WithProfile(id, [Profile(id) EXCEPT !.audio = <<codec>>]))

-----------------------------------------------------------------------------
(* Tracks of a sequence                                                      *)

TracksOf(s) == Found(project.sequences, s).tracks
HasTrack(s, id) == Has(project.sequences, s) /\ Has(TracksOf(s), id)
WithTracks(s, tracks) ==
    [project EXCEPT !.sequences[Item(project.sequences, s)].tracks = tracks]

InsertTrack(s, track, at) ==
    EditProject(\/ ~Has(project.sequences, s)
                \/ Has(TracksOf(s), track.id) \/ IsOutside(at, TracksOf(s)),
                WithTracks(s, Inserted(TracksOf(s), at, track)))

ReplaceTrack(s, id, track) ==
    EditProject(~HasTrack(s, id) \/ track.id # id,
                WithTracks(s, ReplaceAt(TracksOf(s), Item(TracksOf(s), id), track)))

MoveTrack(s, id, to) ==
    EditProject(~HasTrack(s, id) \/ to >= Len(TracksOf(s)),
                WithTracks(s, MoveElement(TracksOf(s), Item(TracksOf(s), id), to)))

RemoveTrack(s, id) ==
    EditProject(~HasTrack(s, id), WithTracks(s, RemoveAt(TracksOf(s), Item(TracksOf(s), id))))

-----------------------------------------------------------------------------
(* Clips: their ids are unique in the sequence, and locateClip() finds the   *)
(* track.                                                                    *)

HasTimelineClip(s, id) ==
    Has(project.sequences, s) /\ \E track \in ToSet(TracksOf(s)) : Has(track.clips, id)

TrackOf(s, id) == CHOOSE t \in DOMAIN TracksOf(s) : Has(TracksOf(s)[t].clips, id)

WithClips(s, t, clips) ==
    [project EXCEPT !.sequences[Item(project.sequences, s)].tracks[t].clips = clips]

ClipsBeside(s, id) == TracksOf(s)[TrackOf(s, id)].clips

InsertClip(s, t, clip, at) ==
    LET track == Found(TracksOf(s), t)
    IN  EditProject(\/ ~Has(project.sequences, s) \/ HasTimelineClip(s, clip.id) \/ ~HasTrack(s, t)
                    \/ track.kind # clip.kind \/ IsOutside(at, track.clips),
                    WithClips(s, Item(TracksOf(s), t), Inserted(track.clips, at, clip)))

ReplaceClip(s, id, clip) ==
    EditProject(\/ ~HasTimelineClip(s, id) \/ clip.id # id
                \/ TracksOf(s)[TrackOf(s, id)].kind # clip.kind,
                WithClips(s, TrackOf(s, id),
                          ReplaceAt(ClipsBeside(s, id), Item(ClipsBeside(s, id), id), clip)))

MoveClip(s, id, to) ==
    EditProject(~HasTimelineClip(s, id) \/ to >= Len(ClipsBeside(s, id)),
                WithClips(s, TrackOf(s, id),
                          MoveElement(ClipsBeside(s, id), Item(ClipsBeside(s, id), id), to)))

RemoveClip(s, id) ==
    EditProject(~HasTimelineClip(s, id),
                WithClips(s, TrackOf(s, id),
                          RemoveAt(ClipsBeside(s, id), Item(ClipsBeside(s, id), id))))

-----------------------------------------------------------------------------
Positions == TimelinePlaces \ {AppendIndex}

EditMediaSources ==
    \/ \E source \in timelineSession.sources, at \in TimelinePlaces : InsertMediaSource(source, at)
    \/ \E source \in timelineSession.sources, id \in TimelineIds : ReplaceMediaSource(id, source)
    \/ \E id \in TimelineIds, to \in Positions : MoveMediaSource(id, to)
    \/ \E id \in TimelineIds : RemoveMediaSource(id)

EditSequences ==
    \/ \E sequence \in timelineSession.sequences, at \in TimelinePlaces : InsertSequence(sequence, at)
    \/ \E sequence \in timelineSession.sequences, id \in TimelineIds : ReplaceSequence(id, sequence)
    \/ \E id \in TimelineIds, to \in Positions : MoveSequence(id, to)
    \/ \E id \in TimelineIds : RemoveSequence(id)
    \/ \E id \in TimelineIds \union {0} : SetActiveSequence(id)
    \/ \E id \in TimelineIds, num \in {0, 3} : SetSequenceFrameRate(id, [num |-> num, den |-> 1])

EditProfiles ==
    \/ \E profile \in timelineSession.profiles, at \in TimelinePlaces : InsertRenderProfile(profile, at)
    \/ \E profile \in timelineSession.profiles, id \in TimelineIds : ReplaceRenderProfile(id, profile)
    \/ \E id \in TimelineIds, to \in Positions : MoveRenderProfile(id, to)
    \/ \E id \in TimelineIds : RemoveRenderProfile(id)
    \/ \E id \in TimelineIds, value \in Names :
            \/ SetRenderContainer(id, value)
            \/ SetRenderVideoCodec(id, value) \/ SetRenderAudioCodec(id, value)

EditTracks ==
    \E s \in TimelineIds :
        \/ \E track \in timelineSession.tracks, at \in TimelinePlaces : InsertTrack(s, track, at)
        \/ \E track \in timelineSession.tracks, id \in TimelineIds : ReplaceTrack(s, id, track)
        \/ \E id \in TimelineIds, to \in Positions : MoveTrack(s, id, to)
        \/ \E id \in TimelineIds : RemoveTrack(s, id)

EditTimelineClips ==
    \E s \in TimelineIds :
        \/ \E clip \in timelineSession.clips, t \in TimelineIds, at \in TimelinePlaces :
                InsertClip(s, t, clip, at)
        \/ \E clip \in timelineSession.clips, id \in TimelineIds : ReplaceClip(s, id, clip)
        \/ \E id \in TimelineIds, to \in Positions : MoveClip(s, id, to)
        \/ \E id \in TimelineIds : RemoveClip(s, id)

TimelineInit ==
    /\ timelineSession \in TimelineSessions
    /\ project = NoProject
    /\ bound = FALSE /\ timelineRevision = 0

TimelineNext ==
    \/ BindProject \/ UnbindProject
    \/ EditMediaSources \/ EditSequences \/ EditProfiles \/ EditTracks \/ EditTimelineClips

TimelineSpec == TimelineInit /\ [][TimelineNext]_timelineVars

-----------------------------------------------------------------------------
(* Properties                                                                *)

TimelineTypeOK ==
    /\ project \in TimelineProject
    /\ bound \in BOOLEAN
    /\ timelineRevision \in Nat
    /\ timelineSession \in TimelineSessions

ClipsIn(track) == ToSet(track.clips)

(* A clip plays media, or another sequence, of the kind of its track.        *)
ClipResolves(clip, track) ==
    /\ clip.source.type = "media" =>
            \E source \in ToSet(project.sources) : \E stream \in StreamsOf(source) :
                /\ <<source.id, stream.id>> = <<clip.source.id, clip.source.stream>>
                /\ stream.kind = track.kind
    /\ clip.source.type = "sequence" => Has(project.sequences, clip.source.id)

(* A transition between two clips stands on the cut where they meet.         *)
StandsOnCut(transition, track) ==
    \E from, to \in ClipsIn(track) :
        /\ <<transition.from, transition.to>> = <<from.id, to.id>>
        /\ End(from.range) = to.range.start
        /\ transition.range.start <= to.range.start /\ End(from.range) <= End(transition.range)

Nests(a, b) == b.id \in NestedIn(a)

(* Whatever is removed, moved or replaced: clips find what they play,        *)
(* transitions the cut between their clips; linked clips and their groups    *)
(* name each other; bins, profiles and the active sequence find what they    *)
(* name; and no sequence plays itself through others.                        *)
TimelineIsConnected ==
    bound =>
        /\ \A sequence \in ToSet(project.sequences) : \A track \in ToSet(sequence.tracks) :
                /\ \A clip \in ClipsIn(track) :
                        /\ ClipResolves(clip, track)
                        /\ \A group \in ToSet(sequence.groups) :
                                clip.group = group.id <=> clip.id \in ToSet(group.clips)
                /\ \A transition \in ToSet(track.transitions) :
                        0 \notin {transition.from, transition.to} => StandsOnCut(transition, track)
        /\ \A bin \in ToSet(project.bins) : \A id \in ToSet(bin.sources) : Has(project.sources, id)
        /\ \A id \in {profile.sequence : profile \in ToSet(project.profiles)}
                       \union ({project.active} \ {0}) : Has(project.sequences, id)
        /\ \A knot \in SUBSET ToSet(project.sequences) :
                (\A a \in knot : \E b \in knot : Nests(a, b)) => knot = {}

(* Any representation of a source can be made the active one: the project    *)
(* stays valid, so proxies and originals stand in for each other.            *)
RepresentationsAreInterchangeable ==
    bound =>
        \A i \in DOMAIN project.sources :
            \A rep \in ToSet(project.sources[i].representations) :
                ValidProject([project EXCEPT !.sources[i].active = rep.id])

(* A clip that plays at a constant rate lasts exactly as long as the source  *)
(* it plays at that rate, in seconds: the products are equal.                *)
ClipsPlayExactly ==
    bound =>
        \A sequence \in ToSet(project.sequences) : \A clip \in AllClips(sequence) :
            clip.timeMap = <<>> /\ ~clip.loops =>
                LET base == SourceBase(clip, project)
                IN  clip.trim.duration * base.num * sequence.base.den * clip.rate.den
                      = clip.range.duration * sequence.base.num * base.den * Magnitude(clip.rate.num)
===============================================================================
