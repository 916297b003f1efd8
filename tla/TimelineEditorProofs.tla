-------------------------- MODULE TimelineEditorProofs --------------------------
(***************************************************************************)
(* What holds of a timeline project, whatever is edited and whatever is     *)
(* given to the edits: that it is valid is an invariant, and what validity  *)
(* means for those who play the project follows from it.                    *)
(***************************************************************************)
EXTENDS TimelineEditor, SequenceTheorems, FiniteSetTheorems, WellFoundedInduction, TLAPS

-----------------------------------------------------------------------------
(* Induction, for sets: a set of numbers has a least element, and a set of   *)
(* finite sets a smallest one.                                               *)

(* A set of numbers has a least one.                                         *)
LEMMA LeastNumber ==
    ASSUME NEW T \in SUBSET Nat, T # {}
    PROVE  \E n \in T : \A m \in T : n <= m
  <1> DEFINE R == OpToRel(<, Nat)
  <1>1. IsWellFoundedOn(R, Nat)
    BY NatLessThanWellFounded
  <1>2. \A m, n \in Nat : m < n => <<m, n>> \in R
    BY DEF OpToRel
  <1> HIDE DEF R
  <1>3. PICK n \in T : \A m \in T : <<m, n>> \notin R
    BY <1>1, WFMin
  <1>4. \A m \in T : ~(m < n)
    BY <1>2, <1>3
  <1> QED
    BY <1>4

(* A set of subsets of a finite set has one with none below it.              *)
LEMMA SmallestSet ==
    ASSUME NEW S, IsFiniteSet(S), NEW T \in SUBSET SUBSET S, T # {}
    PROVE  \E a \in T : \A b \in T : b \subseteq a => b = a
  <1>1. /\ IsWellFoundedOn(StrictSubsetOrdering(S), FiniteSubsetsOf(S))
        /\ T \subseteq FiniteSubsetsOf(S)
    BY FS_StrictSubsetOrderingWellFounded, FS_FiniteSubsetsOfFinite
  <1>2. \E a \in T : \A b \in T : <<b, a>> \notin StrictSubsetOrdering(S)
    BY <1>1, WFMin
  <1> QED
    BY <1>2 DEF StrictSubsetOrdering

-----------------------------------------------------------------------------
(* The search for cycles                                                     *)

Nodes(edges) == DOMAIN edges \union UNION {edges[id] : id \in DOMAIN edges}

(* What the search finds, for each set of nodes it is visiting.              *)
IsSearch(edges, visit) ==
    visit = [visiting \in SUBSET Nodes(edges) |->
                {id \in Nodes(edges) :
                    \/ id \in visiting
                    \/ \E target \in Targets(edges, id) : target \in visit[visiting \union {id}]}]

(* The search is defined: the least set of places to find a cycle at that    *)
(* contains what its definition says.                                        *)
LEMMA SearchExists ==
    ASSUME NEW edges PROVE \E visit : IsSearch(edges, visit)
  <1> DEFINE N == Nodes(edges)
             Places0 == (SUBSET N) \X N
             Finds(P, v, id) == \/ id \in v
                                \/ \E target \in Targets(edges, id) : <<v \union {id}, target>> \in P
             Closed == {P \in SUBSET Places0 :
                            \A v \in SUBSET N, id \in N : Finds(P, v, id) => <<v, id>> \in P}
             Least == {p \in Places0 : \A P \in Closed : p \in P}
             search == [v \in SUBSET N |-> {id \in N : <<v, id>> \in Least}]
  <1>1. \A v \in SUBSET N, id \in N : Finds(Least, v, id) => <<v, id>> \in Least
    OBVIOUS
  <1> DEFINE Found0 == {p \in Least : Finds(Least, p[1], p[2])}
  <1>2. \A v \in SUBSET N, id \in N : <<v, id>> \in Least => Finds(Least, v, id)
    <2>1. Found0 \in Closed
      <3>1. Found0 \in SUBSET Places0
        OBVIOUS
      <3>2. ASSUME NEW v \in SUBSET N, NEW id \in N, Finds(Found0, v, id)
            PROVE  <<v, id>> \in Found0
        <4>1. Finds(Least, v, id)
          BY <3>2
        <4>2. <<v, id>> \in Least
          BY <1>1, <4>1
        <4> QED
          BY <4>1, <4>2
      <3> QED
        BY <3>1, <3>2
    <2>2. \A p \in Least : p \in Found0
      BY <2>1
    <2> QED
      BY <2>2
  <1>3. \A v \in SUBSET N, id \in N : Finds(Least, v, id) <=> <<v, id>> \in Least
    BY <1>1, <1>2
  <1> HIDE DEF Least
  <1>4. ASSUME NEW v \in SUBSET N
        PROVE  search[v] = {id \in N : \/ id \in v
                                       \/ \E target \in Targets(edges, id) :
                                              target \in search[v \union {id}]}
    <2>1. ASSUME NEW id \in N
          PROVE  <<v, id>> \in Least
                   <=> \/ id \in v
                       \/ \E target \in Targets(edges, id) : target \in search[v \union {id}]
      <3>1. v \union {id} \in SUBSET N /\ Targets(edges, id) \subseteq N
        BY DEF Targets, Nodes
      <3>2. \A target \in N : <<v \union {id}, target>> \in Least
                                <=> target \in search[v \union {id}]
        BY <3>1
      <3> QED
        BY <1>3, <3>1, <3>2
    <2> QED
      BY <2>1
  <1> HIDE DEF N
  <1>5. search = [v \in SUBSET N |->
                    {id \in N : \/ id \in v
                                \/ \E target \in Targets(edges, id) :
                                       target \in search[v \union {id}]}]
    BY <1>4
  <1> QED
    BY <1>5 DEF IsSearch, N

(* HasCycle asks such a search whether it finds anything from nothing        *)
(* visited.                                                                  *)
LEMMA SearchIsDefined ==
    ASSUME NEW edges
    PROVE  \E visit : IsSearch(edges, visit) /\ (HasCycle(edges) <=> visit[{}] # {})
  <1> DEFINE visit == CHOOSE visit : IsSearch(edges, visit)
  <1>1. IsSearch(edges, visit)
    BY SearchExists
  <1>2. HasCycle(edges) <=> visit[{}] # {}
    BY Zenon DEF HasCycle, IsSearch, Nodes
  <1> QED
    BY <1>1, <1>2

(* Where everything has a target among its own, the search finds a cycle:    *)
(* the more it is visiting, the fewer are left to go on to.                  *)
LEMMA SearchFindsKnots ==
    ASSUME NEW edges, NEW knot, IsFiniteSet(knot), knot # {}, knot \subseteq DOMAIN edges,
           \A a \in knot : \E b \in knot : b \in Targets(edges, a)
    PROVE  HasCycle(edges)
  <1>1. PICK visit : IsSearch(edges, visit) /\ (HasCycle(edges) <=> visit[{}] # {})
    BY SearchIsDefined
  <1>2. knot \subseteq Nodes(edges)
    BY DEF Nodes
  <1> DEFINE missed == {left \in SUBSET knot :
                          \E v \in SUBSET knot : left = knot \ v /\ ~(knot \subseteq visit[v])}
  <1>3. \A v \in SUBSET knot :
            visit[v] = {id \in Nodes(edges) :
                          \/ id \in v
                          \/ \E target \in Targets(edges, id) : target \in visit[v \union {id}]}
    BY <1>1, <1>2 DEF IsSearch
  <1>4. missed = {}
    <2> SUFFICES ASSUME missed # {} PROVE FALSE
      OBVIOUS
    <2>1. PICK left \in missed : \A other \in missed : other \subseteq left => other = left
      <3>1. missed \in SUBSET SUBSET knot
        OBVIOUS
      <3> HIDE DEF missed
      <3> QED
        BY <3>1, SmallestSet
    <2>2. PICK v \in SUBSET knot, a \in knot : left = knot \ v /\ a \notin visit[v]
      BY <2>1
    <2>3. PICK b \in knot : b \in Targets(edges, a)
      OBVIOUS
    <2>4. a \in left /\ b \notin visit[v \union {a}]
      BY <1>2, <1>3, <2>2, <2>3
    <2>5. knot \ (v \union {a}) \in missed /\ v \union {a} \in SUBSET knot
      BY <2>2, <2>3, <2>4
    <2> QED
      BY <2>1, <2>2, <2>4, <2>5
  <1>5. knot \subseteq visit[{}]
    BY <1>4
  <1> QED
    BY <1>1, <1>5

-----------------------------------------------------------------------------
(* Sequences                                                                 *)

(* Found() has the id it is asked for.                                       *)
LEMMA ItemProperties ==
    ASSUME NEW s, NEW id, Has(s, id)
    PROVE  Item(s, id) \in DOMAIN s /\ Found(s, id) = s[Item(s, id)] /\ Found(s, id).id = id
  BY DEF Has, Item, Found

LEMMA ToSetOfSeq ==
    ASSUME NEW S, NEW s \in Seq(S)
    PROVE  ToSet(s) \subseteq S /\ \A e : e \in ToSet(s) <=> \E i \in 1 .. Len(s) : s[i] = e
  BY DEF ToSet

LEMMA PieceOfSeq ==
    ASSUME NEW S, NEW s \in Seq(S), NEW m \in Int, NEW n \in Int, 1 <= m, n <= Len(s)
    PROVE  SubSeq(s, m, n) \in Seq(S)
  BY SubSeqProperties, ElementOfSeq

LEMMA OneIsOptional == ASSUME NEW S, NEW e \in S PROVE <<e>> \in Optional(S)
  <1>1. <<e>> \in Seq(S) /\ Len(<<e>>) = 1
    OBVIOUS
  <1> QED
    BY <1>1 DEF Optional

LEMMA InsertAtType ==
    ASSUME NEW S, NEW s \in Seq(S), NEW i \in 1 .. Len(s) + 1, NEW e \in S
    PROVE  InsertAt(s, i, e) \in Seq(S)
  <1>1. SubSeq(s, 1, i - 1) \in Seq(S) /\ SubSeq(s, i, Len(s)) \in Seq(S) /\ <<e>> \in Seq(S)
    BY PieceOfSeq, LenProperties
  <1> QED
    BY <1>1, ConcatProperties DEF InsertAt

LEMMA RemoveAtType ==
    ASSUME NEW S, NEW s \in Seq(S), NEW i \in 1 .. Len(s)
    PROVE  RemoveAt(s, i) \in Seq(S) /\ Len(RemoveAt(s, i)) = Len(s) - 1
  <1>1. Len(s) \in Nat /\ i - 1 \in Int /\ i + 1 \in Int
    BY LenProperties
  <1>2. SubSeq(s, 1, i - 1) \in Seq(S) /\ Len(SubSeq(s, 1, i - 1)) = i - 1
    BY <1>1, SubSeqProperties, ElementOfSeq
  <1>3. SubSeq(s, i + 1, Len(s)) \in Seq(S) /\ Len(SubSeq(s, i + 1, Len(s))) = Len(s) - i
    BY <1>1, SubSeqProperties, ElementOfSeq
  <1> DEFINE front == SubSeq(s, 1, i - 1)
             back == SubSeq(s, i + 1, Len(s))
  <1>4. front \o back \in Seq(S) /\ Len(front \o back) = Len(front) + Len(back)
    <2> HIDE DEF front, back
    <2> QED
      BY <1>2, <1>3, ConcatProperties DEF front, back
  <1>5. RemoveAt(s, i) = front \o back
    BY DEF RemoveAt
  <1>6. Len(front) = i - 1 /\ Len(back) = Len(s) - i
    BY <1>2, <1>3
  <1> HIDE DEF front, back
  <1>7. Len(front) + Len(back) = Len(s) - 1
    BY <1>1, <1>6
  <1> QED
    BY <1>4, <1>5, <1>7

LEMMA ReplaceAtType ==
    ASSUME NEW S, NEW s \in Seq(S), NEW i \in 1 .. Len(s), NEW e \in S
    PROVE  ReplaceAt(s, i, e) \in Seq(S)
  BY ExceptSeq DEF ReplaceAt

LEMMA InsertedType ==
    ASSUME NEW S, NEW s \in Seq(S), NEW at \in Nat \union {AppendIndex}, ~IsOutside(at, s),
           NEW e \in S
    PROVE  Inserted(s, at, e) \in Seq(S)
  <1>1. InsertionIndex(at, s) + 1 \in 1 .. Len(s) + 1
    BY LenProperties DEF InsertionIndex, IsOutside, AppendIndex
  <1> QED
    BY <1>1, InsertAtType DEF Inserted

LEMMA MoveElementType ==
    ASSUME NEW S, NEW s \in Seq(S), NEW i \in 1 .. Len(s), NEW to \in Nat, to < Len(s)
    PROVE  MoveElement(s, i, to) \in Seq(S)
  <1>1. RemoveAt(s, i) \in Seq(S) /\ Len(RemoveAt(s, i)) = Len(s) - 1 /\ s[i] \in S
    BY RemoveAtType
  <1>2. to + 1 \in 1 .. Len(RemoveAt(s, i)) + 1
    BY <1>1, LenProperties
  <1> QED
    BY <1>1, <1>2, InsertAtType DEF MoveElement

-----------------------------------------------------------------------------
(* Types: what an edit puts together is a project.                           *)

Collections == {"sources", "sequences", "profiles"}
ElementsOf(field) ==
    CASE field = "sources" -> MediaSource
      [] field = "sequences" -> TimelineSequence
      [] field = "profiles" -> TimelineRenderProfile

(* Sources, sequences and profiles are collections that can be exchanged.    *)
LEMMA CollectionType ==
    ASSUME project \in TimelineProject, NEW field \in Collections
    PROVE  /\ project[field] \in Seq(ElementsOf(field))
           /\ \A s \in Seq(ElementsOf(field)) : [project EXCEPT ![field] = s] \in TimelineProject
  <1>1. CASE field = "sources"
    BY <1>1 DEF ElementsOf, TimelineProject
  <1>2. CASE field = "sequences"
    BY <1>2 DEF ElementsOf, TimelineProject
  <1>3. CASE field = "profiles"
    BY <1>3 DEF ElementsOf, TimelineProject
  <1> QED
    BY <1>1, <1>2, <1>3 DEF Collections

(* In a typed collection, what is found is an element at a position.         *)
LEMMA PlaceOfItem ==
    ASSUME NEW S, NEW s \in Seq(S), NEW id, Has(s, id)
    PROVE  Item(s, id) \in 1 .. Len(s) /\ Found(s, id) = s[Item(s, id)] /\ Found(s, id) \in S
  <1>1. Item(s, id) \in DOMAIN s /\ Found(s, id) = s[Item(s, id)]
    BY ItemProperties
  <1> QED
    BY <1>1, LenProperties

LEMMA InsertIntoType ==
    ASSUME project \in TimelineProject, NEW field \in Collections, NEW e \in ElementsOf(field),
           NEW at \in Nat \union {AppendIndex}, ~IsOutside(at, project[field])
    PROVE  [project EXCEPT ![field] = Inserted(@, at, e)] \in TimelineProject
  <1>1. Inserted(project[field], at, e) \in Seq(ElementsOf(field))
    BY CollectionType, InsertedType
  <1> QED
    BY <1>1, CollectionType

LEMMA ReplaceInType ==
    ASSUME project \in TimelineProject, NEW field \in Collections, NEW e \in ElementsOf(field),
           NEW id, Has(project[field], id)
    PROVE  [project EXCEPT ![field][Item(project[field], id)] = e] \in TimelineProject
  <1>1. ReplaceAt(project[field], Item(project[field], id), e) \in Seq(ElementsOf(field))
    BY CollectionType, PlaceOfItem, ReplaceAtType
  <1> QED
    BY <1>1, CollectionType DEF ReplaceAt

LEMMA MoveInType ==
    ASSUME project \in TimelineProject, NEW field \in Collections, NEW id, Has(project[field], id),
           NEW to \in Nat, to < Len(project[field])
    PROVE  [project EXCEPT ![field] = MoveElement(@, Item(@, id), to)] \in TimelineProject
  <1>1. MoveElement(project[field], Item(project[field], id), to) \in Seq(ElementsOf(field))
    BY CollectionType, PlaceOfItem, MoveElementType
  <1> QED
    BY <1>1, CollectionType

LEMMA RemoveFromType ==
    ASSUME project \in TimelineProject, NEW field \in Collections, NEW id, Has(project[field], id)
    PROVE  [project EXCEPT ![field] = RemoveAt(@, Item(@, id))] \in TimelineProject
  <1>1. RemoveAt(project[field], Item(project[field], id)) \in Seq(ElementsOf(field))
    BY CollectionType, PlaceOfItem, RemoveAtType
  <1> QED
    BY <1>1, CollectionType

(* A sequence, track or profile of the project with something else in it.    *)
LEMMA SequencesType ==
    ASSUME project \in TimelineProject, NEW s, Has(project.sequences, s)
    PROVE  /\ Item(project.sequences, s) \in 1 .. Len(project.sequences)
           /\ Found(project.sequences, s) = project.sequences[Item(project.sequences, s)]
           /\ Found(project.sequences, s) \in TimelineSequence
           /\ \A sequence \in TimelineSequence :
                  [project EXCEPT !.sequences[Item(project.sequences, s)] = sequence]
                      \in TimelineProject
  <1>1. project.sequences \in Seq(TimelineSequence)
    BY DEF TimelineProject
  <1>2. /\ Item(project.sequences, s) \in 1 .. Len(project.sequences)
        /\ Found(project.sequences, s) = project.sequences[Item(project.sequences, s)]
        /\ Found(project.sequences, s) \in TimelineSequence
    BY <1>1, PlaceOfItem
  <1>3. ASSUME NEW sequence \in TimelineSequence
        PROVE  [project EXCEPT !.sequences[Item(project.sequences, s)] = sequence]
                   \in TimelineProject
    <2>1. [project.sequences EXCEPT ![Item(project.sequences, s)] = sequence]
              \in Seq(TimelineSequence)
      BY <1>1, <1>2, ExceptSeq
    <2> QED
      BY <2>1 DEF TimelineProject
  <1> QED
    BY <1>2, <1>3

LEMMA WithFrameRateType ==
    ASSUME project \in TimelineProject, NEW s, Has(project.sequences, s), NEW rate \in TimeBase
    PROVE  [project EXCEPT !.sequences[Item(project.sequences, s)].frameRate = rate]
               \in TimelineProject
  <1>1. [Found(project.sequences, s) EXCEPT !.frameRate = rate] \in TimelineSequence
    BY SequencesType DEF TimelineSequence
  <1> QED
    BY <1>1, SequencesType

LEMMA WithTracksType ==
    ASSUME project \in TimelineProject, NEW s, Has(project.sequences, s)
    PROVE  /\ TracksOf(s) \in Seq(TimelineTrack)
           /\ \A tracks \in Seq(TimelineTrack) : WithTracks(s, tracks) \in TimelineProject
  <1>1. TracksOf(s) \in Seq(TimelineTrack)
    BY SequencesType DEF TracksOf, TimelineSequence
  <1>2. ASSUME NEW tracks \in Seq(TimelineTrack) PROVE WithTracks(s, tracks) \in TimelineProject
    <2>1. [Found(project.sequences, s) EXCEPT !.tracks = tracks] \in TimelineSequence
      BY SequencesType DEF TimelineSequence
    <2> QED
      BY <2>1, SequencesType DEF WithTracks
  <1> QED
    BY <1>1, <1>2

LEMMA WithClipsType ==
    ASSUME project \in TimelineProject, NEW s, Has(project.sequences, s),
           NEW t \in 1 .. Len(TracksOf(s))
    PROVE  /\ TracksOf(s)[t].clips \in Seq(TimelineClip)
           /\ \A clips \in Seq(TimelineClip) : WithClips(s, t, clips) \in TimelineProject
  <1>1. TracksOf(s) \in Seq(TimelineTrack) /\ TracksOf(s)[t] \in TimelineTrack
    BY WithTracksType
  <1>2. ASSUME NEW clips \in Seq(TimelineClip) PROVE WithClips(s, t, clips) \in TimelineProject
    <2> DEFINE track == [TracksOf(s)[t] EXCEPT !.clips = clips]
               tracks == [TracksOf(s) EXCEPT ![t] = track]
    <2>1. track \in TimelineTrack
      BY <1>1 DEF TimelineTrack
    <2>2. tracks \in Seq(TimelineTrack)
      BY <1>1, <2>1, ExceptSeq
    <2>3. WithClips(s, t, clips) = WithTracks(s, tracks)
      BY SequencesType DEF WithClips, WithTracks, TracksOf, TimelineProject
    <2> QED
      BY <2>2, <2>3, WithTracksType
  <1> QED
    BY <1>1, <1>2 DEF TimelineTrack

LEMMA WithProfileType ==
    ASSUME project \in TimelineProject, NEW id, Has(project.profiles, id)
    PROVE  /\ Profile(id) \in TimelineRenderProfile
           /\ \A profile \in TimelineRenderProfile : WithProfile(id, profile) \in TimelineProject
  <1>1. project.profiles \in Seq(TimelineRenderProfile)
    BY DEF TimelineProject
  <1>2. Item(project.profiles, id) \in 1 .. Len(project.profiles) /\ Profile(id) \in TimelineRenderProfile
    BY <1>1, PlaceOfItem DEF Profile
  <1>3. ASSUME NEW profile \in TimelineRenderProfile PROVE WithProfile(id, profile) \in TimelineProject
    <2>1. [project.profiles EXCEPT ![Item(project.profiles, id)] = profile]
              \in Seq(TimelineRenderProfile)
      BY <1>1, <1>2, ExceptSeq
    <2> QED
      BY <2>1 DEF WithProfile, TimelineProject
  <1> QED
    BY <1>2, <1>3

-----------------------------------------------------------------------------
(* The invariant: what is bound is a valid project.                          *)

ProjectInv == TimelineTypeOK /\ (bound => ValidProject(project))

(* An edit puts what it has validated in the place of the project, or leaves *)
(* the project alone.                                                        *)
LEMMA EditKeeps ==
    ASSUME ProjectInv, NEW refused, NEW new, EditProject(refused, new),
           ~refused => new \in TimelineProject
    PROVE  ProjectInv'
  <1>1. CASE ~refused /\ ValidProject(project) /\ Accepts(new)
    <2>1. /\ project' = new /\ timelineRevision' = timelineRevision + 1
          /\ bound' = bound /\ timelineSession' = timelineSession
          /\ new \in TimelineProject /\ ValidProject(new)
      BY <1>1 DEF EditProject, Accepts
    <2>2. TimelineTypeOK'
      BY <2>1 DEF ProjectInv, TimelineTypeOK
    <2>3. ValidProject(project)'
      BY <2>1
    <2> QED
      BY <2>2, <2>3 DEF ProjectInv
  <1>2. CASE ~(~refused /\ ValidProject(project) /\ Accepts(new))
    <2>1. UNCHANGED <<project, timelineRevision, bound, timelineSession>>
      BY <1>2 DEF EditProject
    <2>2. TimelineTypeOK' /\ (bound' => ValidProject(project)')
      BY <2>1 DEF ProjectInv, TimelineTypeOK
    <2> QED
      BY <2>2 DEF ProjectInv
  <1> QED
    BY <1>1, <1>2

(* Insertion and replacement in a collection keep the invariant.             *)
LEMMA CollectionEditsKeep ==
    ASSUME ProjectInv, NEW field \in Collections, NEW e \in ElementsOf(field), NEW id,
           NEW at \in Nat \union {AppendIndex}
    PROVE  /\ InsertInto(field, e, at) => ProjectInv'
           /\ ReplaceIn(field, id, e) => ProjectInv'
  <1>1. project \in TimelineProject
    BY DEF ProjectInv, TimelineTypeOK
  <1>2. ASSUME InsertInto(field, e, at) PROVE ProjectInv'
    BY <1>1, <1>2, InsertIntoType, EditKeeps DEF InsertInto
  <1>3. ASSUME ReplaceIn(field, id, e) PROVE ProjectInv'
    BY <1>1, <1>3, ReplaceInType, EditKeeps DEF ReplaceIn
  <1> QED
    BY <1>2, <1>3

(* So do moves and removals.                                                 *)
LEMMA CollectionMovesKeep ==
    ASSUME ProjectInv, NEW field \in Collections, NEW id, NEW to \in Nat
    PROVE  /\ MoveIn(field, id, to) => ProjectInv'
           /\ RemoveFrom(field, id) => ProjectInv'
  <1>1. project \in TimelineProject
    BY DEF ProjectInv, TimelineTypeOK
  <1>2. Len(project[field]) \in Nat
    BY <1>1, CollectionType, LenProperties
  <1>3. ASSUME MoveIn(field, id, to) PROVE ProjectInv'
    <2> DEFINE refused == ~Has(project[field], id) \/ to >= Len(project[field])
               moved == [project EXCEPT ![field] = MoveElement(@, Item(@, id), to)]
    <2>1. EditProject(refused, moved)
      BY <1>3 DEF MoveIn
    <2>2. ~refused => moved \in TimelineProject
      <3> SUFFICES ASSUME ~refused PROVE moved \in TimelineProject
        OBVIOUS
      <3>1. Has(project[field], id) /\ to < Len(project[field])
        BY <1>2
      <3> QED
        BY <1>1, <3>1, MoveInType
    <2> HIDE DEF refused, moved
    <2> QED
      BY <2>1, <2>2, EditKeeps
  <1>4. ASSUME RemoveFrom(field, id) PROVE ProjectInv'
    BY <1>1, <1>4, RemoveFromType, EditKeeps DEF RemoveFrom
  <1> QED
    BY <1>3, <1>4

(* What calls give has the types of the interface.                           *)
LEMMA CallsAreTyped ==
    ASSUME TimelineCallsAssumption, TimelineTypeOK
    PROVE  /\ timelineSession \in TimelineSession
           /\ TimelineIds \subseteq Nat
           /\ TimelinePlaces \subseteq Nat \union {AppendIndex} /\ Positions \subseteq Nat
  BY DEF TimelineCallsAssumption, TimelineTypeOK, Positions

LEMMA SourcesKeep == ASSUME TimelineCallsAssumption, ProjectInv, EditMediaSources PROVE ProjectInv'
  <1>1. timelineSession.sources \subseteq ElementsOf("sources") /\ "sources" \in Collections
    BY CallsAreTyped DEF ProjectInv, TimelineSession, ElementsOf, Collections
  <1> QED
    BY <1>1, CallsAreTyped, CollectionEditsKeep, CollectionMovesKeep
       DEF EditMediaSources, InsertMediaSource, ReplaceMediaSource, MoveMediaSource, RemoveMediaSource,
           ProjectInv

LEMMA SequencesKeep == ASSUME TimelineCallsAssumption, ProjectInv, EditSequences PROVE ProjectInv'
  <1>1. timelineSession.sequences \subseteq ElementsOf("sequences") /\ "sequences" \in Collections
    BY CallsAreTyped DEF ProjectInv, TimelineSession, ElementsOf, Collections
  <1>2. project \in TimelineProject
    BY DEF ProjectInv, TimelineTypeOK
  <1>3. CASE \E id \in TimelineIds \union {0} : SetActiveSequence(id)
    <2>1. PICK id \in TimelineIds \union {0} : SetActiveSequence(id)
      BY <1>3
    <2>2. id \in Nat
      BY <2>1, CallsAreTyped DEF ProjectInv
    <2>3. [project EXCEPT !.active = id] \in TimelineProject
      BY <1>2, <2>2 DEF TimelineProject
    <2> QED
      BY <2>1, <2>3, EditKeeps DEF SetActiveSequence
  <1>4. CASE \E id \in TimelineIds, num \in {0, 3} : SetSequenceFrameRate(id, [num |-> num, den |-> 1])
    <2>1. PICK id \in TimelineIds, num \in {0, 3} : SetSequenceFrameRate(id, [num |-> num, den |-> 1])
      BY <1>4
    <2>2. [num |-> num, den |-> 1] \in TimeBase
      BY DEF TimeBase
    <2> QED
      BY <1>2, <2>1, <2>2, WithFrameRateType, EditKeeps DEF SetSequenceFrameRate
  <1>5. CASE \E sequence \in timelineSession.sequences, at \in TimelinePlaces : InsertSequence(sequence, at)
    BY <1>1, <1>5, CallsAreTyped, CollectionEditsKeep DEF InsertSequence, ProjectInv
  <1>6. CASE \E sequence \in timelineSession.sequences, id \in TimelineIds : ReplaceSequence(id, sequence)
    BY <1>1, <1>6, CollectionEditsKeep DEF ReplaceSequence
  <1>7. CASE \E id \in TimelineIds, to \in Positions : MoveSequence(id, to)
    BY <1>1, <1>7, CallsAreTyped, CollectionMovesKeep DEF MoveSequence, ProjectInv
  <1>8. CASE \E id \in TimelineIds : RemoveSequence(id)
    BY <1>1, <1>8, CollectionMovesKeep DEF RemoveSequence
  <1> QED
    BY <1>3, <1>4, <1>5, <1>6, <1>7, <1>8 DEF EditSequences

LEMMA ProfilesKeep == ASSUME TimelineCallsAssumption, ProjectInv, EditProfiles PROVE ProjectInv'
  <1>1. timelineSession.profiles \subseteq ElementsOf("profiles") /\ "profiles" \in Collections
    BY CallsAreTyped DEF ProjectInv, TimelineSession, ElementsOf, Collections
  <1>2. project \in TimelineProject
    BY DEF ProjectInv, TimelineTypeOK
  <1>3. ASSUME NEW id \in TimelineIds, NEW value \in STRING,
               \/ SetRenderContainer(id, value)
               \/ SetRenderVideoCodec(id, value) \/ SetRenderAudioCodec(id, value)
        PROVE  ProjectInv'
    <2>1. Has(project.profiles, id) => Profile(id) \in TimelineRenderProfile
      BY <1>2, WithProfileType
    <2>2. <<value>> \in Optional(STRING)
      BY OneIsOptional
    <2>3. Has(project.profiles, id) =>
              /\ [Profile(id) EXCEPT !.container = value] \in TimelineRenderProfile
              /\ [Profile(id) EXCEPT !.video = <<value>>] \in TimelineRenderProfile
              /\ [Profile(id) EXCEPT !.audio = <<value>>] \in TimelineRenderProfile
      BY <2>1, <2>2 DEF TimelineRenderProfile
    <2>4. Has(project.profiles, id) =>
              /\ WithProfile(id, [Profile(id) EXCEPT !.container = value]) \in TimelineProject
              /\ WithProfile(id, [Profile(id) EXCEPT !.video = <<value>>]) \in TimelineProject
              /\ WithProfile(id, [Profile(id) EXCEPT !.audio = <<value>>]) \in TimelineProject
      BY <1>2, <2>3, WithProfileType
    <2>5. CASE SetRenderContainer(id, value)
      BY <2>4, <2>5, EditKeeps DEF SetRenderContainer
    <2>6. CASE SetRenderVideoCodec(id, value)
      BY <2>4, <2>6, EditKeeps DEF SetRenderVideoCodec
    <2>7. CASE SetRenderAudioCodec(id, value)
      BY <2>4, <2>7, EditKeeps DEF SetRenderAudioCodec
    <2> QED
      BY <1>3, <2>5, <2>6, <2>7
  <1>4. CASE \E profile \in timelineSession.profiles, at \in TimelinePlaces : InsertRenderProfile(profile, at)
    BY <1>1, <1>4, CallsAreTyped, CollectionEditsKeep DEF InsertRenderProfile, ProjectInv
  <1>5. CASE \E profile \in timelineSession.profiles, id \in TimelineIds : ReplaceRenderProfile(id, profile)
    BY <1>1, <1>5, CollectionEditsKeep DEF ReplaceRenderProfile
  <1>6. CASE \E id \in TimelineIds, to \in Positions : MoveRenderProfile(id, to)
    BY <1>1, <1>6, CallsAreTyped, CollectionMovesKeep DEF MoveRenderProfile, ProjectInv
  <1>7. CASE \E id \in TimelineIds : RemoveRenderProfile(id)
    BY <1>1, <1>7, CollectionMovesKeep DEF RemoveRenderProfile
  <1> QED
    <2>1. Names \subseteq STRING
      BY DEF TimelineCallsAssumption
    <2> QED
      BY <1>3, <1>4, <1>5, <1>6, <1>7, <2>1 DEF EditProfiles

LEMMA TracksKeep == ASSUME TimelineCallsAssumption, ProjectInv, EditTracks PROVE ProjectInv'
  <1>1. project \in TimelineProject /\ timelineSession.tracks \subseteq TimelineTrack
    BY CallsAreTyped DEF ProjectInv, TimelineTypeOK, TimelineSession
  <1>2. PICK s \in TimelineIds :
            \/ \E track \in timelineSession.tracks, at \in TimelinePlaces : InsertTrack(s, track, at)
            \/ \E track \in timelineSession.tracks, id \in TimelineIds : ReplaceTrack(s, id, track)
            \/ \E id \in TimelineIds, to \in Positions : MoveTrack(s, id, to)
            \/ \E id \in TimelineIds : RemoveTrack(s, id)
    BY DEF EditTracks
  <1>3. Has(project.sequences, s) =>
            /\ TracksOf(s) \in Seq(TimelineTrack)
            /\ \A tracks \in Seq(TimelineTrack) : WithTracks(s, tracks) \in TimelineProject
    BY <1>1, WithTracksType
  <1>4. ASSUME NEW track \in timelineSession.tracks, NEW at \in TimelinePlaces, InsertTrack(s, track, at)
        PROVE  ProjectInv'
    <2>1. at \in Nat \union {AppendIndex}
      BY CallsAreTyped DEF ProjectInv
    <2>2. Has(project.sequences, s) /\ ~IsOutside(at, TracksOf(s)) =>
              Inserted(TracksOf(s), at, track) \in Seq(TimelineTrack)
      BY <1>1, <1>3, <2>1, InsertedType
    <2> QED
      BY <1>3, <1>4, <2>2, EditKeeps DEF InsertTrack
  <1>5. ASSUME NEW id \in TimelineIds, HasTrack(s, id)
        PROVE  Item(TracksOf(s), id) \in 1 .. Len(TracksOf(s))
    BY <1>3, <1>5, PlaceOfItem DEF HasTrack
  <1>6. ASSUME NEW track \in timelineSession.tracks, NEW id \in TimelineIds, ReplaceTrack(s, id, track)
        PROVE  ProjectInv'
    <2>1. HasTrack(s, id) =>
              ReplaceAt(TracksOf(s), Item(TracksOf(s), id), track) \in Seq(TimelineTrack)
      BY <1>1, <1>3, <1>5, ReplaceAtType DEF HasTrack
    <2> QED
      BY <1>3, <1>6, <2>1, EditKeeps DEF ReplaceTrack, HasTrack
  <1>7. ASSUME NEW id \in TimelineIds, NEW to \in Positions, MoveTrack(s, id, to) PROVE ProjectInv'
    <2>1. to \in Nat
      BY CallsAreTyped DEF ProjectInv
    <2>2. HasTrack(s, id) /\ ~(to >= Len(TracksOf(s))) =>
              MoveElement(TracksOf(s), Item(TracksOf(s), id), to) \in Seq(TimelineTrack)
      <3> SUFFICES ASSUME HasTrack(s, id), ~(to >= Len(TracksOf(s)))
                   PROVE  MoveElement(TracksOf(s), Item(TracksOf(s), id), to) \in Seq(TimelineTrack)
        OBVIOUS
      <3>1. TracksOf(s) \in Seq(TimelineTrack) /\ Len(TracksOf(s)) \in Nat
        BY <1>3, LenProperties DEF HasTrack
      <3>2. to < Len(TracksOf(s))
        BY <2>1, <3>1
      <3> QED
        BY <1>5, <2>1, <3>1, <3>2, MoveElementType
    <2> QED
      BY <1>3, <1>7, <2>2, EditKeeps DEF MoveTrack, HasTrack
  <1>8. ASSUME NEW id \in TimelineIds, RemoveTrack(s, id) PROVE ProjectInv'
    <2>1. HasTrack(s, id) => RemoveAt(TracksOf(s), Item(TracksOf(s), id)) \in Seq(TimelineTrack)
      BY <1>3, <1>5, RemoveAtType DEF HasTrack
    <2> QED
      BY <1>3, <1>8, <2>1, EditKeeps DEF RemoveTrack, HasTrack
  <1> QED
    BY <1>2, <1>4, <1>6, <1>7, <1>8

LEMMA ClipsKeep == ASSUME TimelineCallsAssumption, ProjectInv, EditTimelineClips PROVE ProjectInv'
  <1>1. project \in TimelineProject /\ timelineSession.clips \subseteq TimelineClip
    BY CallsAreTyped DEF ProjectInv, TimelineTypeOK, TimelineSession
  <1>2. PICK s \in TimelineIds :
            \/ \E clip \in timelineSession.clips, t \in TimelineIds, at \in TimelinePlaces : InsertClip(s, t, clip, at)
            \/ \E clip \in timelineSession.clips, id \in TimelineIds : ReplaceClip(s, id, clip)
            \/ \E id \in TimelineIds, to \in Positions : MoveClip(s, id, to)
            \/ \E id \in TimelineIds : RemoveClip(s, id)
    BY DEF EditTimelineClips
  <1>3. Has(project.sequences, s) => TracksOf(s) \in Seq(TimelineTrack)
    BY <1>1, WithTracksType
  <1>4. ASSUME Has(project.sequences, s), NEW t \in 1 .. Len(TracksOf(s))
        PROVE  /\ TracksOf(s)[t].clips \in Seq(TimelineClip)
               /\ \A clips \in Seq(TimelineClip) : WithClips(s, t, clips) \in TimelineProject
    BY <1>1, <1>4, WithClipsType
  <1>5. ASSUME NEW clip \in timelineSession.clips, NEW t \in TimelineIds, NEW at \in TimelinePlaces,
               InsertClip(s, t, clip, at)
        PROVE  ProjectInv'
    <2> DEFINE track == Found(TracksOf(s), t)
               place == Item(TracksOf(s), t)
               clips == Inserted(track.clips, at, clip)
    <2>1. at \in Nat \union {AppendIndex}
      BY CallsAreTyped DEF ProjectInv
    <2>2. HasTrack(s, t) => place \in 1 .. Len(TracksOf(s)) /\ track = TracksOf(s)[place]
      BY <1>3, PlaceOfItem DEF HasTrack
    <2>3. HasTrack(s, t) => track.clips \in Seq(TimelineClip)
      BY <1>4, <2>2 DEF HasTrack
    <2>4. HasTrack(s, t) /\ ~IsOutside(at, track.clips) => clips \in Seq(TimelineClip)
      BY <1>1, <2>1, <2>3, InsertedType
    <2>5. HasTrack(s, t) /\ ~IsOutside(at, track.clips) =>
              WithClips(s, place, clips) \in TimelineProject
      BY <1>4, <2>2, <2>4 DEF HasTrack
    <2> QED
      BY <1>5, <2>5, EditKeeps DEF InsertClip
  <1>6. ASSUME NEW id \in TimelineIds, HasTimelineClip(s, id)
        PROVE  /\ Has(project.sequences, s) /\ TrackOf(s, id) \in 1 .. Len(TracksOf(s))
               /\ ClipsBeside(s, id) \in Seq(TimelineClip)
               /\ Item(ClipsBeside(s, id), id) \in 1 .. Len(ClipsBeside(s, id))
               /\ \A clips \in Seq(TimelineClip) :
                      WithClips(s, TrackOf(s, id), clips) \in TimelineProject
    <2>1. Has(project.sequences, s) /\ TracksOf(s) \in Seq(TimelineTrack)
      BY <1>3, <1>6 DEF HasTimelineClip
    <2>2. \E t \in 1 .. Len(TracksOf(s)) : Has(TracksOf(s)[t].clips, id)
      BY <1>6, <2>1, ToSetOfSeq DEF HasTimelineClip
    <2>3. DOMAIN TracksOf(s) = 1 .. Len(TracksOf(s))
      BY <2>1, LenProperties
    <2>4. TrackOf(s, id) \in 1 .. Len(TracksOf(s)) /\ Has(ClipsBeside(s, id), id)
      BY <2>2, <2>3 DEF TrackOf, ClipsBeside
    <2>5. ClipsBeside(s, id) \in Seq(TimelineClip)
      BY <1>4, <2>1, <2>4 DEF ClipsBeside
    <2>6. Item(ClipsBeside(s, id), id) \in 1 .. Len(ClipsBeside(s, id))
      BY <2>4, <2>5, PlaceOfItem
    <2> QED
      BY <1>4, <2>1, <2>4, <2>5, <2>6
  <1>7. ASSUME NEW clip \in timelineSession.clips, NEW id \in TimelineIds, ReplaceClip(s, id, clip)
        PROVE  ProjectInv'
    <2>1. HasTimelineClip(s, id) =>
              ReplaceAt(ClipsBeside(s, id), Item(ClipsBeside(s, id), id), clip) \in Seq(TimelineClip)
      BY <1>1, <1>6, ReplaceAtType
    <2> QED
      BY <1>6, <1>7, <2>1, EditKeeps DEF ReplaceClip
  <1>8. ASSUME NEW id \in TimelineIds, NEW to \in Positions, MoveClip(s, id, to) PROVE ProjectInv'
    <2>1. to \in Nat
      BY CallsAreTyped DEF ProjectInv
    <2>2. HasTimelineClip(s, id) /\ ~(to >= Len(ClipsBeside(s, id))) =>
              MoveElement(ClipsBeside(s, id), Item(ClipsBeside(s, id), id), to) \in Seq(TimelineClip)
      <3> SUFFICES ASSUME HasTimelineClip(s, id), ~(to >= Len(ClipsBeside(s, id)))
                   PROVE  MoveElement(ClipsBeside(s, id), Item(ClipsBeside(s, id), id), to)
                              \in Seq(TimelineClip)
        OBVIOUS
      <3>1. ClipsBeside(s, id) \in Seq(TimelineClip) /\ Len(ClipsBeside(s, id)) \in Nat
        BY <1>6, LenProperties
      <3>2. to < Len(ClipsBeside(s, id))
        BY <2>1, <3>1
      <3> QED
        BY <1>6, <2>1, <3>1, <3>2, MoveElementType
    <2> QED
      BY <1>6, <1>8, <2>2, EditKeeps DEF MoveClip
  <1>9. ASSUME NEW id \in TimelineIds, RemoveClip(s, id) PROVE ProjectInv'
    <2>1. HasTimelineClip(s, id) =>
              RemoveAt(ClipsBeside(s, id), Item(ClipsBeside(s, id), id)) \in Seq(TimelineClip)
      BY <1>6, RemoveAtType
    <2> QED
      BY <1>6, <1>9, <2>1, EditKeeps DEF RemoveClip
  <1> QED
    BY <1>2, <1>5, <1>7, <1>8, <1>9

LEMMA NoProjectType == NoProject \in TimelineProject
  <1>1. \A S : <<>> \in Seq(S)
    OBVIOUS
  <1> QED
    BY <1>1, Zenon DEF NoProject, TimelineProject

LEMMA InvariantInit == TimelineInit => ProjectInv
  <1> SUFFICES ASSUME TimelineInit PROVE ProjectInv
    OBVIOUS
  <1>1. project \in TimelineProject /\ bound = FALSE /\ timelineRevision = 0 /\ timelineSession \in TimelineSessions
    BY NoProjectType DEF TimelineInit
  <1> QED
    BY <1>1 DEF ProjectInv, TimelineTypeOK

(* Every step keeps the bound project valid.                                 *)
LEMMA InvariantStep == TimelineCallsAssumption /\ ProjectInv /\ [TimelineNext]_timelineVars => ProjectInv'
  <1> SUFFICES ASSUME TimelineCallsAssumption, ProjectInv, [TimelineNext]_timelineVars PROVE ProjectInv'
    OBVIOUS
  <1>1. CASE BindProject
    <2>1. PICK start \in timelineSession.starts :
              ValidProject(start) /\ project' = start /\ bound' = TRUE /\ timelineRevision' = 0
      BY <1>1 DEF BindProject
    <2>2. start \in TimelineProject
      BY CallsAreTyped DEF ProjectInv, TimelineSession
    <2>3. TimelineTypeOK' /\ ValidProject(project)'
      BY <1>1, <2>1, <2>2 DEF BindProject, TimelineTypeOK, ProjectInv
    <2> QED
      BY <2>3 DEF ProjectInv
  <1>2. CASE UnbindProject
    BY <1>2, NoProjectType DEF UnbindProject, ProjectInv, TimelineTypeOK
  <1>3. CASE UNCHANGED timelineVars
    <2>1. TimelineTypeOK' /\ (bound' => ValidProject(project)')
      BY <1>3 DEF timelineVars, ProjectInv, TimelineTypeOK
    <2> QED
      BY <2>1 DEF ProjectInv
  <1> QED
    BY <1>1, <1>2, <1>3, SourcesKeep, SequencesKeep, ProfilesKeep, TracksKeep, ClipsKeep DEF TimelineNext

(* Whatever calls give, the project keeps its type.                          *)
THEOREM TypeCorrect == ASSUME TimelineCallsAssumption PROVE TimelineSpec => []TimelineTypeOK
  <1>1. TimelineCallsAssumption /\ ProjectInv /\ [TimelineNext]_timelineVars => ProjectInv'
    BY InvariantStep
  <1>2. ProjectInv => TimelineTypeOK
    BY DEF ProjectInv
  <1> QED
    BY <1>1, <1>2, InvariantInit, PTL DEF TimelineSpec

(* What is bound is valid, whatever is edited.                               *)
LEMMA Invariant == ASSUME TimelineCallsAssumption PROVE TimelineSpec => []ProjectInv
  BY InvariantInit, InvariantStep, PTL DEF TimelineSpec

-----------------------------------------------------------------------------
(* Looking up a stream                                                       *)

(* What is in one sequence after another is in one of the two.               *)
LEMMA ToSetOfConcat ==
    ASSUME NEW S, NEW s \in Seq(S), NEW t \in Seq(S)
    PROVE  s \o t \in Seq(S) /\ ToSet(s \o t) = ToSet(s) \union ToSet(t)
  <1>1. s \o t \in Seq(S) /\ Len(s \o t) = Len(s) + Len(t) /\ Len(s) \in Nat /\ Len(t) \in Nat
    BY LenProperties, ConcatProperties
  <1>2. \A i \in 1 .. Len(s) + Len(t) :
            (s \o t)[i] = IF i <= Len(s) THEN s[i] ELSE t[i - Len(s)]
    BY ConcatProperties
  <1>3. ASSUME NEW e \in ToSet(s \o t) PROVE e \in ToSet(s) \union ToSet(t)
    <2>1. PICK i \in 1 .. Len(s) + Len(t) : (s \o t)[i] = e
      BY <1>1, ToSetOfSeq
    <2>2. CASE i <= Len(s)
      <3>1. i \in 1 .. Len(s) /\ s[i] = e
        BY <1>1, <1>2, <2>1, <2>2
      <3> QED
        BY <3>1, ToSetOfSeq
    <2>3. CASE ~(i <= Len(s))
      <3>1. i - Len(s) \in 1 .. Len(t) /\ t[i - Len(s)] = e
        BY <1>1, <1>2, <2>1, <2>3
      <3> QED
        BY <3>1, ToSetOfSeq
    <2> QED
      BY <2>2, <2>3
  <1>4. ASSUME NEW e \in ToSet(s) PROVE e \in ToSet(s \o t)
    <2>1. PICK i \in 1 .. Len(s) : s[i] = e
      BY ToSetOfSeq
    <2>2. i \in 1 .. Len(s \o t) /\ (s \o t)[i] = e
      BY <1>1, <1>2, <2>1
    <2> QED
      BY <1>1, <2>2, ToSetOfSeq
  <1>5. ASSUME NEW e \in ToSet(t) PROVE e \in ToSet(s \o t)
    <2>1. PICK i \in 1 .. Len(t) : t[i] = e
      BY ToSetOfSeq
    <2> DEFINE j == i + Len(s)
    <2>2. j \in 1 .. Len(s \o t) /\ ~(j <= Len(s)) /\ j - Len(s) = i
      BY <1>1, <2>1
    <2>3. (s \o t)[j] = e
      BY <1>1, <1>2, <2>1, <2>2
    <2> QED
      BY <1>1, <2>2, <2>3, ToSetOfSeq
  <1> QED
    BY <1>1, <1>3, <1>4, <1>5

(* The representation that is preferred for a stream is one of the source.   *)
LEMMA PickedType ==
    ASSUME NEW source \in MediaSource, NEW rep
    PROVE  /\ Picked(source, rep) \in Seq(MediaRepresentation)
           /\ ToSet(Picked(source, rep)) \subseteq ToSet(source.representations)
  <1>1. source.representations \in Seq(MediaRepresentation)
    BY DEF MediaSource
  <1>2. CASE Has(source.representations, rep)
    <2> DEFINE one == Found(source.representations, rep)
    <2>1. one \in MediaRepresentation /\ one \in ToSet(source.representations)
      BY <1>1, <1>2, PlaceOfItem, ToSetOfSeq
    <2>2. Picked(source, rep) = <<one>>
      BY <1>2 DEF Picked
    <2> HIDE DEF one
    <2>3. <<one>> \in Seq(MediaRepresentation) /\ ToSet(<<one>>) = {one}
      BY <2>1 DEF ToSet
    <2> QED
      BY <2>1, <2>2, <2>3
  <1>3. CASE ~Has(source.representations, rep)
    <2>1. Picked(source, rep) = <<>> /\ <<>> \in Seq(MediaRepresentation) /\ ToSet(<<>>) = {}
      BY <1>3 DEF Picked, ToSet
    <2> QED
      BY <2>1
  <1> QED
    BY <1>2, <1>3

(* The stream that is found has the id and is in a representation; and one    *)
(* is found whenever a representation has it.                                 *)
LEMMA FindStreamFinds ==
    ASSUME NEW source \in MediaSource, NEW id
    PROVE  /\ FindStream(source, id) # <<>> =>
                  /\ Head(FindStream(source, id)) \in StreamsOf(source)
                  /\ Head(FindStream(source, id)).id = id
           /\ FindStream(source, id) # <<>> <=> \E stream \in StreamsOf(source) : stream.id = id
  <1> DEFINE reps == source.representations
             order == Picked(source, source.active) \o Picked(source, source.original) \o reps
             holders == {i \in DOMAIN order : Has(order[i].streams, id)}
  <1>1. reps \in Seq(MediaRepresentation)
    BY DEF MediaSource
  <1>2. order \in Seq(MediaRepresentation) /\ ToSet(order) = ToSet(reps)
    <2> DEFINE a == Picked(source, source.active)
               b == Picked(source, source.original)
    <2>1. /\ a \in Seq(MediaRepresentation) /\ ToSet(a) \subseteq ToSet(reps)
          /\ b \in Seq(MediaRepresentation) /\ ToSet(b) \subseteq ToSet(reps)
      BY PickedType
    <2> HIDE DEF a, b, reps
    <2> DEFINE both == a \o b
    <2>2. both \in Seq(MediaRepresentation) /\ ToSet(both) = ToSet(a) \union ToSet(b)
      BY <2>1, ToSetOfConcat
    <2> HIDE DEF both
    <2>3. both \o reps \in Seq(MediaRepresentation) /\ ToSet(both \o reps) = ToSet(reps)
      <3>1. /\ both \o reps \in Seq(MediaRepresentation)
            /\ ToSet(both \o reps) = ToSet(both) \union ToSet(reps)
        BY <1>1, <2>2, ToSetOfConcat
      <3> QED
        BY <2>1, <2>2, <3>1
    <2> QED
      BY <2>3 DEF a, b, both
  <1>3. FindStream(source, id) =
            IF holders = {} THEN <<>> ELSE <<Found(order[Min(holders)].streams, id)>>
    BY DEF FindStream
  <1> HIDE DEF order
  <1>4. DOMAIN order = 1 .. Len(order) /\ Len(order) \in Nat
    BY <1>2, LenProperties
  <1>5. holders # {} => Min(holders) \in holders
    <2>1. holders \in SUBSET Nat
      BY <1>4
    <2> HIDE DEF holders
    <2> QED
      BY <2>1, LeastNumber DEF Min
  <1>6. ASSUME holders # {}
        PROVE  /\ Found(order[Min(holders)].streams, id) \in StreamsOf(source)
               /\ Found(order[Min(holders)].streams, id).id = id
    <2> DEFINE rep == order[Min(holders)]
    <2>1. rep \in ToSet(reps) /\ rep \in MediaRepresentation /\ Has(rep.streams, id)
      BY <1>2, <1>4, <1>5, <1>6, ToSetOfSeq
    <2> HIDE DEF rep
    <2>2. rep.streams \in Seq(MediaStream)
      BY <2>1 DEF MediaRepresentation
    <2>3. Found(rep.streams, id) \in ToSet(rep.streams) /\ Found(rep.streams, id).id = id
      BY <2>1, <2>2, PlaceOfItem, ItemProperties, ToSetOfSeq
    <2> QED
      BY <2>1, <2>3 DEF StreamsOf, rep
  <1>7. ASSUME NEW stream \in StreamsOf(source), stream.id = id PROVE holders # {}
    <2>1. PICK rep \in ToSet(reps) : stream \in ToSet(rep.streams)
      BY DEF StreamsOf
    <2>2. PICK i \in 1 .. Len(order) : order[i] = rep
      BY <1>2, <2>1, ToSetOfSeq
    <2>3. rep.streams \in Seq(MediaStream)
      <3>1. rep \in MediaRepresentation
        BY <1>1, <2>1, ToSetOfSeq
      <3> QED
        BY <3>1 DEF MediaRepresentation
    <2>4. Has(rep.streams, id)
      BY <1>7, <2>1, <2>3, ToSetOfSeq, LenProperties DEF Has
    <2> QED
      BY <1>4, <2>2, <2>4
  <1>8. CASE holders = {}
    BY <1>3, <1>7, <1>8
  <1>9. CASE holders # {}
    <2> DEFINE stream == Found(order[Min(holders)].streams, id)
    <2>1. FindStream(source, id) = <<stream>> /\ stream \in StreamsOf(source) /\ stream.id = id
      BY <1>3, <1>6, <1>9
    <2> HIDE DEF stream
    <2>2. <<stream>> # <<>> /\ Head(<<stream>>) = stream
      OBVIOUS
    <2> QED
      BY <2>1, <2>2
  <1> QED
    BY <1>8, <1>9

-----------------------------------------------------------------------------
(* What a valid project promises: everything it names is there.              *)

(* Where ids are distinct, looking up the id of an element finds it.         *)
LEMMA FoundIsTheOne ==
    ASSUME NEW S, NEW s \in Seq(S), Distinct(s), NEW e \in ToSet(s)
    PROVE  Has(s, e.id) /\ Found(s, e.id) = e
  <1>1. PICK i \in 1 .. Len(s) : s[i] = e
    BY ToSetOfSeq
  <1>2. DOMAIN s = 1 .. Len(s)
    BY LenProperties
  <1>3. Has(s, e.id) /\ Item(s, e.id) = i
    BY <1>1, <1>2 DEF Has, Item, Distinct
  <1> QED
    BY <1>1, <1>3 DEF Found

(* The parts of a sequence of the project, with their types.                 *)
LEMMA PartsOfSequence ==
    ASSUME project \in TimelineProject, ValidProject(project), NEW sequence \in ToSet(project.sequences)
    PROVE  /\ sequence \in TimelineSequence /\ ValidSequence(sequence, project)
           /\ sequence.tracks \in Seq(TimelineTrack) /\ sequence.groups \in Seq(LinkGroup)
           /\ \A track \in ToSet(sequence.tracks) :
                  /\ track \in TimelineTrack /\ ValidTimelineTrack(track, project, sequence)
                  /\ track.clips \in Seq(TimelineClip)
                  /\ track.transitions \in Seq(TimelineTransition)
                  /\ \A clip \in ToSet(track.clips) :
                         /\ clip \in TimelineClip /\ clip \in AllClips(sequence)
                         /\ ValidClip(clip, track.kind, project, sequence)
  <1>1. sequence \in TimelineSequence /\ ValidSequence(sequence, project)
    <2>1. project.sequences \in Seq(TimelineSequence)
      BY DEF TimelineProject
    <2> QED
      BY <2>1, ToSetOfSeq DEF ValidProject
  <1>2. sequence.tracks \in Seq(TimelineTrack) /\ sequence.groups \in Seq(LinkGroup)
    BY <1>1 DEF TimelineSequence
  <1>3. ASSUME NEW track \in ToSet(sequence.tracks)
        PROVE  /\ track \in TimelineTrack /\ ValidTimelineTrack(track, project, sequence)
               /\ track.clips \in Seq(TimelineClip)
               /\ track.transitions \in Seq(TimelineTransition)
    <2>1. track \in TimelineTrack /\ ValidTimelineTrack(track, project, sequence)
      BY <1>1, <1>2, ToSetOfSeq DEF ValidSequence
    <2> QED
      BY <2>1 DEF TimelineTrack
  <1>4. ASSUME NEW track \in ToSet(sequence.tracks), NEW clip \in ToSet(track.clips)
        PROVE  /\ clip \in TimelineClip /\ clip \in AllClips(sequence)
               /\ ValidClip(clip, track.kind, project, sequence)
    <2>1. track.clips \in Seq(TimelineClip) /\ ValidTimelineTrack(track, project, sequence)
      BY <1>3
    <2>2. clip \in TimelineClip
      BY <2>1, ToSetOfSeq
    <2> QED
      BY <2>1, <2>2 DEF ValidTimelineTrack, AllClips
  <1> QED
    BY <1>1, <1>2, <1>3, <1>4

(* A clip finds its media stream or its sequence.                            *)
LEMMA ClipsResolve ==
    ASSUME project \in TimelineProject, ValidProject(project), NEW sequence \in ToSet(project.sequences),
           NEW track \in ToSet(sequence.tracks), NEW clip \in ClipsIn(track)
    PROVE  ClipResolves(clip, track)
  <1>1. ValidClip(clip, track.kind, project, sequence)
    BY PartsOfSequence DEF ClipsIn
  <1>2. ASSUME clip.source.type = "media"
        PROVE  \E source \in ToSet(project.sources) : \E stream \in StreamsOf(source) :
                   /\ <<source.id, stream.id>> = <<clip.source.id, clip.source.stream>>
                   /\ stream.kind = track.kind
    <2> DEFINE source == Found(project.sources, clip.source.id)
               streams == FindStream(source, clip.source.stream)
    <2>1. Has(project.sources, clip.source.id) /\ streams # <<>> /\ Head(streams).kind = track.kind
      BY <1>1, <1>2 DEF ValidClip, FromMedia
    <2>2. project.sources \in Seq(MediaSource)
      BY DEF TimelineProject
    <2>3. source \in ToSet(project.sources) /\ source \in MediaSource /\ source.id = clip.source.id
      BY <2>1, <2>2, PlaceOfItem, ItemProperties, ToSetOfSeq
    <2> HIDE DEF source
    <2>4. Head(streams) \in StreamsOf(source) /\ Head(streams).id = clip.source.stream
      BY <2>1, <2>3, FindStreamFinds
    <2> QED
      BY <2>1, <2>3, <2>4
  <1>3. ASSUME clip.source.type = "sequence" PROVE Has(project.sequences, clip.source.id)
    BY <1>1, <1>3 DEF ValidClip, FromSequence
  <1> QED
    BY <1>2, <1>3 DEF ClipResolves

(* A clip is determined by its id in the whole sequence.                     *)
LEMMA ClipsAreDistinct ==
    ASSUME project \in TimelineProject, ValidProject(project), NEW sequence \in ToSet(project.sequences),
           NEW a \in AllClips(sequence), NEW b \in AllClips(sequence), a.id = b.id
    PROVE  a = b
  <1>1. PICK track \in ToSet(sequence.tracks), other \in ToSet(sequence.tracks) :
            a \in ToSet(track.clips) /\ b \in ToSet(other.clips)
    BY DEF AllClips
  <1>2. PICK t \in DOMAIN sequence.tracks, u \in DOMAIN sequence.tracks :
            sequence.tracks[t] = track /\ sequence.tracks[u] = other
    BY PartsOfSequence, ToSetOfSeq, LenProperties
  <1>3. PICK i \in DOMAIN track.clips, j \in DOMAIN other.clips :
            track.clips[i] = a /\ other.clips[j] = b
    <2>1. track.clips \in Seq(TimelineClip) /\ other.clips \in Seq(TimelineClip)
      BY PartsOfSequence
    <2> QED
      BY <1>1, <2>1, ToSetOfSeq, LenProperties
  <1>4. DistinctClips(sequence)
    BY PartsOfSequence DEF ValidSequence
  <1> QED
    BY <1>2, <1>3, <1>4 DEF DistinctClips

(* A clip names a group exactly when the group names the clip.               *)
LEMMA LinksAreMutual ==
    ASSUME project \in TimelineProject, ValidProject(project), NEW sequence \in ToSet(project.sequences),
           NEW clip \in AllClips(sequence), NEW group \in ToSet(sequence.groups)
    PROVE  clip.group = group.id <=> clip.id \in ToSet(group.clips)
  <1>1. ValidLinks(sequence) /\ sequence.groups \in Seq(LinkGroup)
    BY PartsOfSequence DEF ValidSequence
  <1>2. Found(sequence.groups, group.id) = group /\ group.id # 0
    <2>1. Distinct(sequence.groups) /\ group.id # 0
      BY <1>1, ToSetOfSeq, LenProperties DEF ValidLinks, ValidIds
    <2> QED
      BY <1>1, <2>1, FoundIsTheOne
  <1>3. clip.group = group.id => clip.id \in ToSet(group.clips)
    BY <1>1, <1>2 DEF ValidLinks
  <1>4. ASSUME clip.id \in ToSet(group.clips) PROVE clip.group = group.id
    <2>1. PICK other \in AllClips(sequence) : other.id = clip.id /\ other.group = group.id
      BY <1>1, <1>4 DEF ValidLinks
    <2> QED
      BY <2>1, ClipsAreDistinct
  <1> QED
    BY <1>3, <1>4

(* A transition with two clips covers the cut where they meet.               *)
LEMMA TransitionsStandOnCuts ==
    ASSUME project \in TimelineProject, ValidProject(project), NEW sequence \in ToSet(project.sequences),
           NEW track \in ToSet(sequence.tracks), NEW transition \in ToSet(track.transitions),
           transition.from # 0, transition.to # 0
    PROVE  StandsOnCut(transition, track)
  <1> DEFINE from == Found(track.clips, transition.from)
             to == Found(track.clips, transition.to)
  <1>1. track.clips \in Seq(TimelineClip) /\ ValidTransition(transition, track, sequence)
    BY PartsOfSequence DEF ValidTimelineTrack
  <1>2. Has(track.clips, transition.from) /\ Has(track.clips, transition.to)
    BY <1>1 DEF ValidTransition
  <1>3. CoversCut(transition, from, to)
    BY <1>1 DEF ValidTransition
  <1>4. /\ from \in ToSet(track.clips) /\ from \in TimelineClip /\ from.id = transition.from
        /\ to \in ToSet(track.clips) /\ to \in TimelineClip /\ to.id = transition.to
    BY <1>1, <1>2, PlaceOfItem, ItemProperties, ToSetOfSeq
  <1> HIDE DEF from, to
  <1>5. transition \in TimelineTransition
    BY PartsOfSequence, ToSetOfSeq
  <1>6. End(from.range) \in Int /\ End(transition.range) \in Int /\ transition.range.start \in Int
    <2>1. from.range \in TickRange /\ transition.range \in TickRange
      BY <1>4, <1>5 DEF TimelineClip, TimelineTransition
    <2> QED
      BY <2>1 DEF End, TickRange
  <1>7. /\ End(from.range) = to.range.start
        /\ End(from.range) - transition.range.start >= 0
        /\ End(transition.range) - End(from.range) >= 0
    BY <1>3 DEF CoversCut
  <1>8. transition.range.start <= to.range.start /\ End(from.range) <= End(transition.range)
    BY <1>6, <1>7
  <1> QED
    BY <1>4, <1>7, <1>8 DEF StandsOnCut, ClipsIn

(* No set of sequences in which each plays another of them but the empty     *)
(* one.                                                                      *)
LEMMA NothingPlaysItself ==
    ASSUME project \in TimelineProject, ValidProject(project), NEW knot \in SUBSET ToSet(project.sequences),
           \A a \in knot : \E b \in knot : Nests(a, b)
    PROVE  knot = {}
  <1> DEFINE edges == [id \in IdsOf(project.sequences) |-> NestedIn(Found(project.sequences, id))]
             ids == {a.id : a \in knot}
  <1>1. project.sequences \in Seq(TimelineSequence) /\ Distinct(project.sequences)
    BY DEF TimelineProject, ValidProject, ValidIds
  <1>2. ids \subseteq DOMAIN edges
    BY DEF IdsOf
  <1>3. ASSUME NEW x \in ids PROVE \E y \in ids : y \in Targets(edges, x)
    <2>1. PICK a \in knot, b \in knot : x = a.id /\ Nests(a, b)
      OBVIOUS
    <2>2. Found(project.sequences, x) = a
      BY <1>1, <2>1, FoundIsTheOne
    <2>3. x \in DOMAIN edges /\ edges[x] = NestedIn(a)
      BY <1>2, <2>2
    <2> QED
      BY <2>1, <2>3 DEF Targets, Nests
  <1>4. IsFiniteSet(ids)
    <2>1. IsFiniteSet(1 .. Len(project.sequences))
      BY <1>1, LenProperties, FS_Interval
    <2> DEFINE all == {project.sequences[i].id : i \in 1 .. Len(project.sequences)}
               f == [i \in 1 .. Len(project.sequences) |-> project.sequences[i].id]
    <2>2. f \in Surjection(1 .. Len(project.sequences), all)
      BY DEF Surjection
    <2>3. IsFiniteSet(all)
      <3> HIDE DEF f, all
      <3> QED
        BY <2>1, <2>2, FS_Surjection
    <2>4. ids \in SUBSET all
      BY <1>1, ToSetOfSeq
    <2> QED
      BY <2>3, <2>4, FS_Subset
  <1>5. ~HasCycle(edges)
    BY DEF ValidProject, SequenceGraphHasCycle
  <1> HIDE DEF edges
  <1>6. ids = {}
    <2> HIDE DEF ids
    <2> QED
      BY <1>2, <1>3, <1>4, <1>5, SearchFindsKnots
  <1> QED
    BY <1>6

(* Bins, profiles and the active sequence find what they name.               *)
LEMMA NamedIsThere ==
    ASSUME project \in TimelineProject, ValidProject(project)
    PROVE  /\ \A bin \in ToSet(project.bins) : \A id \in ToSet(bin.sources) : Has(project.sources, id)
           /\ \A id \in {profile.sequence : profile \in ToSet(project.profiles)}
                          \union ({project.active} \ {0}) : Has(project.sequences, id)
  BY DEF ValidProject, ValidBin, ValidProfile

(* What names something finds it, links are mutual, transitions stand on     *)
(* their cuts and no sequence plays itself, whatever is inserted, replaced,  *)
(* moved or removed.                                                         *)
THEOREM TimelineIsConnectedCorrect ==
    ASSUME TimelineCallsAssumption PROVE TimelineSpec => []TimelineIsConnected
  <1>1. ProjectInv => TimelineIsConnected
    <2> SUFFICES ASSUME ProjectInv, bound PROVE TimelineIsConnected
      BY DEF TimelineIsConnected
    <2>1. project \in TimelineProject /\ ValidProject(project)
      BY DEF ProjectInv, TimelineTypeOK
    <2>2. ASSUME NEW sequence \in ToSet(project.sequences), NEW track \in ToSet(sequence.tracks),
                 NEW clip \in ClipsIn(track)
          PROVE  /\ ClipResolves(clip, track)
                 /\ \A group \in ToSet(sequence.groups) :
                        clip.group = group.id <=> clip.id \in ToSet(group.clips)
      <3>1. clip \in AllClips(sequence)
        BY DEF ClipsIn, AllClips
      <3> QED
        BY <2>1, <3>1, ClipsResolve, LinksAreMutual
    <2>3. ASSUME NEW sequence \in ToSet(project.sequences), NEW track \in ToSet(sequence.tracks),
                 NEW transition \in ToSet(track.transitions),
                 0 \notin {transition.from, transition.to}
          PROVE  StandsOnCut(transition, track)
      BY <2>1, <2>3, TransitionsStandOnCuts
    <2>4. ASSUME NEW knot \in SUBSET ToSet(project.sequences),
                 \A a \in knot : \E b \in knot : Nests(a, b)
          PROVE  knot = {}
      BY <2>1, <2>4, NothingPlaysItself
    <2> QED
      BY <2>1, <2>2, <2>3, <2>4, NamedIsThere DEF TimelineIsConnected
  <1> QED
    BY <1>1, Invariant, PTL

-----------------------------------------------------------------------------
(* Representations stand in for each other                                   *)

(* A project in which a source plays from another representation.            *)
LEMMA ActivatedType ==
    ASSUME project \in TimelineProject, ValidProject(project), NEW i \in DOMAIN project.sources,
           NEW rep \in ToSet(project.sources[i].representations)
    PROVE  /\ project.sources \in Seq(MediaSource) /\ i \in 1 .. Len(project.sources)
           /\ project.sources[i] \in MediaSource /\ rep \in MediaRepresentation
           /\ [project.sources[i] EXCEPT !.active = rep.id] \in MediaSource
           /\ [project EXCEPT !.sources[i].active = rep.id].sources
                  = [project.sources EXCEPT ![i] = [project.sources[i] EXCEPT !.active = rep.id]]
           /\ [project EXCEPT !.sources[i].active = rep.id].sources \in Seq(MediaSource)
           /\ [project EXCEPT !.sources[i].active = rep.id].sequences = project.sequences
           /\ [project EXCEPT !.sources[i].active = rep.id].bins = project.bins
           /\ [project EXCEPT !.sources[i].active = rep.id].profiles = project.profiles
           /\ [project EXCEPT !.sources[i].active = rep.id].active = project.active
  <1>1. project.sources \in Seq(MediaSource) /\ i \in 1 .. Len(project.sources)
    <2>1. project.sources \in Seq(MediaSource)
      BY DEF TimelineProject
    <2> QED
      BY <2>1, LenProperties
  <1>2. project.sources[i] \in MediaSource
    BY <1>1, ElementOfSeq
  <1>3. project.sources[i].representations \in Seq(MediaRepresentation)
    BY <1>2 DEF MediaSource
  <1>4. rep \in MediaRepresentation
    BY <1>3, ToSetOfSeq
  <1>5. [project.sources[i] EXCEPT !.active = rep.id] \in MediaSource
    BY <1>2, <1>4 DEF MediaSource, MediaRepresentation
  <1>6. [project.sources EXCEPT ![i] = [project.sources[i] EXCEPT !.active = rep.id]]
            \in Seq(MediaSource)
    BY <1>1, <1>5, ExceptSeq
  <1>7. /\ [project EXCEPT !.sources[i].active = rep.id].sources
                = [project.sources EXCEPT ![i] = [project.sources[i] EXCEPT !.active = rep.id]]
        /\ [project EXCEPT !.sources[i].active = rep.id].sequences = project.sequences
        /\ [project EXCEPT !.sources[i].active = rep.id].bins = project.bins
        /\ [project EXCEPT !.sources[i].active = rep.id].profiles = project.profiles
        /\ [project EXCEPT !.sources[i].active = rep.id].active = project.active
    BY DEF TimelineProject
  <1> QED
    BY <1>1, <1>2, <1>4, <1>5, <1>6, <1>7

(* What a valid source answers for a stream does not depend on which         *)
(* representation is active, as far as clips ask.                            *)
LEMMA ActiveDoesNotMatter ==
    ASSUME NEW source \in MediaSource, ValidMediaSource(source),
           NEW rep \in ToSet(source.representations), NEW id
    PROVE  LET other == [source EXCEPT !.active = rep.id]
               before == FindStream(source, id)
               after == FindStream(other, id)
           IN  /\ ValidMediaSource(other)
               /\ after # <<>> <=> before # <<>>
               /\ before # <<>> => Contract(Head(after)) = Contract(Head(before))
  <1> DEFINE other == [source EXCEPT !.active = rep.id]
             before == FindStream(source, id)
             after == FindStream(other, id)
  <1>1. source.representations \in Seq(MediaRepresentation) /\ Distinct(source.representations)
    BY DEF MediaSource, ValidMediaSource, ValidIds
  <1>2. rep \in MediaRepresentation /\ Has(source.representations, rep.id)
    BY <1>1, ToSetOfSeq, FoundIsTheOne
  <1>3. /\ other \in MediaSource /\ other.representations = source.representations
        /\ other.original = source.original /\ other.active = rep.id
    BY <1>2 DEF MediaSource, MediaRepresentation
  <1> HIDE DEF other
  <1>4. StreamsOf(other) = StreamsOf(source)
    BY <1>3 DEF StreamsOf
  <1>5. ValidMediaSource(other)
    BY <1>2, <1>3, <1>4 DEF ValidMediaSource
  <1>6. after # <<>> <=> before # <<>>
    BY <1>3, <1>4, FindStreamFinds
  <1>7. ASSUME before # <<>> PROVE Contract(Head(after)) = Contract(Head(before))
    <2>1. /\ Head(before) \in StreamsOf(source) /\ Head(before).id = id
          /\ Head(after) \in StreamsOf(source) /\ Head(after).id = id
      BY <1>3, <1>4, <1>6, <1>7, FindStreamFinds
    <2> QED
      BY <2>1 DEF ValidMediaSource
  <1> QED
    BY <1>5, <1>6, <1>7 DEF other

(* Activated(project, other): other is the project with another              *)
(* representation active in one of its sources.                              *)
Activated(other) ==
    /\ other.sequences = project.sequences /\ other.bins = project.bins
    /\ other.profiles = project.profiles /\ other.active = project.active
    /\ other.sources \in Seq(MediaSource)
    /\ \E i \in 1 .. Len(project.sources) :
        \E rep \in ToSet(project.sources[i].representations) :
            other.sources = [project.sources EXCEPT
                                ![i] = [project.sources[i] EXCEPT !.active = rep.id]]

(* The sources stay valid, and answer for streams as they did.               *)
LEMMA ActivatedSources ==
    ASSUME project \in TimelineProject, ValidProject(project), NEW other, Activated(other)
    PROVE  /\ ValidIds(other.sources)
           /\ \A source \in ToSet(other.sources) : ValidMediaSource(source)
           /\ \A id : Has(other.sources, id) <=> Has(project.sources, id)
           /\ \A id, stream :
                LET before == FindStream(Found(project.sources, id), stream)
                    after == FindStream(Found(other.sources, id), stream)
                IN  Has(project.sources, id) /\ before # <<>> =>
                        after # <<>> /\ Contract(Head(after)) = Contract(Head(before))
  <1> DEFINE sources == project.sources
             n == Len(sources)
  <1>0. PICK i \in 1 .. n :
            \E rep \in ToSet(sources[i].representations) :
                other.sources = [sources EXCEPT ![i] = [sources[i] EXCEPT !.active = rep.id]]
    BY DEF Activated
  <1>1. PICK rep \in ToSet(sources[i].representations) :
            other.sources = [sources EXCEPT ![i] = [sources[i] EXCEPT !.active = rep.id]]
    BY <1>0
  <1>2. /\ sources \in Seq(MediaSource) /\ DOMAIN sources = 1 .. n /\ n \in Nat
        /\ \A j \in 1 .. n : sources[j] \in MediaSource /\ ValidMediaSource(sources[j])
    <2>1. sources \in Seq(MediaSource)
      BY DEF TimelineProject
    <2> QED
      BY <2>1, LenProperties, ElementOfSeq, ToSetOfSeq DEF ValidProject
  <1>3. Distinct(sources) /\ \A j \in 1 .. n : sources[j].id # 0
    BY <1>2 DEF ValidProject, ValidIds
  <1> DEFINE changed == [sources[i] EXCEPT !.active = rep.id]
  <1>4. changed.id = sources[i].id /\ ValidMediaSource(changed)
    BY <1>2, ActiveDoesNotMatter DEF MediaSource
  <1>5. /\ DOMAIN other.sources = 1 .. n /\ other.sources[i] = changed
        /\ \A j \in (1 .. n) \ {i} : other.sources[j] = sources[j]
    BY <1>1, <1>2
  <1>6. \A j \in 1 .. n : other.sources[j].id = sources[j].id /\ ValidMediaSource(other.sources[j])
    BY <1>2, <1>4, <1>5
  <1>7. ValidIds(other.sources)
    BY <1>2, <1>3, <1>5, <1>6 DEF ValidIds, Distinct
  <1>8. \A source \in ToSet(other.sources) : ValidMediaSource(source)
    BY <1>5, <1>6 DEF ToSet
  <1>9. \A id : Has(other.sources, id) <=> Has(sources, id)
    BY <1>2, <1>5, <1>6 DEF Has
  <1>10. ASSUME NEW id, NEW stream, Has(sources, id), FindStream(Found(sources, id), stream) # <<>>
         PROVE  /\ FindStream(Found(other.sources, id), stream) # <<>>
                /\ Contract(Head(FindStream(Found(other.sources, id), stream)))
                      = Contract(Head(FindStream(Found(sources, id), stream)))
    <2>1. PICK j \in 1 .. n : sources[j].id = id
      BY <1>2, <1>10 DEF Has
    <2>2. Found(sources, id) = sources[j]
      BY <1>2, <1>3, <2>1 DEF Found, Item, Distinct
    <2>3. Found(other.sources, id) = other.sources[j]
      BY <1>3, <1>2, <1>5, <1>6, <2>1 DEF Found, Item, Distinct
    <2>4. CASE j = i
      <3>1. /\ FindStream(sources[i], stream) # <<>>
            /\ Found(other.sources, id) = changed /\ Found(sources, id) = sources[i]
        BY <1>5, <1>10, <2>2, <2>3, <2>4
      <3>2. sources[i] \in MediaSource /\ ValidMediaSource(sources[i])
        BY <1>2
      <3> HIDE DEF sources
      <3>3. /\ FindStream(changed, stream) # <<>>
            /\ Contract(Head(FindStream(changed, stream)))
                  = Contract(Head(FindStream(sources[i], stream)))
        BY <3>1, <3>2, ActiveDoesNotMatter
      <3> HIDE DEF changed
      <3> QED
        BY <3>1, <3>3
    <2>5. CASE j # i
      <3>1. Found(other.sources, id) = Found(sources, id)
        BY <1>5, <2>2, <2>3, <2>5
      <3> QED
        BY <1>10, <3>1
    <2> QED
      BY <2>4, <2>5
  <1> HIDE DEF sources, changed
  <1> QED
    BY <1>7, <1>8, <1>9, <1>10 DEF sources

(* Clips ask a source for no more than the contract of its streams.          *)
LEMMA ActivatedClips ==
    ASSUME project \in TimelineProject, ValidProject(project), NEW other, Activated(other),
           NEW clip, NEW kind, NEW sequence, ValidClip(clip, kind, project, sequence)
    PROVE  ValidClip(clip, kind, other, sequence)
  <1>1. other.sequences = project.sequences
    BY DEF Activated
  <1>2. CASE clip.source.type = "media"
    <2> DEFINE before == FindStream(Found(project.sources, clip.source.id), clip.source.stream)
               after == FindStream(Found(other.sources, clip.source.id), clip.source.stream)
    <2>1. FromMedia(clip, kind, project)
      BY <1>2 DEF ValidClip
    <2>2. /\ Has(project.sources, clip.source.id) /\ before # <<>>
          /\ Head(before).kind = kind /\ InStream(clip.trim, Head(before))
      BY <2>1 DEF FromMedia
    <2>3. Has(other.sources, clip.source.id) /\ after # <<>>
      BY <2>2, ActivatedSources
    <2>4. Contract(Head(after)) = Contract(Head(before))
      BY <2>2, ActivatedSources
    <2> HIDE DEF before, after
    <2>5. /\ Head(after).kind = Head(before).kind /\ Head(after).base = Head(before).base
          /\ Head(after).start = Head(before).start
          /\ Head(after).duration = Head(before).duration
      BY <2>4 DEF Contract
    <2>6. InStream(clip.trim, Head(after))
      BY <2>2, <2>5 DEF InStream
    <2>7. FromMedia(clip, kind, other)
      BY <2>2, <2>3, <2>5, <2>6 DEF FromMedia, after
    <2>8. SourceBase(clip, other) = SourceBase(clip, project)
      BY <1>2, <2>5 DEF SourceBase, before, after
    <2> QED
      BY <1>2, <2>7, <2>8 DEF ValidClip
  <1>3. CASE clip.source.type # "media"
    <2>1. SourceBase(clip, other) = SourceBase(clip, project)
      BY <1>1, <1>3 DEF SourceBase
    <2>2. FromSequence(clip, kind, other) <=> FromSequence(clip, kind, project)
      BY <1>1 DEF FromSequence
    <2> QED
      BY <1>3, <2>1, <2>2 DEF ValidClip
  <1> QED
    BY <1>2, <1>3

(* So the whole project stays valid.                                         *)
LEMMA ActivatedIsValid ==
    ASSUME project \in TimelineProject, ValidProject(project), NEW other, Activated(other)
    PROVE  ValidProject(other)
  <1>1. /\ other.sequences = project.sequences /\ other.bins = project.bins
        /\ other.profiles = project.profiles /\ other.active = project.active
    BY DEF Activated
  <1>2. ASSUME NEW sequence \in ToSet(other.sequences) PROVE ValidSequence(sequence, other)
    <2>1. ValidSequence(sequence, project)
      BY <1>1 DEF ValidProject
    <2>2. ASSUME NEW track \in ToSet(sequence.tracks) PROVE ValidTimelineTrack(track, other, sequence)
      BY <2>1, ActivatedClips DEF ValidSequence, ValidTimelineTrack
    <2> QED
      BY <2>1, <2>2 DEF ValidSequence
  <1>3. ~SequenceGraphHasCycle(other) /\ ~BinGraphHasCycle(other)
    BY <1>1 DEF ValidProject, SequenceGraphHasCycle, BinGraphHasCycle
  <1>4. ASSUME NEW bin \in ToSet(other.bins) PROVE ValidBin(bin, other)
    BY <1>1, ActivatedSources DEF ValidProject, ValidBin
  <1>5. ASSUME NEW profile \in ToSet(other.profiles) PROVE ValidProfile(profile, other)
    <2>1. ValidProfile(profile, project)
      BY <1>1 DEF ValidProject
    <2> QED
      BY <1>1, <2>1 DEF ValidProfile
  <1>6. /\ ValidIds(other.sequences) /\ ValidIds(other.bins) /\ ValidIds(other.profiles)
        /\ other.active # 0 => Has(other.sequences, other.active)
    BY <1>1 DEF ValidProject
  <1> QED
    BY <1>2, <1>3, <1>4, <1>5, <1>6, ActivatedSources DEF ValidProject

(* Whichever representation of a source is made the active one, the project  *)
(* stays valid, whatever is edited before.                                   *)
THEOREM RepresentationsAreInterchangeableCorrect ==
    ASSUME TimelineCallsAssumption PROVE TimelineSpec => []RepresentationsAreInterchangeable
  <1>1. ProjectInv => RepresentationsAreInterchangeable
    <2> SUFFICES ASSUME ProjectInv, bound, NEW i \in DOMAIN project.sources,
                        NEW rep \in ToSet(project.sources[i].representations)
                 PROVE  ValidProject([project EXCEPT !.sources[i].active = rep.id])
      BY DEF RepresentationsAreInterchangeable
    <2> DEFINE other == [project EXCEPT !.sources[i].active = rep.id]
    <2>1. project \in TimelineProject /\ ValidProject(project)
      BY DEF ProjectInv, TimelineTypeOK
    <2>2. Activated(other)
      BY <2>1, ActivatedType, ZenonT(30) DEF Activated
    <2> HIDE DEF other
    <2> QED
      BY <2>1, <2>2, ActivatedIsValid DEF other
  <1> QED
    BY <1>1, Invariant, PTL

-----------------------------------------------------------------------------
(* Comparing products by cancelling factors                                  *)

Row == [1 .. 4 -> Nat \ {0}]
Rows == [source : Row, timeline : Row]
Product(row) == row[1] * row[2] * row[3] * row[4]

(* The greatest common divisor of two numbers exists and divides both.       *)
LEMMA CommonDivisor ==
    ASSUME NEW a \in Nat \ {0}, NEW b \in Nat \ {0}
    PROVE  LET d == GreatestCommonDivisor(a, b)
           IN  /\ d \in Nat \ {0}
               /\ a \div d \in Nat \ {0} /\ a = d * (a \div d)
               /\ b \div d \in Nat \ {0} /\ b = d * (b \div d)
  <1> DEFINE common == {d \in 1 .. a : Divides(d, a) /\ Divides(d, b)}
             d == Max(common)
  <1>1. 1 \in common
    BY DEF Divides
  <1>2. \E x \in common : \A y \in common : x >= y
    <2> DEFINE gaps == {a - x : x \in common}
    <2>1. gaps \in SUBSET Nat /\ gaps # {}
      BY <1>1
    <2>2. PICK g \in gaps : \A m \in gaps : g <= m
      <3> HIDE DEF gaps
      <3> QED
        BY <2>1, LeastNumber
    <2>3. PICK x \in common : g = a - x
      BY <2>2
    <2>4. \A y \in common : a - x <= a - y
      BY <2>2, <2>3
    <2>5. \A y \in common : x >= y
      BY <2>4
    <2> QED
      BY <2>3, <2>5
  <1>3. d \in common
    <2> HIDE DEF common
    <2> QED
      BY <1>2 DEF Max
  <1> HIDE DEF d
  <1>4. d \in Nat \ {0} /\ a % d = 0 /\ b % d = 0
    BY <1>3 DEF Divides
  <1> HIDE DEF common
  <1>5. ASSUME NEW n \in Nat \ {0}, n % d = 0
        PROVE  n \div d \in Nat \ {0} /\ n = d * (n \div d)
    <2>1. n = d * (n \div d) /\ n \div d \in Int
      BY <1>4, <1>5
    <2>2. n \div d > 0
      BY <1>4, <2>1
    <2> QED
      BY <2>1, <2>2
  <1> QED
    BY <1>4, <1>5 DEF GreatestCommonDivisor, d, common

(* A factor taken from a row is a factor of its product.                     *)
LEMMA FactorOfProduct ==
    ASSUME NEW row \in Row, NEW i \in 1 .. 4, NEW d \in Nat \ {0}, NEW q \in Nat \ {0},
           row[i] = d * q
    PROVE  /\ [row EXCEPT ![i] = q] \in Row
           /\ Product(row) = d * Product([row EXCEPT ![i] = q])
  <1> DEFINE other == [row EXCEPT ![i] = q]
  <1>1. other \in Row /\ other[i] = q /\ \A j \in (1 .. 4) \ {i} : other[j] = row[j]
    BY DEF Row
  <1> HIDE DEF other
  <1>2. \A j \in 1 .. 4 : row[j] \in Nat /\ other[j] \in Nat
    BY <1>1 DEF Row
  <1>3. Product(row) = d * Product(other)
    <2>1. CASE i = 1
      BY <1>1, <1>2, <2>1 DEF Product
    <2>2. CASE i = 2
      BY <1>1, <1>2, <2>2 DEF Product
    <2>3. CASE i = 3
      BY <1>1, <1>2, <2>3 DEF Product
    <2>4. CASE i = 4
      BY <1>1, <1>2, <2>4 DEF Product
    <2> QED
      BY <2>1, <2>2, <2>3, <2>4
  <1> QED
    BY <1>1, <1>3 DEF other

LEMMA ProductType == ASSUME NEW row \in Row PROVE Product(row) \in Nat \ {0}
  <1>1. \A a, b \in Nat \ {0} : a * b \in Nat \ {0}
    OBVIOUS
  <1>2. \A j \in 1 .. 4 : row[j] \in Nat \ {0}
    BY DEF Row
  <1>3. row[1] * row[2] \in Nat \ {0}
    BY <1>1, <1>2
  <1>4. (row[1] * row[2]) * row[3] \in Nat \ {0}
    BY <1>1, <1>2, <1>3
  <1> QED
    BY <1>1, <1>2, <1>4 DEF Product

(* Both products shrink by the same factor.                                  *)
SameRatio(rows, other) ==
    /\ other \in Rows
    /\ \E d \in Nat \ {0} : /\ Product(rows.source) = d * Product(other.source)
                            /\ Product(rows.timeline) = d * Product(other.timeline)

(* What cancelling takes from the product of one row, it takes from the      *)
(* other.                                                                    *)
LEMMA CancelKeepsRatio ==
    ASSUME NEW rows \in Rows, NEW i \in 1 .. 4, NEW j \in 1 .. 4
    PROVE  SameRatio(rows, Cancel(rows, i, j))
  <1> DEFINE d == GreatestCommonDivisor(rows.source[i], rows.timeline[j])
             a == rows.source[i] \div d
             b == rows.timeline[j] \div d
  <1>1. /\ rows.source \in Row /\ rows.timeline \in Row
        /\ rows.source[i] \in Nat \ {0} /\ rows.timeline[j] \in Nat \ {0}
    BY DEF Rows, Row
  <1>2. /\ d \in Nat \ {0} /\ a \in Nat \ {0} /\ b \in Nat \ {0}
        /\ rows.source[i] = d * a /\ rows.timeline[j] = d * b
    BY <1>1, CommonDivisor
  <1>3. Cancel(rows, i, j) = [source |-> [rows.source EXCEPT ![i] = a],
                              timeline |-> [rows.timeline EXCEPT ![j] = b]]
    <2> HIDE DEF d
    <2>1. Cancel(rows, i, j) = [rows EXCEPT !.source[i] = @ \div d, !.timeline[j] = @ \div d]
      BY DEF Cancel, d
    <2>2. rows = [source |-> rows.source, timeline |-> rows.timeline]
      BY DEF Rows
    <2> QED
      BY <2>1, <2>2
  <1> HIDE DEF d, a, b
  <1>4. /\ [rows.source EXCEPT ![i] = a] \in Row
        /\ Product(rows.source) = d * Product([rows.source EXCEPT ![i] = a])
    <2> DEFINE row == rows.source
    <2>1. row \in Row /\ row[i] = d * a
      BY <1>1, <1>2
    <2> HIDE DEF row
    <2>2. [row EXCEPT ![i] = a] \in Row /\ Product(row) = d * Product([row EXCEPT ![i] = a])
      BY <1>2, <2>1, FactorOfProduct
    <2> QED
      BY <2>2 DEF row
  <1>5. /\ [rows.timeline EXCEPT ![j] = b] \in Row
        /\ Product(rows.timeline) = d * Product([rows.timeline EXCEPT ![j] = b])
    <2> DEFINE row == rows.timeline
    <2>1. row \in Row /\ row[j] = d * b
      BY <1>1, <1>2
    <2> HIDE DEF row
    <2>2. [row EXCEPT ![j] = b] \in Row /\ Product(row) = d * Product([row EXCEPT ![j] = b])
      BY <1>2, <2>1, FactorOfProduct, ZenonT(30)
    <2> QED
      BY <2>2 DEF row
  <1> QED
    BY <1>2, <1>3, <1>4, <1>5 DEF Rows, SameRatio

(* The rows after each of the first m pairs.                                 *)
IsRun(rows, m, after) ==
    after = [n \in 0 .. m |-> IF n = 0 THEN rows
                              ELSE Cancel(after[n-1], (n + 3) \div 4, ((n - 1) % 4) + 1)]

(* The rows are defined for any number of pairs.                             *)
LEMMA RunExists == ASSUME NEW rows, NEW m \in Nat PROVE \E after : IsRun(rows, m, after)
  <1> DEFINE missing == {n \in Nat : ~\E after : IsRun(rows, n, after)}
  <1>1. SUFFICES ASSUME missing # {} PROVE FALSE
    OBVIOUS
  <1>2. PICK n \in missing : \A other \in missing : n <= other
    <2>1. missing \in SUBSET Nat
      OBVIOUS
    <2> HIDE DEF missing
    <2> QED
      BY <1>1, <2>1, LeastNumber
  <1>3. CASE n = 0
    <2> DEFINE first == [k \in 0 .. n |-> rows]
    <2>1. \A k \in 0 .. n : k = 0
      BY <1>3
    <2>2. first = [k \in 0 .. n |-> IF k = 0 THEN rows
                               ELSE Cancel(first[k-1], (k + 3) \div 4, ((k - 1) % 4) + 1)]
      BY <2>1
    <2> QED
      BY <2>2 DEF IsRun
  <1>4. CASE n # 0
    <2>1. n \in Nat /\ n - 1 \in Nat /\ n - 1 \notin missing
      BY <1>2, <1>4
    <2>2. PICK before : IsRun(rows, n - 1, before)
      BY <2>1
    <2> DEFINE next(f, k) == IF k = 0 THEN rows
                             ELSE Cancel(f[k-1], (k + 3) \div 4, ((k - 1) % 4) + 1)
               after == [k \in 0 .. n |-> next(before, k)]
    <2>3. \A k \in 0 .. n - 1 : before[k] = next(before, k)
      BY <2>1, <2>2 DEF IsRun
    <2>4. \A k \in 0 .. n - 1 : after[k] = before[k]
      BY <2>1, <2>3
    <2>5. ASSUME NEW k \in 0 .. n PROVE next(before, k) = next(after, k)
      <3>1. k # 0 => k - 1 \in 0 .. n - 1
        BY <2>1
      <3> HIDE DEF after
      <3> QED
        BY <2>4, <3>1
    <2>6. after = [k \in 0 .. n |-> next(after, k)]
      <3> HIDE DEF next
      <3> QED
        BY <2>5
    <2> QED
      BY <2>6 DEF IsRun
  <1> QED
    BY <1>3, <1>4

LEMMA RatioIsTransitive ==
    ASSUME NEW rows, NEW next, NEW other, SameRatio(rows, next), SameRatio(next, other)
    PROVE  SameRatio(rows, other)
  <1>1. other \in Rows /\ other.source \in Row /\ other.timeline \in Row
    BY DEF SameRatio, Rows
  <1>2. PICK d \in Nat \ {0} : /\ Product(rows.source) = d * Product(next.source)
                               /\ Product(rows.timeline) = d * Product(next.timeline)
    BY DEF SameRatio
  <1>3. PICK e \in Nat \ {0} : /\ Product(next.source) = e * Product(other.source)
                               /\ Product(next.timeline) = e * Product(other.timeline)
    BY DEF SameRatio
  <1>4. Product(other.source) \in Nat /\ Product(other.timeline) \in Nat
    BY <1>1, ProductType
  <1>5. d * e \in Nat \ {0}
    BY Z3
  <1>6. \A p \in Nat : d * (e * p) = (d * e) * p
    BY Z3
  <1> QED
    BY <1>1, <1>2, <1>3, <1>4, <1>5, <1>6, ZenonT(30) DEF SameRatio

(* Cancelling all pairs shrinks both products by the same factor.            *)
LEMMA CancelledKeepsRatio ==
    ASSUME NEW rows \in Rows PROVE SameRatio(rows, Cancelled(rows))
  <1> DEFINE after == CHOOSE after : IsRun(rows, 16, after)
  <1>1. IsRun(rows, 16, after) /\ Cancelled(rows) = after[16]
    <2>1. IsRun(rows, 16, after)
      BY RunExists
    <2>2. Cancelled(rows) = after[16]
      BY Zenon DEF Cancelled, IsRun
    <2> QED
      BY <2>1, <2>2
  <1> HIDE DEF after
  <1>2. after[0] = rows
    BY <1>1 DEF IsRun
  <1>3. \A n \in 1 .. 16 : after[n] = Cancel(after[n-1], (n + 3) \div 4, ((n - 1) % 4) + 1)
    BY <1>1 DEF IsRun
  <1>4. \A n \in 1 .. 16 : (n + 3) \div 4 \in 1 .. 4 /\ ((n - 1) % 4) + 1 \in 1 .. 4
    OBVIOUS
  <1> DEFINE broken == {n \in 0 .. 16 : ~SameRatio(rows, after[n])}
  <1>5. broken = {}
    <2> SUFFICES ASSUME broken # {} PROVE FALSE
      OBVIOUS
    <2>1. PICK n \in broken : \A other \in broken : n <= other
      <3>1. broken \in SUBSET Nat
        OBVIOUS
      <3> HIDE DEF broken
      <3> QED
        BY <3>1, LeastNumber
    <2>2. CASE n = 0
      <3>1. Product(rows.source) = 1 * Product(rows.source)
        BY ProductType DEF Rows
      <3>2. Product(rows.timeline) = 1 * Product(rows.timeline)
        BY ProductType DEF Rows
      <3> QED
        BY <1>2, <2>1, <2>2, <3>1, <3>2 DEF SameRatio
    <2>3. CASE n # 0
      <3>1. n \in 1 .. 16 /\ n - 1 \in 0 .. 16 /\ n - 1 \notin broken
        BY <2>1, <2>3
      <3>2. SameRatio(rows, after[n-1])
        BY <3>1
      <3>3. SameRatio(after[n-1], after[n])
        <4>1. after[n-1] \in Rows
          BY <3>2 DEF SameRatio
        <4>2. PICK i \in 1 .. 4, j \in 1 .. 4 : after[n] = Cancel(after[n-1], i, j)
          BY <1>3, <1>4, <3>1
        <4> QED
          BY <4>1, <4>2, CancelKeepsRatio
      <3> QED
        BY <2>1, <3>2, <3>3, RatioIsTransitive
    <2> QED
      BY <2>2, <2>3
  <1> QED
    BY <1>1, <1>5

(* When nothing is left but ones, the products are equal.                    *)
LEMMA MatchIsExact ==
    ASSUME NEW duration \in Int, NEW base \in TimeBase, NEW sourceDuration \in Int,
           NEW sourceBase \in TimeBase, NEW rate \in Rational,
           ClipDurationsMatch(duration, base, sourceDuration, sourceBase, rate)
    PROVE  sourceDuration * sourceBase.num * base.den * rate.den
               = duration * base.num * sourceBase.den * Magnitude(rate.num)
  <1> DEFINE rows == Factors(duration, base, sourceDuration, sourceBase, rate)
  <1>1. /\ duration \in Nat \ {0} /\ sourceDuration \in Nat \ {0}
        /\ base.num \in Nat \ {0} /\ base.den \in Nat \ {0}
        /\ sourceBase.num \in Nat \ {0} /\ sourceBase.den \in Nat \ {0}
        /\ rate.den \in Nat \ {0} /\ Magnitude(rate.num) \in Nat \ {0}
    BY DEF ClipDurationsMatch, ValidTimeBase, ValidRational, TimeBase, Rational, Magnitude
  <1>2. \A i \in 1 .. 4 : Cancelled(rows).source[i] = 1 /\ Cancelled(rows).timeline[i] = 1
    BY DEF ClipDurationsMatch
  <1>3. \A a, b, c, d \in Nat \ {0} : <<a, b, c, d>> \in Row
    BY DEF Row
  <1>4. /\ rows.source = <<sourceDuration, sourceBase.num, base.den, rate.den>>
        /\ rows.timeline = <<duration, base.num, sourceBase.den, Magnitude(rate.num)>>
        /\ rows \in Rows
    BY <1>1, <1>3 DEF Factors, Rows
  <1> HIDE DEF rows
  <1>5. SameRatio(rows, Cancelled(rows))
    BY <1>4, CancelledKeepsRatio
  <1>6. Product(Cancelled(rows).source) = 1 /\ Product(Cancelled(rows).timeline) = 1
    BY <1>2 DEF Product
  <1>7. Product(rows.source) = Product(rows.timeline)
    BY <1>5, <1>6 DEF SameRatio
  <1> QED
    BY <1>4, <1>7 DEF Product

(* What a valid clip plays has a time base.                                  *)
LEMMA SourceBaseType ==
    ASSUME project \in TimelineProject, ValidProject(project), NEW sequence \in ToSet(project.sequences),
           NEW track \in ToSet(sequence.tracks), NEW clip \in ToSet(track.clips)
    PROVE  SourceBase(clip, project) \in TimeBase
  <1>1. clip \in TimelineClip /\ ValidClip(clip, track.kind, project, sequence)
    BY PartsOfSequence
  <1>2. clip.source \in ClipSource
    BY <1>1 DEF TimelineClip
  <1>3. CASE clip.source.type = "media"
    <2> DEFINE source == Found(project.sources, clip.source.id)
               streams == FindStream(source, clip.source.stream)
    <2>1. Has(project.sources, clip.source.id) /\ streams # <<>>
      BY <1>1, <1>3 DEF ValidClip, FromMedia
    <2>2. project.sources \in Seq(MediaSource)
      BY DEF TimelineProject
    <2>3. source \in MediaSource
      BY <2>1, <2>2, PlaceOfItem
    <2>4. Head(streams) \in StreamsOf(source)
      <3> HIDE DEF source
      <3> QED
        BY <2>1, <2>3, FindStreamFinds
    <2>5. \A stream \in StreamsOf(source) : stream \in MediaStream
      <3> HIDE DEF source
      <3>1. source.representations \in Seq(MediaRepresentation)
        BY <2>3 DEF MediaSource
      <3>2. ASSUME NEW rep \in ToSet(source.representations), NEW stream \in ToSet(rep.streams)
            PROVE  stream \in MediaStream
        <4>1. rep \in MediaRepresentation
          BY <3>1, ToSetOfSeq
        <4>2. rep.streams \in Seq(MediaStream)
          BY <4>1 DEF MediaRepresentation
        <4> QED
          BY <4>2, ToSetOfSeq
      <3> QED
        BY <3>2 DEF StreamsOf
    <2>6. Head(streams).base \in TimeBase
      BY <2>4, <2>5 DEF MediaStream
    <2> QED
      BY <1>3, <2>6 DEF SourceBase
  <1>4. CASE clip.source.type = "sequence"
    <2>1. Has(project.sequences, clip.source.id)
      BY <1>1, <1>4 DEF ValidClip, FromSequence
    <2>2. Found(project.sequences, clip.source.id) \in TimelineSequence
      BY <2>1, SequencesType
    <2> QED
      BY <1>4, <2>2 DEF SourceBase, TimelineSequence
  <1>5. CASE clip.source.type # "media" /\ clip.source.type # "sequence"
    <2>1. clip.source.base \in TimeBase
      BY <1>2, <1>5 DEF ClipSource
    <2> QED
      BY <1>5, <2>1 DEF SourceBase
  <1> QED
    BY <1>3, <1>4, <1>5

(* What a clip plays at a constant rate takes exactly its time, whatever is  *)
(* edited: no rounding accumulates along a track.                            *)
THEOREM ClipsPlayExactlyCorrect == ASSUME TimelineCallsAssumption PROVE TimelineSpec => []ClipsPlayExactly
  <1>1. ProjectInv => ClipsPlayExactly
    <2> SUFFICES ASSUME ProjectInv, bound, NEW sequence \in ToSet(project.sequences),
                        NEW clip \in AllClips(sequence), clip.timeMap = <<>>, ~clip.loops
                 PROVE  LET base == SourceBase(clip, project)
                        IN  clip.trim.duration * base.num * sequence.base.den * clip.rate.den
                              = clip.range.duration * sequence.base.num * base.den
                                  * Magnitude(clip.rate.num)
      BY DEF ClipsPlayExactly
    <2>1. project \in TimelineProject /\ ValidProject(project)
      BY DEF ProjectInv, TimelineTypeOK
    <2>2. PICK track \in ToSet(sequence.tracks) : clip \in ToSet(track.clips)
      BY DEF AllClips
    <2>3. clip \in TimelineClip /\ ValidClip(clip, track.kind, project, sequence)
      BY <2>1, <2>2, PartsOfSequence
    <2>4. ClipDurationsMatch(clip.range.duration, sequence.base, clip.trim.duration,
                             SourceBase(clip, project), clip.rate)
      BY <2>3 DEF ValidClip
    <2>5. sequence.base \in TimeBase /\ SourceBase(clip, project) \in TimeBase
      BY <2>1, <2>2, PartsOfSequence, SourceBaseType DEF TimelineSequence
    <2>6. /\ clip.range.duration \in Int /\ clip.trim.duration \in Int /\ clip.rate \in Rational
      BY <2>3 DEF TimelineClip, TickRange
    <2> QED
      BY <2>4, <2>5, <2>6, MatchIsExact
  <1> QED
    BY <1>1, Invariant, PTL
===============================================================================
