------------------------- MODULE ClientAnswersProofs -------------------------
(***************************************************************************)
(* How the answers of VClient's getters fit together, proved of every      *)
(* frame that is as sound as those the client holds (FrameSound, which the *)
(* runs check of every state): of any number of subjects, segments,        *)
(* markers, devices, samples and cameras, with any names and poses.        *)
(***************************************************************************)
EXTENDS ClientAnswers, WellFoundedInduction, NaturalsInduction, TLAPS

------------------------------------------------------------------------------
(* What an answer is, and how the first of a sequence is found              *)

\* An answer is a success with its value.
LEMMA Answers == \A v : Succeeds(Answer(v)) /\ Answer(v).v = v
  BY DEF Succeeds, Answer

\* A getter has the latest frame, or says why it has none.
LEMMA FrameGotten ==
  ASSUME NEW c
  PROVE  /\ Succeeds(InitGet(c)) => InitGet(c) = Answer(c.frame) /\ InitGet(c).v = c.frame
         /\ ~Succeeds(InitGet(c)) => InitGet(c).result \in {"NotConnected", "NoFrame"}
  BY DEF InitGet, Succeeds, Answer, Refuse

\* The order of the naturals is well founded.
LEMMA LessWellFounded == IsWellFoundedOn({p \in Nat \X Nat : p[1] < p[2]}, Nat)
  BY NatLessThanWellFounded, Zenon DEF OpToRel

\* A non-empty set of naturals has its minimum.
LEMMA LeastOf ==
  ASSUME NEW T \in SUBSET Nat, T # {}
  PROVE  Min(T) \in T /\ \A m \in T : Min(T) <= m
<1> DEFINE R == {p \in Nat \X Nat : p[1] < p[2]}
<1>1. IsWellFoundedOn(R, Nat)
  BY LessWellFounded
<1>2. PICK x \in T : \A y \in T : ~(<<y, x>> \in R)
  <2> HIDE DEF R
  <2> QED
    BY <1>1, WFMin, Zenon
<1>3. \A m \in T : ~(m < x)
  BY <1>2
<1>4. x \in T /\ \A m \in T : x <= m
  BY <1>3
<1> QED
  BY <1>4, Zenon DEF Min

\* The first element whose field has a value: there is one if any has, and all before
\* have others.
LEMMA FirstFound ==
  ASSUME NEW seq, NEW field, NEW value, NEW otherwise, otherwise # "Success"
  PROVE  LET a == FirstWith(seq, field, value, otherwise)
         IN  /\ a.result = IF \E k \in 1..Len(seq) : seq[k][field] = value
                           THEN "Success" ELSE otherwise
             /\ Succeeds(a) <=> \E k \in 1..Len(seq) : seq[k][field] = value
             /\ Succeeds(a) => \E i \in 1..Len(seq) :
                                  /\ a = Answer(seq[i]) /\ a.v = seq[i] /\ seq[i][field] = value
                                  /\ \A k \in 1..Len(seq) : seq[k][field] = value => i <= k
<1> DEFINE I == {k \in 1..Len(seq) : seq[k][field] = value}
           a == FirstWith(seq, field, value, otherwise)
<1>1. I \in SUBSET Nat /\ 0 \notin I
  <2>1. I \subseteq 1..Len(seq)
    OBVIOUS
  <2> HIDE DEF I
  <2> QED
    BY <2>1
<1>2. SelectInSeq(seq, LAMBDA x : x[field] = value) = IF I = {} THEN 0 ELSE Min(I)
  BY DEF SelectInSeq
<1>3. I # {} => Min(I) \in I /\ Min(I) # 0 /\ \A k \in I : Min(I) <= k
  <2> HIDE DEF I
  <2> QED
    BY <1>1, LeastOf
<1>4. a = IF I = {} THEN Refuse(otherwise) ELSE Answer(seq[Min(I)])
  BY <1>2, <1>3 DEF FirstWith, FirstWhere
<1>5. I # {} <=> \E k \in 1..Len(seq) : seq[k][field] = value
  OBVIOUS
<1>6. /\ a.result = IF I # {} THEN "Success" ELSE otherwise
      /\ I # {} => a = Answer(seq[Min(I)]) /\ a.v = seq[Min(I)]
  BY <1>4 DEF Refuse, Answer
<1>7. I # {} => /\ Min(I) \in 1..Len(seq) /\ seq[Min(I)][field] = value
                /\ \A k \in 1..Len(seq) : seq[k][field] = value => Min(I) <= k
  BY <1>3
<1> HIDE DEF I, a
<1>8. Succeeds(a) <=> I # {}
  BY <1>6 DEF Succeeds
<1>9. Succeeds(a) => \E i \in 1..Len(seq) :
                       /\ a = Answer(seq[i]) /\ a.v = seq[i] /\ seq[i][field] = value
                       /\ \A k \in 1..Len(seq) : seq[k][field] = value => i <= k
  BY <1>6, <1>7, <1>8
<1> QED
  BY <1>5, <1>6, <1>8, <1>9 DEF a

\* What is found is an element with the value sought.
LEMMA OneFound ==
  ASSUME NEW seq, NEW field, NEW value, NEW otherwise, otherwise # "Success",
         Succeeds(FirstWith(seq, field, value, otherwise))
  PROVE  \E n \in 1..Len(seq) :
           FirstWith(seq, field, value, otherwise).v = seq[n] /\ seq[n][field] = value
  BY FirstFound

\* A sequence has a length.
LEMMA OrderedLen == ASSUME NEW seq, Ordered(seq) PROVE Len(seq) \in Nat
  BY DEF Ordered

------------------------------------------------------------------------------
(* From names to what they name                                             *)

\* A subject by its name.
LEMMA SubjectNamed ==
  ASSUME NEW c, NEW s
  PROVE  /\ Succeeds(GetSubjectInfo(c, s)) <=>
              /\ Succeeds(InitGet(c)) /\ s # ""
              /\ \E i \in 1..Len(c.frame.SubjectInfo) : c.frame.SubjectInfo[i].Name = s
         /\ Succeeds(GetSubjectInfo(c, s)) =>
              \E i \in 1..Len(c.frame.SubjectInfo) :
                /\ c.frame.SubjectInfo[i].Name = s
                /\ GetSubjectInfo(c, s) = Answer(c.frame.SubjectInfo[i])
<1> DEFINE subjects == c.frame.SubjectInfo
           a == FirstWith(subjects, "Name", s, "InvalidSubjectName")
<1>1. Succeeds(InitGet(c)) /\ s # "" => GetSubjectInfo(c, s) = a
  BY FrameGotten DEF GetSubjectInfo, Then, Succeeds
<1>2. ~(Succeeds(InitGet(c)) /\ s # "") => ~Succeeds(GetSubjectInfo(c, s))
  BY FrameGotten DEF GetSubjectInfo, Then, Succeeds, Refuse
<1>3. /\ Succeeds(a) <=> \E i \in 1..Len(subjects) : subjects[i]["Name"] = s
      /\ Succeeds(a) => \E i \in 1..Len(subjects) :
                           a = Answer(subjects[i]) /\ subjects[i]["Name"] = s
  BY FirstFound
<1> QED
  BY <1>1, <1>2, <1>3

\* A segment of a subject by its name.
LEMMA SegmentNamed ==
  ASSUME NEW info, NEW g
  PROVE  /\ Succeeds(GetSegmentID(info, g)) <=>
              g # "" /\ \E j \in 1..Len(info.Segments) : info.Segments[j].Name = g
         /\ Succeeds(GetSegmentID(info, g)) =>
              \E j \in 1..Len(info.Segments) :
                /\ info.Segments[j].Name = g
                /\ GetSegmentID(info, g) = Answer(info.Segments[j].SegmentID)
<1> DEFINE a == FirstWith(info.Segments, "Name", g, "InvalidSegmentName")
<1>1. g # "" => GetSegmentID(info, g) = IF Succeeds(a) THEN Answer(a.v.SegmentID) ELSE a
  BY DEF GetSegmentID, Then, Succeeds
<1>2. g = "" => ~Succeeds(GetSegmentID(info, g))
  BY DEF GetSegmentID, Succeeds, Refuse
<1>3. /\ Succeeds(a) <=> \E i \in 1..Len(info.Segments) : info.Segments[i]["Name"] = g
      /\ Succeeds(a) => \E i \in 1..Len(info.Segments) :
                           a.v = info.Segments[i] /\ info.Segments[i]["Name"] = g
  BY FirstFound
<1>4. \A v : Succeeds(Answer(v))
  BY DEF Succeeds, Answer
<1> QED
  BY <1>1, <1>2, <1>3, <1>4

\* The subject and the segment of names.
LEMMA BothNamed ==
  ASSUME NEW c, NEW s, NEW g
  PROVE  /\ Succeeds(GetSubjectAndSegmentID(c, s, g)) <=>
              Succeeds(GetSubjectInfo(c, s)) /\ Succeeds(GetSegmentID(GetSubjectInfo(c, s).v, g))
         /\ Succeeds(GetSubjectAndSegmentID(c, s, g)) =>
              \E i \in 1..Len(c.frame.SubjectInfo) :
              \E j \in 1..Len(c.frame.SubjectInfo[i].Segments) :
                /\ c.frame.SubjectInfo[i].Name = s /\ c.frame.SubjectInfo[i].Segments[j].Name = g
                /\ GetSubjectInfo(c, s) = Answer(c.frame.SubjectInfo[i])
                /\ GetSubjectAndSegmentID(c, s, g) =
                     Answer([subject |-> c.frame.SubjectInfo[i].SubjectID,
                             segment |-> c.frame.SubjectInfo[i].Segments[j].SegmentID])
<1> DEFINE subjects == c.frame.SubjectInfo
           info == GetSubjectInfo(c, s)
           id == GetSegmentID(info.v, g)
<1>1. GetSubjectAndSegmentID(c, s, g) =
        IF Succeeds(info)
        THEN IF Succeeds(id) THEN Answer([subject |-> info.v.SubjectID, segment |-> id.v]) ELSE id
        ELSE info
  BY DEF GetSubjectAndSegmentID, Then, Succeeds
<1>2. \A v : Succeeds(Answer(v)) /\ Answer(v).v = v
  BY DEF Succeeds, Answer
<1>3. Succeeds(GetSubjectAndSegmentID(c, s, g)) <=> Succeeds(info) /\ Succeeds(id)
  BY <1>1, <1>2
<1>4. ASSUME Succeeds(info), Succeeds(id)
      PROVE  \E i \in 1..Len(subjects) : \E j \in 1..Len(subjects[i].Segments) :
                /\ subjects[i].Name = s /\ subjects[i].Segments[j].Name = g
                /\ info = Answer(subjects[i])
                /\ GetSubjectAndSegmentID(c, s, g) =
                     Answer([subject |-> subjects[i].SubjectID,
                             segment |-> subjects[i].Segments[j].SegmentID])
  <2>1. PICK i \in 1..Len(subjects) : subjects[i].Name = s /\ info = Answer(subjects[i])
    BY <1>4, SubjectNamed
  <2>2. info.v = subjects[i]
    BY <1>2, <2>1
  <2>3. PICK j \in 1..Len(info.v.Segments) :
          info.v.Segments[j].Name = g /\ id = Answer(info.v.Segments[j].SegmentID)
    BY <1>4, SegmentNamed
  <2>4. id.v = subjects[i].Segments[j].SegmentID
    BY <1>2, <2>2, <2>3
  <2> QED
    BY <1>1, <1>4, <2>1, <2>2, <2>3, <2>4
<1> QED
  BY <1>3, <1>4

\* The i-th subject has the one name and its j-th segment the other, and the client finds them.
Named(c, subject, segment, i, j) ==
  LET info == c.frame.SubjectInfo[i]
  IN  /\ i \in 1..Len(c.frame.SubjectInfo) /\ j \in 1..Len(info.Segments)
      /\ info.Segments[j].Name = segment
      /\ GetSubjectInfo(c, subject) = Answer(info)
      /\ GetSubjectAndSegmentID(c, subject, segment) =
           Answer([subject |-> info.SubjectID, segment |-> info.Segments[j].SegmentID])

\* The identifiers of names are those of a subject and of one of its segments.
LEMMA IDsNamed ==
  ASSUME NEW c, NEW s, NEW g, Succeeds(GetSubjectAndSegmentID(c, s, g))
  PROVE  \E i, j : Named(c, s, g, i, j)
  BY BothNamed DEF Named

\* The parent the client names is the segment of the same subject that the topology names.
LEMMA ParentNamed ==
  ASSUME NEW c, NEW s, NEW g, Identified(c.frame), Succeeds(GetSegmentParentName(c, s, g))
  PROVE  \E i \in 1..Len(c.frame.SubjectInfo) :
         \E j \in 1..Len(c.frame.SubjectInfo[i].Segments) :
         \E k \in 1..Len(c.frame.SubjectInfo[i].Segments) :
           LET info == c.frame.SubjectInfo[i]
           IN  /\ GetSubjectInfo(c, s) = Answer(info)
               /\ GetSubjectAndSegmentID(c, s, g)
                    = Answer([subject |-> info.SubjectID, segment |-> info.Segments[j].SegmentID])
               /\ info.Segments[k].SegmentID = info.Segments[j].ParentID
               /\ GetSegmentParentName(c, s, g) = Answer(info.Segments[k].Name)
<1> DEFINE subjects == c.frame.SubjectInfo
           ids == GetSubjectAndSegmentID(c, s, g)
           again == SubjectWithID(c.frame, "SubjectInfo", ids.v.subject, "Unknown")
           own == FirstWith(again.v.Segments, "SegmentID", ids.v.segment, "Unknown")
           over == FirstWith(again.v.Segments, "SegmentID", own.v.ParentID, "Unknown")
<1>1. GetSegmentParentName(c, s, g) =
        IF ~Succeeds(ids) THEN ids
        ELSE IF ~Succeeds(again) THEN again
        ELSE IF ~Succeeds(own) THEN own
        ELSE IF ~Succeeds(over) THEN over
        ELSE Answer(over.v.Name)
  BY DEF GetSegmentParentName, OfSegment, Then, Succeeds
<1>2. Succeeds(ids) /\ Succeeds(again) /\ Succeeds(own) /\ Succeeds(over)
  BY <1>1
<1>3. PICK i, j : Named(c, s, g, i, j)
  BY <1>2, IDsNamed
<1>4. /\ i \in 1..Len(subjects) /\ j \in 1..Len(subjects[i].Segments)
      /\ GetSubjectInfo(c, s) = Answer(subjects[i])
      /\ ids = Answer([subject |-> subjects[i].SubjectID,
                       segment |-> subjects[i].Segments[j].SegmentID])
  BY <1>3 DEF Named
<1>5. ids.v.subject = subjects[i].SubjectID /\ ids.v.segment = subjects[i].Segments[j].SegmentID
  BY <1>4, Answers
<1>6. again.v = subjects[i]
  <2>1. \E n \in 1..Len(subjects) :
          again.v = subjects[n] /\ subjects[n]["SubjectID"] = ids.v.subject
    BY <1>2, OneFound DEF SubjectWithID
  <2> QED
    BY <1>4, <1>5, <2>1 DEF Identified, OnceEach
<1>7. own.v = subjects[i].Segments[j]
  <2>1. \E n \in 1..Len(subjects[i].Segments) :
          own.v = subjects[i].Segments[n]
            /\ subjects[i].Segments[n]["SegmentID"] = ids.v.segment
    BY <1>2, <1>6, OneFound
  <2>2. OnceEach(subjects[i].Segments, "SegmentID")
    BY <1>4 DEF Identified, Listed
  <2> QED
    BY <1>4, <1>5, <2>1, <2>2 DEF OnceEach
<1>8. PICK k \in 1..Len(subjects[i].Segments) :
        over.v = subjects[i].Segments[k]
          /\ subjects[i].Segments[k]["SegmentID"] = subjects[i].Segments[j].ParentID
  <2>1. \E n \in 1..Len(again.v.Segments) :
          over.v = again.v.Segments[n] /\ again.v.Segments[n]["SegmentID"] = own.v.ParentID
    <3> HIDE DEF again, own
    <3> QED
      BY <1>2, OneFound
  <2> QED
    BY <1>6, <1>7, <2>1
<1>9. GetSegmentParentName(c, s, g) = Answer(subjects[i].Segments[k].Name)
  BY <1>1, <1>2, <1>8
<1> QED
  BY <1>4, <1>8, <1>9

\* The names of subjects enumerated: those of the frame, each of them found again.
LEMMA SubjectNames ==
  ASSUME NEW c, Succeeds(InitGet(c)), Nameable(c.frame)
  PROVE  LET subjects == c.frame.SubjectInfo IN
         /\ OrNone(GetSubjectCount(c)) = Len(subjects) /\ Len(subjects) \in Nat
         /\ \A i \in 0..(Len(subjects) - 1) :
              GetSubjectName(c, i) = Answer(subjects[i + 1].Name)
         /\ \A s \in SubjectsOf(c) :
              /\ s # ""
              /\ \E k \in 1..Len(subjects) : GetSubjectInfo(c, s) = Answer(subjects[k])
<1> DEFINE subjects == c.frame.SubjectInfo
<1>1. InitGet(c) = Answer(c.frame)
  BY FrameGotten
<1>2. OrNone(GetSubjectCount(c)) = Len(subjects)
  BY <1>1 DEF OrNone, GetSubjectCount, Then, Answer
<1>3. Len(subjects) \in Nat
  BY OrderedLen DEF Nameable
<1>4. ASSUME NEW i \in 0..(Len(subjects) - 1)
      PROVE  GetSubjectName(c, i) = Answer(subjects[i + 1].Name)
  <2>1. Indexed(subjects, i) = Answer(subjects[i + 1])
    BY <1>3 DEF Indexed
  <2> QED
    BY <1>1, <2>1, Answers DEF GetSubjectName, Then, Succeeds
<1>5. ASSUME NEW s \in SubjectsOf(c)
      PROVE  s # "" /\ \E k \in 1..Len(subjects) : GetSubjectInfo(c, s) = Answer(subjects[k])
  <2>1. PICK i \in 0..(Len(subjects) - 1) : s = GetSubjectName(c, i).v
    BY <1>2 DEF SubjectsOf, NamesOf
  <2>2. i + 1 \in 1..Len(subjects)
    BY <1>3
  <2>3. s = subjects[i + 1].Name
    BY <1>4, <2>1, Answers
  <2>4. s # ""
    BY <2>2, <2>3 DEF Nameable, Listed
  <2> QED
    BY <2>2, <2>3, <2>4, SubjectNamed
<1> QED
  BY <1>2, <1>3, <1>4, <1>5

\* The names of a subject's segments enumerated are those of its frame.
LEMMA SegmentNames ==
  ASSUME NEW c, NEW s, NEW info, GetSubjectInfo(c, s) = Answer(info), Ordered(info.Segments)
  PROVE  SegmentsOf(c, s) = {info.Segments[k].Name : k \in 1..Len(info.Segments)}
<1> DEFINE segments == info.Segments
<1>1. OrNone(GetSegmentCount(c, s)) = Len(segments) /\ Len(segments) \in Nat
  BY OrderedLen DEF OrNone, GetSegmentCount, Then, Answer
<1>2. ASSUME NEW i \in 0..(Len(segments) - 1)
      PROVE  GetSegmentName(c, s, i) = Answer(segments[i + 1].Name)
  <2>1. Indexed(segments, i) = Answer(segments[i + 1])
    BY <1>1 DEF Indexed
  <2> QED
    BY <2>1, Answers DEF GetSegmentName, Then, Succeeds
<1>3. SegmentsOf(c, s) = {GetSegmentName(c, s, i).v : i \in 0..(Len(segments) - 1)}
  BY <1>1 DEF SegmentsOf, NamesOf
<1>4. ASSUME NEW k \in 1..Len(segments)
      PROVE  \E i \in 0..(Len(segments) - 1) : segments[k].Name = GetSegmentName(c, s, i).v
  <2>1. k - 1 \in 0..(Len(segments) - 1) /\ (k - 1) + 1 = k
    BY <1>1
  <2> QED
    BY <1>2, <2>1, Answers
<1>5. ASSUME NEW i \in 0..(Len(segments) - 1)
      PROVE  \E k \in 1..Len(segments) : GetSegmentName(c, s, i).v = segments[k].Name
  <2>1. i + 1 \in 1..Len(segments)
    BY <1>1
  <2> QED
    BY <1>2, <2>1, Answers
<1>6. SegmentsOf(c, s) \subseteq {segments[k].Name : k \in 1..Len(segments)}
  BY <1>3, <1>5
<1>7. {segments[k].Name : k \in 1..Len(segments)} \subseteq SegmentsOf(c, s)
  BY <1>3, <1>4
<1> QED
  BY <1>6, <1>7

\* A subject enumerated is one of the frame, whose segments and markers have names.
LEMMA SubjectOf ==
  ASSUME NEW c, Succeeds(InitGet(c)), Nameable(c.frame), NEW s \in SubjectsOf(c)
  PROVE  \E info \in Listed(c.frame.SubjectInfo) :
           /\ GetSubjectInfo(c, s) = Answer(info)
           /\ Ordered(info.Segments) /\ Ordered(info.Markers)
           /\ \A x \in Listed(info.Segments) \cup Listed(info.Markers) : x.Name # ""
<1>1. PICK k \in 1..Len(c.frame.SubjectInfo) : GetSubjectInfo(c, s) = Answer(c.frame.SubjectInfo[k])
  BY SubjectNames
<1>2. c.frame.SubjectInfo[k] \in Listed(c.frame.SubjectInfo)
  BY DEF Listed
<1> QED
  BY <1>1, <1>2 DEF Nameable

\* The names of a subject's markers enumerated are those of its frame.
LEMMA MarkerNames ==
  ASSUME NEW c, NEW s, NEW info, GetSubjectInfo(c, s) = Answer(info), Ordered(info.Markers)
  PROVE  /\ OrNone(GetMarkerCount(c, s)) = Len(info.Markers) /\ Len(info.Markers) \in Nat
         /\ \A i \in 0..(Len(info.Markers) - 1) :
              GetMarkerName(c, s, i) = Answer(info.Markers[i + 1].Name)
<1> DEFINE markers == info.Markers
<1>1. Len(markers) \in Nat
  BY OrderedLen
<1>2. OrNone(GetMarkerCount(c, s)) = Len(markers)
  BY DEF OrNone, GetMarkerCount, Then, Answer
<1>3. ASSUME NEW i \in 0..(Len(markers) - 1)
      PROVE  GetMarkerName(c, s, i) = Answer(markers[i + 1].Name)
  <2>1. Indexed(markers, i) = Answer(markers[i + 1])
    BY <1>1 DEF Indexed
  <2> QED
    BY <2>1, Answers DEF GetMarkerName, Then, Succeeds
<1> QED
  BY <1>1, <1>2, <1>3

\* All its elements have names.
AllNamed(seq) == \A x \in Listed(seq) : x.Name # ""

\* A marker enumerated has an identifier.
LEMMA MarkerNamed ==
  ASSUME NEW c, NEW s, NEW info, GetSubjectInfo(c, s) = Answer(info), Ordered(info.Markers),
         AllNamed(info.Markers), NEW m \in MarkersOf(c, s)
  PROVE  \E k \in 1..Len(info.Markers) : GetMarkerID(info, m) = Answer(info.Markers[k].MarkerID)
<1> DEFINE markers == info.Markers
           found == FirstWith(markers, "Name", m, "InvalidMarkerName")
<1>1. OrNone(GetMarkerCount(c, s)) = Len(markers) /\ Len(markers) \in Nat
  BY MarkerNames
<1>2. PICK i \in 0..(Len(markers) - 1) : m = GetMarkerName(c, s, i).v
  BY <1>1 DEF MarkersOf, NamesOf
<1>3. i + 1 \in 1..Len(markers)
  <2> HIDE DEF markers
  <2> QED
    BY <1>1
<1>4. m = markers[i + 1]["Name"]
  BY <1>2, MarkerNames, Answers
<1>5. m # ""
  BY <1>3, <1>4 DEF Listed, AllNamed
<1>6. Succeeds(found)
  <2>1. \E k \in 1..Len(markers) : markers[k]["Name"] = m
    BY <1>3, <1>4
  <2>2. Succeeds(found) <=> \E k \in 1..Len(markers) : markers[k]["Name"] = m
    BY FirstFound
  <2> QED
    BY <2>1, <2>2
<1>7. \E k \in 1..Len(markers) : found.v = markers[k] /\ markers[k]["Name"] = m
  BY <1>6, OneFound
<1>8. GetMarkerID(info, m) = Answer(found.v.MarkerID)
  BY <1>5, <1>6 DEF GetMarkerID, Then, Succeeds
<1> QED
  BY <1>7, <1>8

\* A marker's parent is a segment of its subject, if it has any.
LEMMA MarkerParent ==
  ASSUME NEW c, NEW f, Nameable(f), NEW info \in Listed(f.SubjectInfo), NEW s, NEW m,
         NEW k \in 1..Len(info.Markers),
         GetSubjectInfo(c, s) = Answer(info),
         GetMarkerID(info, m) = Answer(info.Markers[k].MarkerID), Len(info.Segments) # 0
  PROVE  \E j \in 1..Len(info.Segments) :
           GetMarkerParentName(c, s, m) = Answer(info.Segments[j].Name)
<1> DEFINE id == info.Markers[k].MarkerID
           attached == FirstWith(info.Attachments, "MarkerID", id, "Unknown")
           over == FirstWith(info.Segments, "SegmentID", attached.v.SegmentID, "InvalidMarkerName")
<1>1. Succeeds(attached) /\ attached.v \in Listed(info.Attachments)
  <2>1. \E n \in 1..Len(info.Attachments) : info.Attachments[n]["MarkerID"] = id
    <3>1. \E a \in Listed(info.Attachments) : a.MarkerID = id
      <4>1. info.Markers[k] \in Listed(info.Markers)
        BY DEF Listed
      <4>2. \A x \in Listed(info.Markers) :
              \E a \in Listed(info.Attachments) : a.MarkerID = x.MarkerID
        BY DEF Nameable
      <4> QED
        BY <4>1, <4>2
    <3> QED
      BY <3>1 DEF Listed
  <2>2. Succeeds(attached)
    BY <2>1, FirstFound
  <2>3. \E n \in 1..Len(info.Attachments) :
          attached.v = info.Attachments[n] /\ info.Attachments[n]["MarkerID"] = id
    BY <2>2, OneFound
  <2> QED
    BY <2>2, <2>3 DEF Listed
<1>2. Succeeds(over) /\ \E j \in 1..Len(info.Segments) : over.v = info.Segments[j]
  <2>1. \E j \in 1..Len(info.Segments) : info.Segments[j]["SegmentID"] = attached.v.SegmentID
    <3> HIDE DEF attached
    <3> QED
      BY <1>1 DEF Nameable, Listed
  <2> HIDE DEF attached
  <2>2. Succeeds(over)
    BY <2>1, FirstFound
  <2>3. \E j \in 1..Len(info.Segments) :
          over.v = info.Segments[j] /\ info.Segments[j]["SegmentID"] = attached.v.SegmentID
    BY <2>2, OneFound
  <2> QED
    BY <2>2, <2>3
<1>3. GetMarkerParentName(c, s, m) = Answer(over.v.Name)
  <2>1. GetMarkerParentName(c, s, m)
          = Then(GetMarkerID(info, m), LAMBDA h :
              LET a == FirstWith(info.Attachments, "MarkerID", h, "Unknown")
                  segment == IF a.result = "Success" THEN a.v.SegmentID ELSE 0
              IN  Then(FirstWith(info.Segments, "SegmentID", segment, "InvalidMarkerName"),
                       LAMBDA g : Answer(g.Name)))
    BY Answers DEF GetMarkerParentName, Then, Succeeds
  <2>2. GetMarkerParentName(c, s, m)
          = LET segment == IF attached.result = "Success" THEN attached.v.SegmentID ELSE 0
            IN  Then(FirstWith(info.Segments, "SegmentID", segment, "InvalidMarkerName"),
                     LAMBDA g : Answer(g.Name))
    BY <2>1, Answers DEF Then, Succeeds
  <2>3. GetMarkerParentName(c, s, m) = Then(over, LAMBDA g : Answer(g.Name))
    BY <1>1, <2>2 DEF Then, Succeeds
  <2> QED
    BY <1>2, <2>3 DEF Then, Succeeds
<1> QED
  BY <1>2, <1>3

\* A segment enumerated has a pose, be it occluded.
LEMMA SegmentAccepted ==
  ASSUME NEW c, Succeeds(InitGet(c)), Nameable(c.frame), NEW s \in SubjectsOf(c),
         NEW g \in SegmentsOf(c, s)
  PROVE  /\ Succeeds(GetSegmentGlobalTranslation(c, s, g))
         /\ Succeeds(GetSegmentLocalRotationQuaternion(c, s, g))
<1>1. PICK info \in Listed(c.frame.SubjectInfo) :
           /\ GetSubjectInfo(c, s) = Answer(info)
           /\ Ordered(info.Segments)
           /\ \A x \in Listed(info.Segments) : x.Name # ""
  BY SubjectOf
<1>2. PICK k \in 1..Len(info.Segments) : g = info.Segments[k].Name
  <2>1. GetSubjectInfo(c, s) = Answer(info) /\ Ordered(info.Segments)
    BY <1>1
  <2>2. SegmentsOf(c, s) = {info.Segments[k].Name : k \in 1..Len(info.Segments)}
    BY <2>1, SegmentNames
  <2> QED
    BY <2>2
<1>3. g # ""
  BY <1>1, <1>2 DEF Listed
<1>4. Succeeds(GetSegmentID(info, g))
  BY <1>2, <1>3, SegmentNamed
<1>5. Succeeds(GetSubjectAndSegmentID(c, s, g))
  <2>1. Succeeds(GetSubjectInfo(c, s)) /\ GetSubjectInfo(c, s).v = info
    BY <1>1, Answers
  <2>2. Succeeds(GetSegmentID(GetSubjectInfo(c, s).v, g))
    BY <1>4, <2>1
  <2>3. Succeeds(GetSubjectAndSegmentID(c, s, g)) <=>
          Succeeds(GetSubjectInfo(c, s)) /\ Succeeds(GetSegmentID(GetSubjectInfo(c, s).v, g))
    BY BothNamed
  <2> QED
    BY <2>1, <2>2, <2>3
<1>6. \A v : Succeeds(Visible(v)) /\ Succeeds(Occluded)
  BY Answers DEF Visible, Occluded
<1>7. Succeeds(GetSegmentGlobalTranslation(c, s, g))
  BY <1>5, <1>6 DEF GetSegmentGlobalTranslation, SegmentTranslation, Then, OrOccluded, Succeeds
<1>8. Succeeds(GetSegmentLocalRotationMatrix(c, s, g))
  BY <1>5, <1>6 DEF GetSegmentLocalRotationMatrix, SegmentRotation, Then, OrOccluded, Succeeds
<1>9. Succeeds(GetSegmentLocalRotationQuaternion(c, s, g))
  BY <1>6, <1>8 DEF GetSegmentLocalRotationQuaternion, Converted, Then, Succeeds
<1> QED
  BY <1>7, <1>9

\* A marker enumerated has a place, be it occluded, and a segment of its subject.
LEMMA MarkerAccepted ==
  ASSUME NEW c, Succeeds(InitGet(c)), Nameable(c.frame), NEW s \in SubjectsOf(c),
         NEW m \in MarkersOf(c, s)
  PROVE  /\ Succeeds(GetMarkerGlobalTranslation(c, s, m))
         /\ SegmentsOf(c, s) # {} => /\ Succeeds(GetMarkerParentName(c, s, m))
                                     /\ GetMarkerParentName(c, s, m).v \in SegmentsOf(c, s)
<1>1. PICK info \in Listed(c.frame.SubjectInfo) :
           /\ GetSubjectInfo(c, s) = Answer(info)
           /\ Ordered(info.Segments) /\ Ordered(info.Markers)
           /\ \A x \in Listed(info.Segments) \cup Listed(info.Markers) : x.Name # ""
  BY SubjectOf
<1>2. PICK k \in 1..Len(info.Markers) : GetMarkerID(info, m) = Answer(info.Markers[k].MarkerID)
  <2>1. AllNamed(info.Markers)
    BY <1>1 DEF AllNamed
  <2>2. GetSubjectInfo(c, s) = Answer(info) /\ Ordered(info.Markers)
    BY <1>1
  <2> QED
    BY <2>1, <2>2, MarkerNamed
<1>3. Succeeds(GetMarkerGlobalTranslation(c, s, m))
  <2>1. Succeeds(GetSubjectAndMarkerID(c, s, m))
    BY <1>1, <1>2, Answers DEF GetSubjectAndMarkerID, Then, Succeeds
  <2>2. \A v : Succeeds(Visible(v)) /\ Succeeds(Occluded)
    BY Answers DEF Visible, Occluded
  <2> QED
    BY <2>1, <2>2 DEF GetMarkerGlobalTranslation, Then, OrOccluded, Succeeds
<1>4. ASSUME SegmentsOf(c, s) # {}
      PROVE  /\ Succeeds(GetMarkerParentName(c, s, m))
             /\ GetMarkerParentName(c, s, m).v \in SegmentsOf(c, s)
  <2>1. SegmentsOf(c, s) = {info.Segments[j].Name : j \in 1..Len(info.Segments)}
    <3>1. GetSubjectInfo(c, s) = Answer(info) /\ Ordered(info.Segments)
      BY <1>1
    <3> QED
      BY <3>1, SegmentNames
  <2>2. Len(info.Segments) # 0
    BY <1>4, <2>1
  <2>3. PICK j \in 1..Len(info.Segments) :
          GetMarkerParentName(c, s, m) = Answer(info.Segments[j].Name)
    <3>1. GetSubjectInfo(c, s) = Answer(info)
      BY <1>1
    <3> QED
      BY <1>2, <2>2, <3>1, MarkerParent
  <2> QED
    BY <2>1, <2>3, Answers
<1> QED
  BY <1>3, <1>4

\* What is published of a subject: its markers.
LEMMA SubjectPublished ==
  ASSUME NEW c, Succeeds(InitGet(c)), Nameable(c.frame), NEW s \in SubjectsOf(c)
  PROVE  {OrEmpty(GetMarkerName(c, s, i)) : i \in 0..(OrNone(GetMarkerCount(c, s)) - 1)}
           = MarkersOf(c, s)
<1>1. PICK info \in Listed(c.frame.SubjectInfo) :
         GetSubjectInfo(c, s) = Answer(info) /\ Ordered(info.Markers)
  BY SubjectOf
<1>2. \A i \in 0..(OrNone(GetMarkerCount(c, s)) - 1) :
        OrEmpty(GetMarkerName(c, s, i)) = GetMarkerName(c, s, i).v
  <2>1. ASSUME NEW i \in 0..(OrNone(GetMarkerCount(c, s)) - 1)
        PROVE  Succeeds(GetMarkerName(c, s, i))
    <3>1. i \in 0..(Len(info.Markers) - 1)
      BY <1>1, MarkerNames
    <3>2. GetMarkerName(c, s, i) = Answer(info.Markers[i + 1].Name)
      BY <1>1, <3>1, MarkerNames
    <3> QED
      BY <3>2, Answers
  <2> QED
    BY <2>1 DEF OrEmpty, Succeeds
<1> QED
  BY <1>2 DEF MarkersOf, NamesOf

\* What the node vicon_bridge publishes: every marker, with a segment of its subject.
LEMMA MarkersPublished ==
  ASSUME NEW c, Succeeds(InitGet(c)), Nameable(c.frame)
  PROVE  /\ {<<m.subject, m.marker>> : m \in publish_markers(c)}
              = UNION {{<<s, m>> : m \in MarkersOf(c, s)} : s \in SubjectsOf(c)}
         /\ \A m \in publish_markers(c) :
              m.segment \in SegmentsOf(c, m.subject) \/ SegmentsOf(c, m.subject) = {}
<1> DEFINE Message(s, m) ==
             [subject |-> s, marker |-> m, segment |-> OrEmpty(GetMarkerParentName(c, s, m)),
              at |-> GetMarkerGlobalTranslation(c, s, m)]
           Names(s) ==
             {OrEmpty(GetMarkerName(c, s, i)) : i \in 0..(OrNone(GetMarkerCount(c, s)) - 1)}
           Subjects == {OrEmpty(GetSubjectName(c, i)) : i \in 0..(OrNone(GetSubjectCount(c)) - 1)}
<1>1. Subjects = SubjectsOf(c)
  <2>1. \A i \in 0..(OrNone(GetSubjectCount(c)) - 1) :
          OrEmpty(GetSubjectName(c, i)) = GetSubjectName(c, i).v
    <3>1. ASSUME NEW i \in 0..(OrNone(GetSubjectCount(c)) - 1)
          PROVE  Succeeds(GetSubjectName(c, i))
      <4>1. i \in 0..(Len(c.frame.SubjectInfo) - 1)
        BY SubjectNames
      <4>2. GetSubjectName(c, i) = Answer(c.frame.SubjectInfo[i + 1].Name)
        BY <4>1, SubjectNames
      <4> QED
        BY <4>2, Answers
    <3> QED
      BY <3>1 DEF OrEmpty, Succeeds
  <2> QED
    BY <2>1 DEF SubjectsOf, NamesOf
<1>2. \A x : x \in publish_markers(c) <=>
        \E s \in Subjects : \E m \in Names(s) : x = Message(s, m) /\ x.at.result = "Success"
  BY DEF publish_markers
<1> HIDE DEF Subjects, Names
<1>3. \A s \in SubjectsOf(c) : Names(s) = MarkersOf(c, s)
  BY SubjectPublished DEF Names
<1>4. \A x : x \in publish_markers(c) <=>
        \E s \in SubjectsOf(c) : \E m \in MarkersOf(c, s) : x = Message(s, m)
  BY <1>1, <1>2, <1>3, MarkerAccepted DEF Succeeds
<1>5. {<<m.subject, m.marker>> : m \in publish_markers(c)}
        = UNION {{<<s, m>> : m \in MarkersOf(c, s)} : s \in SubjectsOf(c)}
  <2>1. ASSUME NEW x \in publish_markers(c)
        PROVE  \E s \in SubjectsOf(c) : \E m \in MarkersOf(c, s) :
                 <<x.subject, x.marker>> = <<s, m>>
    BY <1>4
  <2>2. ASSUME NEW s \in SubjectsOf(c), NEW m \in MarkersOf(c, s)
        PROVE  \E x \in publish_markers(c) : <<x.subject, x.marker>> = <<s, m>>
    <3>1. Message(s, m) \in publish_markers(c)
      BY <1>4
    <3>2. Message(s, m).subject = s /\ Message(s, m).marker = m
      OBVIOUS
    <3> QED
      BY <3>1, <3>2
  <2> QED
    BY <2>1, <2>2
<1>6. ASSUME NEW x \in publish_markers(c)
      PROVE  x.segment \in SegmentsOf(c, x.subject) \/ SegmentsOf(c, x.subject) = {}
  <2>1. PICK s \in SubjectsOf(c) : \E m \in MarkersOf(c, s) : x = Message(s, m)
    BY <1>4
  <2>2. PICK m \in MarkersOf(c, s) : x = Message(s, m)
    BY <2>1
  <2>3. x.subject = s /\ x.segment = OrEmpty(GetMarkerParentName(c, s, m))
    BY <2>2
  <2>4. SegmentsOf(c, s) # {} => x.segment \in SegmentsOf(c, s)
    BY <2>3, MarkerAccepted DEF OrEmpty, Succeeds
  <2> QED
    BY <2>3, <2>4
<1> QED
  BY <1>5, <1>6

\* A device enumerated is found again, by the name it was given if it has none.
LEMMA DeviceNames ==
  ASSUME NEW c, Succeeds(InitGet(c)), Nameable(c.frame), NEW d \in DevicesOf(c)
  PROVE  Succeeds(GetDeviceOutputCount(c, d))
<1> DEFINE f == c.frame
           devices == f.DeviceInfo
           found == GetDevice(f, d)
           I == {k \in 1..Len(devices) : AdaptDeviceName(devices[k].Name, devices[k].DeviceID) = d}
<1>1. InitGet(c) = Answer(f)
  BY FrameGotten
<1>2. OrNone(GetDeviceCount(c)) = Len(devices)
  BY <1>1 DEF OrNone, GetDeviceCount, Then, Answer
<1>3. Len(devices) \in Nat
  BY OrderedLen DEF Nameable
<1>4. PICK i \in 0..(Len(devices) - 1) : d = GetDeviceName(c, i).v.name
  BY <1>2 DEF DevicesOf, NamesOf
<1>5. d = AdaptDeviceName(devices[i + 1].Name, devices[i + 1].DeviceID) /\ i + 1 \in 1..Len(devices)
  <2>1. Indexed(devices, i) = Answer(devices[i + 1]) /\ i + 1 \in 1..Len(devices)
    BY <1>3 DEF Indexed
  <2>2. GetDeviceName(c, i).v.name = AdaptDeviceName(devices[i + 1].Name, devices[i + 1].DeviceID)
    BY <1>1, <2>1 DEF GetDeviceName, Then, Answer
  <2> QED
    BY <1>4, <2>1, <2>2
<1>6. I \in SUBSET Nat /\ I # {}
  <2>1. I \subseteq 1..Len(devices) /\ I # {}
    BY <1>5
  <2> HIDE DEF I
  <2> QED
    BY <1>3, <2>1
<1>7. Min(I) # 0
  <2>1. 0 \notin I
    BY <1>3
  <2> HIDE DEF I
  <2> QED
    BY <1>6, <2>1, LeastOf
<1>8. Succeeds(found)
  <2>1. SelectInSeq(devices, LAMBDA x : AdaptDeviceName(x.Name, x.DeviceID) = d) # 0
    BY <1>6, <1>7 DEF SelectInSeq
  <2> QED
    BY <2>1, Answers DEF GetDevice, FirstWhere
<1> QED
  BY <1>1, <1>8, Answers DEF GetDeviceOutputCount, DeviceNamed, Then, Succeeds

\* The first camera of a name is found.
LEMMA CameraFound ==
  ASSUME NEW c, NEW name,
         \E k \in 1..Len(c.frame.CameraInfo) : CameraName(c.frame.CameraInfo[k]) = name
  PROVE  /\ Succeeds(GetCamera(c, name))
         /\ GetCamera(c, name).v \in Listed(c.frame.CameraInfo)
         /\ CameraName(GetCamera(c, name).v) = name
<1> DEFINE cameras == c.frame.CameraInfo
           I == {k \in 1..Len(cameras) : CameraName(cameras[k]) = name}
<1>1. I \in SUBSET Nat /\ 0 \notin I /\ I # {}
  <2>1. I \subseteq 1..Len(cameras) /\ I # {}
    OBVIOUS
  <2> HIDE DEF I
  <2> QED
    BY <2>1
<1>2. Min(I) \in I /\ Min(I) # 0
  <2> HIDE DEF I
  <2> QED
    BY <1>1, LeastOf
<1>3. SelectInSeq(cameras, LAMBDA d : CameraName(d) = name) = Min(I)
  BY <1>1 DEF SelectInSeq
<1>4. GetCamera(c, name) = Answer(cameras[Min(I)])
  BY <1>2, <1>3 DEF GetCamera, FirstWhere
<1>5. Min(I) \in 1..Len(cameras) /\ CameraName(cameras[Min(I)]) = name
  BY <1>2
<1> QED
  BY <1>4, <1>5, Answers DEF Listed

\* A camera enumerated is found again, and a dynamic one has a pose.
LEMMA CameraNames ==
  ASSUME NEW c, Succeeds(InitGet(c)), Nameable(c.frame)
  PROVE  /\ \A m \in CamerasOf(c) :
              Succeeds(GetCameraID(c, m)) /\ Succeeds(GetCameraResolution(c, m))
         /\ \A i \in 0..(GetDynamicCameraCount(c).v - 1) :
              Succeeds(GetDynamicCameraName(c, i)) =>
                Succeeds(GetCameraGlobalRotationMatrix(c, GetDynamicCameraName(c, i).v))
<1> DEFINE f == c.frame
           cameras == f.CameraInfo
           dynamic == f.DynamicCameraCalibrationInfo
<1>1. InitGet(c) = Answer(f)
  BY FrameGotten
<1>2. ASSUME NEW m \in CamerasOf(c)
      PROVE  Succeeds(GetCameraID(c, m)) /\ Succeeds(GetCameraResolution(c, m))
  <2>1. OrNone(GetCameraCount(c)) = Len(cameras)
    BY <1>1 DEF OrNone, GetCameraCount, Then, Answer
  <2>2. Len(cameras) \in Nat
    BY OrderedLen DEF Nameable
  <2>3. PICK i \in 0..(Len(cameras) - 1) : m = GetCameraName(c, i).v
    BY <2>1 DEF CamerasOf, NamesOf
  <2>4. Indexed(cameras, i) = Answer(cameras[i + 1]) /\ i + 1 \in 1..Len(cameras)
    BY <2>2 DEF Indexed
  <2>5. GetCameraName(c, i).v = CameraName(cameras[i + 1])
    BY <1>1, <2>4, Answers DEF GetCameraName, Then, Succeeds
  <2>6. \E k \in 1..Len(cameras) : CameraName(cameras[k]) = m
    BY <2>3, <2>4, <2>5
  <2>7. Succeeds(GetCamera(c, m))
    BY <2>6, CameraFound
  <2> QED
    BY <1>1, <2>7, Answers DEF GetCameraID, GetCameraResolution, OfCameraNamed, Then, Succeeds
<1>3. ASSUME NEW i \in 0..(GetDynamicCameraCount(c).v - 1), Succeeds(GetDynamicCameraName(c, i))
      PROVE  Succeeds(GetCameraGlobalRotationMatrix(c, GetDynamicCameraName(c, i).v))
  <2> DEFINE d == dynamic[i + 1]
             sent == OfCameraID(f, "CameraInfo", d.CameraID, "InvalidIndex")
             name == GetDynamicCameraName(c, i).v
             found == GetCamera(c, name)
  <2>1. Len(dynamic) \in Nat
    BY OrderedLen DEF Nameable
  <2>2. GetDynamicCameraCount(c) = Answer(Len(dynamic))
    BY <1>1, Answers DEF GetDynamicCameraCount, Then, Succeeds
  <2>3. Indexed(dynamic, i) = Answer(d) /\ i + 1 \in 1..Len(dynamic)
    BY <2>1, <2>2, Answers DEF Indexed
  <2>4. GetDynamicCameraName(c, i) = IF Succeeds(sent) THEN Answer(CameraName(sent.v)) ELSE sent
    BY <1>1, <2>3, Answers DEF GetDynamicCameraName, Then, Succeeds
  <2>5. Succeeds(sent)
    BY <1>3, <2>4
  <2>6. \E k \in 1..Len(cameras) : sent.v = cameras[k] /\ cameras[k]["CameraID"] = d.CameraID
    BY <2>5, OneFound DEF OfCameraID
  <2>7. name = CameraName(sent.v)
    BY <2>4, <2>5, Answers
  <2>8. Succeeds(found) /\ found.v \in Listed(cameras) /\ CameraName(found.v) = CameraName(sent.v)
    <3>1. \E k \in 1..Len(cameras) : CameraName(cameras[k]) = name
      BY <2>6, <2>7
    <3> QED
      BY <2>7, <3>1, CameraFound
  <2>9. found.v.CameraID = d.CameraID
    <3>1. sent.v \in Listed(cameras) /\ sent.v.CameraID = d.CameraID
      BY <2>6 DEF Listed
    <3> HIDE DEF sent, found, d
    <3> QED
      BY <2>8, <3>1 DEF Nameable
  <2>10. Succeeds(GetCameraCalibrationInfo(f, d.CameraID))
    <3>1. Succeeds(OfCameraID(f, "DynamicCameraCalibrationInfo", d.CameraID, "NotPresent"))
      <4>1. \E k \in 1..Len(f["DynamicCameraCalibrationInfo"]) :
              f["DynamicCameraCalibrationInfo"][k]["CameraID"] = d.CameraID
        BY <2>3
      <4> QED
        BY <4>1, FirstFound DEF OfCameraID
    <3> QED
      BY <3>1 DEF GetCameraCalibrationInfo, OrElse, Succeeds
  <2> HIDE DEF found, name
  <2>11. GetCameraGlobalRotationMatrix(c, name)
           = Then(GetCameraCalibrationInfo(f, found.v.CameraID),
                  LAMBDA p : Answer(TransformR(c, p.PoseRotation)))
    BY <1>1, <2>8, Answers DEF GetCameraGlobalRotationMatrix, Calibration, OfCameraNamed,
                               Then, Succeeds, found
  <2>12. Succeeds(GetCameraGlobalRotationMatrix(c, name))
    BY <2>9, <2>10, <2>11, Answers DEF Then, Succeeds
  <2> QED
    BY <2>12 DEF name
<1> QED
  BY <1>2, <1>3

\* A latency sample enumerated has a value.
LEMMA LatencyNames ==
  ASSUME NEW c, Succeeds(InitGet(c)), Nameable(c.frame),
         NEW i \in 0..(GetLatencySampleCount(c).v - 1)
  PROVE  Succeeds(GetLatencySampleValue(c, GetLatencySampleName(c, i).v))
<1> DEFINE f == c.frame
           samples == LatencySamples(f)
           name == GetLatencySampleName(c, i).v
<1>1. InitGet(c) = Answer(f)
  BY FrameGotten
<1>2. Len(samples) \in Nat
  BY OrderedLen DEF Nameable
<1>3. GetLatencySampleCount(c) = Answer(Len(samples))
  BY <1>1, Answers DEF GetLatencySampleCount, Then, Succeeds
<1>4. Indexed(samples, i) = Answer(samples[i + 1]) /\ i + 1 \in 1..Len(samples)
  BY <1>2, <1>3, Answers DEF Indexed
<1>5. name = samples[i + 1].Name
  BY <1>1, <1>4, Answers DEF GetLatencySampleName, Then, Succeeds
<1>6. Succeeds(FirstWith(samples, "Name", name, "InvalidLatencySampleName"))
  <2>1. \E k \in 1..Len(samples) : samples[k]["Name"] = name
    BY <1>4, <1>5
  <2> HIDE DEF samples, name
  <2> QED
    BY <2>1, FirstFound
<1> HIDE DEF name
<1>7. Succeeds(GetLatencySampleValue(c, name))
  BY <1>1, <1>6, Answers DEF GetLatencySampleValue, Then, Succeeds
<1> QED
  BY <1>7 DEF name

\* Names enumerated are names accepted.  Of frames that name what they hold, whatever
\* they hold, every name VClient's getters enumerate of subjects, segments, markers,
\* devices, cameras and latency samples is one the getters it is for accept, and the
\* node publishes every marker once per subject and name, under a segment of its subject.
THEOREM NamesFit == FrameSound => NamesResolve
<1> SUFFICES ASSUME FrameSound, Succeeds(InitGet(client))
             PROVE  NamesAccepted(client)
  BY DEF NamesResolve
<1> DEFINE c == client
<1>1. Nameable(c.frame)
  BY DEF FrameSound
<1>2. \A s \in SubjectsOf(c) :
         /\ \A g \in SegmentsOf(c, s) :
              /\ Succeeds(GetSegmentGlobalTranslation(c, s, g))
              /\ Succeeds(GetSegmentLocalRotationQuaternion(c, s, g))
         /\ \A m \in MarkersOf(c, s) :
              /\ Succeeds(GetMarkerGlobalTranslation(c, s, m))
              /\ SegmentsOf(c, s) # {} => Succeeds(GetMarkerParentName(c, s, m))
  BY <1>1, SegmentAccepted, MarkerAccepted
<1>3. \A d \in DevicesOf(c) : Succeeds(GetDeviceOutputCount(c, d))
  BY <1>1, DeviceNames
<1> QED
  BY <1>1, <1>2, <1>3, MarkersPublished, CameraNames, LatencyNames DEF NamesAccepted

------------------------------------------------------------------------------
(* Counts and enumerations                                                  *)

\* Getters that index the sequence whose length is the count.
LEMMA FrameAgrees ==
  ASSUME NEW c
  PROVE  /\ Agree(GetSubjectCount(c), LAMBDA i : GetSubjectName(c, i))
         /\ Agree(GetLatencySampleCount(c), LAMBDA i : GetLatencySampleName(c, i))
         /\ Agree(GetFrameRateCount(c), LAMBDA i : GetFrameRateName(c, i))
         /\ Agree(GetLabeledMarkerCount(c), LAMBDA i : GetLabeledMarkerGlobalTranslation(c, i))
         /\ Agree(GetUnlabeledMarkerCount(c), LAMBDA i : GetUnlabeledMarkerGlobalTranslation(c, i))
         /\ Agree(GetDeviceCount(c), LAMBDA i : GetDeviceName(c, i))
         /\ Agree(GetForcePlateCount(c), LAMBDA i : GetForcePlateID(c, i))
         /\ Agree(GetEyeTrackerCount(c), LAMBDA i : GetEyeTrackerID(c, i))
         /\ Agree(GetCameraCount(c), LAMBDA i : GetCameraName(c, i))
<1>1. Agree(GetSubjectCount(c), LAMBDA i : GetSubjectName(c, i))
  BY DEF Agree, Then, Indexed, Answer, Refuse, GetSubjectCount, GetSubjectName, InitGet
<1>2. Agree(GetLatencySampleCount(c), LAMBDA i : GetLatencySampleName(c, i))
  BY DEF Agree, Then, Indexed, Answer, Refuse, GetLatencySampleCount, GetLatencySampleName, InitGet
<1>3. Agree(GetFrameRateCount(c), LAMBDA i : GetFrameRateName(c, i))
  BY DEF Agree, Then, Indexed, Answer, Refuse, GetFrameRateCount, GetFrameRateName, InitGet
<1>4. Agree(GetLabeledMarkerCount(c), LAMBDA i : GetLabeledMarkerGlobalTranslation(c, i))
  BY DEF Agree, Then, Indexed, Answer, Refuse, GetLabeledMarkerCount,
         GetLabeledMarkerGlobalTranslation, InitGet
<1>5. Agree(GetUnlabeledMarkerCount(c), LAMBDA i : GetUnlabeledMarkerGlobalTranslation(c, i))
  BY DEF Agree, Then, Indexed, Answer, Refuse, GetUnlabeledMarkerCount,
         GetUnlabeledMarkerGlobalTranslation, InitGet
<1>6. Agree(GetDeviceCount(c), LAMBDA i : GetDeviceName(c, i))
  BY DEF Agree, Then, Indexed, Answer, Refuse, GetDeviceCount, GetDeviceName, InitGet
<1>7. Agree(GetForcePlateCount(c), LAMBDA i : GetForcePlateID(c, i))
  BY DEF Agree, Then, Indexed, Answer, Refuse, GetForcePlateCount, GetForcePlateID, InitGet
<1>8. Agree(GetEyeTrackerCount(c), LAMBDA i : GetEyeTrackerID(c, i))
  BY DEF Agree, Then, Indexed, Answer, Refuse, GetEyeTrackerCount, GetEyeTrackerID, InitGet
<1>9. Agree(GetCameraCount(c), LAMBDA i : GetCameraName(c, i))
  BY DEF Agree, Then, Indexed, Answer, Refuse, GetCameraCount, GetCameraName, InitGet
<1> QED
  BY <1>1, <1>2, <1>3, <1>4, <1>5, <1>6, <1>7, <1>8, <1>9

\* Of a subject's segments, their children, its markers and their rays.
LEMMA SubjectAgrees ==
  ASSUME NEW c, NEW s, NEW g, NEW m
  PROVE  /\ Agree(GetSegmentCount(c, s), LAMBDA i : GetSegmentName(c, s, i))
         /\ Agree(GetMarkerCount(c, s), LAMBDA i : GetMarkerName(c, s, i))
         /\ Agree(GetSegmentChildCount(c, s, g), LAMBDA i : GetSegmentChildName(c, s, g, i))
         /\ Agree(GetMarkerRayAssignmentCount(c, s, m),
                  LAMBDA i : GetMarkerRayAssignment(c, s, m, i))
<1>1. Agree(GetSegmentCount(c, s), LAMBDA i : GetSegmentName(c, s, i))
  BY DEF Agree, Then, Indexed, Answer, Refuse, GetSegmentCount, GetSegmentName
<1>2. Agree(GetMarkerCount(c, s), LAMBDA i : GetMarkerName(c, s, i))
  BY DEF Agree, Then, Indexed, Answer, Refuse, GetMarkerCount, GetMarkerName
<1>3. Agree(GetSegmentChildCount(c, s, g), LAMBDA i : GetSegmentChildName(c, s, g, i))
  BY DEF Agree, Then, Indexed, Answer, Refuse, GetSegmentChildCount, GetSegmentChildName, OfSegment
<1>4. Agree(GetMarkerRayAssignmentCount(c, s, m), LAMBDA i : GetMarkerRayAssignment(c, s, m, i))
  BY DEF Agree, Then, Indexed, Answer, Refuse, GetMarkerRayAssignmentCount, GetMarkerRayAssignment
<1> QED
  BY <1>1, <1>2, <1>3, <1>4

\* Of a device's outputs and of what a camera sees.
LEMMA DeviceAgrees ==
  ASSUME NEW c, NEW d, NEW m
  PROVE  /\ Agree(GetDeviceOutputCount(c, d), LAMBDA i : GetDeviceOutputName(c, d, i))
         /\ Agree(GetCentroidCount(c, m), LAMBDA i : GetCentroidPosition(c, m, i))
         /\ Agree(GetGreyscaleBlobCount(c, m), LAMBDA i : GetGreyscaleBlob(c, m, i))
<1>1. Agree(GetDeviceOutputCount(c, d), LAMBDA i : GetDeviceOutputName(c, d, i))
  BY DEF Agree, Then, Indexed, Answer, Refuse, GetDeviceOutputCount, GetDeviceOutputName,
         GetDeviceOutputNameComponent, DeviceNamed
<1>2. Agree(GetCentroidCount(c, m), LAMBDA i : GetCentroidPosition(c, m, i))
  BY DEF Agree, Then, Indexed, Answer, Refuse, GetCentroidCount, GetCentroidPosition, OfCameraNamed
<1>3. Agree(GetGreyscaleBlobCount(c, m), LAMBDA i : GetGreyscaleBlob(c, m, i))
  BY DEF Agree, Then, Indexed, Answer, Refuse, GetGreyscaleBlobCount, GetGreyscaleBlob,
         OfCameraNamed
<1> QED
  BY <1>1, <1>2, <1>3

\* A plate's vector is of the first frame that settles the place of the sample.
LEMMA VectorGotten ==
  ASSUME NEW c, NEW type, NEW plate, NEW i, Succeeds(InitGet(c)),
         IsForcePlateDevice(c.frame, plate)
  PROVE  LET frames == c.frame[type] IN
         /\ (\A k \in 1..Len(frames) : ~Succeeds(VectorPlace(c.frame, plate, frames[k], i))
                                       \/ VectorPlace(c.frame, plate, frames[k], i) = Elsewhere)
              => ~Succeeds(GetForcePlateVector(c, type, plate, i))
         /\ GetDevicePeriod(c.frame, plate) # 0
            /\ (\A k \in 1..Len(frames) : Succeeds(VectorPlace(c.frame, plate, frames[k], i)))
            /\ (\E k \in 1..Len(frames) : VectorPlace(c.frame, plate, frames[k], i) # Elsewhere)
              => Succeeds(GetForcePlateVector(c, type, plate, i))
<1> DEFINE f == c.frame
           frames == f[type]
           Place(d) == VectorPlace(f, plate, d, i)
           I == {k \in 1..Len(frames) : Place(frames[k]) # Elsewhere}
           first == FirstWhere(frames, LAMBDA d : Place(d) # Elsewhere, "Unknown")
           settled == FirstSettled(frames, LAMBDA d : VectorPlace(f, plate, d, i), LAMBDA d, at :
                        Answer(ComponentSamples(d, 3, Len(d.Samples) \div 3, at)))
<1>1. I \in SUBSET Nat /\ 0 \notin I
  <2>1. I \subseteq 1..Len(frames)
    OBVIOUS
  <2> HIDE DEF I
  <2> QED
    BY <2>1
<1>2. SelectInSeq(frames, LAMBDA d : Place(d) # Elsewhere) = IF I = {} THEN 0 ELSE Min(I)
  BY DEF SelectInSeq
<1>3. I # {} => Min(I) \in I /\ Min(I) # 0
  <2> HIDE DEF I
  <2> QED
    BY <1>1, LeastOf
<1>4. first = IF I = {} THEN Refuse("Unknown") ELSE Answer(frames[Min(I)])
  BY <1>2, <1>3 DEF FirstWhere
<1>5. settled = IF I = {} THEN Refuse("Unknown")
                ELSE IF Succeeds(Place(frames[Min(I)]))
                THEN Answer(ComponentSamples(frames[Min(I)], 3, Len(frames[Min(I)].Samples) \div 3,
                                             Place(frames[Min(I)]).v))
                ELSE Place(frames[Min(I)])
  <2> DEFINE Sampled3(d) == IF Succeeds(Place(d))
                 THEN Answer(ComponentSamples(d, 3, Len(d.Samples) \div 3, Place(d).v))
                 ELSE Place(d)
  <2>1. settled = Then(first, LAMBDA d :
                    Then(Place(d), LAMBDA at :
                      Answer(ComponentSamples(d, 3, Len(d.Samples) \div 3, at))))
    BY DEF FirstSettled
  <2> HIDE DEF first, Place, I
  <2>2. settled = IF Succeeds(first)
                  THEN Then(Place(first.v), LAMBDA at :
                      Answer(ComponentSamples(first.v, 3, Len(first.v.Samples) \div 3, at)))
                  ELSE first
    BY <2>1 DEF Then, Succeeds
  <2>3. settled = IF Succeeds(first) THEN Sampled3(first.v) ELSE first
    BY <2>2 DEF Then, Succeeds
  <2>4. ~Succeeds(Refuse("Unknown")) /\ \A v : Succeeds(Answer(v)) /\ Answer(v).v = v
    BY DEF Succeeds, Refuse, Answer
  <2>5. CASE I = {}
    BY <1>4, <2>3, <2>4, <2>5
  <2>6. CASE I # {}
    <3>1. Succeeds(first) /\ first.v = frames[Min(I)]
      BY <1>4, <2>4, <2>6
    <3>2. settled = Sampled3(frames[Min(I)])
      BY <2>3, <3>1
    <3> QED
      BY <2>6, <3>2
  <2> QED
    BY <2>5, <2>6
<1>6. ~Succeeds(Refuse("Unknown")) /\ \A v : Succeeds(Answer(v))
  BY DEF Succeeds, Refuse, Answer
<1>7. Succeeds(settled) <=> I # {} /\ Succeeds(Place(frames[Min(I)]))
  BY <1>5, <1>6
<1>8. GetForcePlateVector(c, type, plate, i)
        = IF GetDevicePeriod(f, plate) = 0 THEN Refuse("InvalidIndex") ELSE settled
  <2>1. InitGet(c) = Answer(f)
    BY FrameGotten
  <2>2. Answer(f).result = "Success" /\ Answer(f).v = f
    BY DEF Answer
  <2>3. GetForcePlateVector(c, type, plate, i) = ForcePlateVector(f, type, plate, i)
    BY <2>1, <2>2 DEF GetForcePlateVector, Then
  <2>4. ForcePlateVector(f, type, plate, i)
          = IF ~IsForcePlateDevice(f, plate) \/ GetDevicePeriod(f, plate) = 0
            THEN Refuse("InvalidIndex")
            ELSE settled
    BY DEF ForcePlateVector
  <2> QED
    BY <2>3, <2>4
<1>9. ~Succeeds(Refuse("InvalidIndex"))
  BY DEF Succeeds, Refuse
<1>10. Succeeds(GetForcePlateVector(c, type, plate, i)) <=>
         GetDevicePeriod(f, plate) # 0 /\ I # {} /\ Succeeds(Place(frames[Min(I)]))
  BY <1>7, <1>8, <1>9
<1>11. I # {} => Min(I) \in 1..Len(frames) /\ Place(frames[Min(I)]) # Elsewhere
  BY <1>3
<1>12. I # {} <=> \E k \in 1..Len(frames) : Place(frames[k]) # Elsewhere
  OBVIOUS
<1> HIDE DEF I, Place
<1>13. /\ (\A k \in 1..Len(frames) : ~Succeeds(Place(frames[k])) \/ Place(frames[k]) = Elsewhere)
            => ~Succeeds(GetForcePlateVector(c, type, plate, i))
       /\ GetDevicePeriod(f, plate) # 0
          /\ (\A k \in 1..Len(frames) : Succeeds(Place(frames[k])))
          /\ (\E k \in 1..Len(frames) : Place(frames[k]) # Elsewhere)
            => Succeeds(GetForcePlateVector(c, type, plate, i))
  BY <1>10, <1>11, <1>12
<1> QED
  BY <1>13 DEF Place

\* Every frame of a type the plate sends holds n samples, and together they hold the frame's.
SentWhole(f, type, plate, n) ==
  /\ n # 0 /\ GetDevicePeriod(f, plate) # 0 /\ GetDevicePeriod(f, plate) % n = 0
  /\ \A e \in Listed(f[type]) : e.DeviceID = plate => Len(e.Samples) \div 3 = n
  /\ SamplesInFrame(f, plate, n) \in Nat
  /\ \A i \in 0..(SamplesInFrame(f, plate, n) - 1) :
       \E e \in Listed(f[type]) :
         e.DeviceID = plate /\ SamplePlace(f, plate, e, n, i) # Elsewhere

\* What a frame of a plate promises of the plate's frames of either type.
LEMMA PlateSampled ==
  ASSUME NEW f, NEW type \in {"ForceFrame", "MomentFrame"},
         NEW other \in {"ForceFrame", "MomentFrame"}, NEW plate,
         NEW d \in Listed(f[type]), d.DeviceID = plate,
         Sampled(f), IsForcePlateDevice(f, plate)
  PROVE  SentWhole(f, other, plate, Len(d.Samples) \div 3)
<1> DEFINE n == Len(d.Samples) \div 3
           mine == {e \in Listed(f[other]) : e.DeviceID = plate}
<1>1. LET id == d.DeviceID
          theirs == {e \in Listed(f[other]) : e.DeviceID = id}
      IN  IsForcePlateDevice(f, id) =>
            /\ n # 0 /\ GetDevicePeriod(f, id) # 0 /\ GetDevicePeriod(f, id) % n = 0
            /\ \A e \in theirs : Len(e.Samples) \div 3 = n
            /\ SamplesInFrame(f, id, n) \in Nat
            /\ \A i \in 0..(SamplesInFrame(f, id, n) - 1) :
                 \E e \in theirs : SamplePlace(f, id, e, n, i) # Elsewhere
  BY Zenon DEF Sampled
<1>2. /\ n # 0 /\ GetDevicePeriod(f, plate) # 0 /\ GetDevicePeriod(f, plate) % n = 0
      /\ \A e \in mine : Len(e.Samples) \div 3 = n
      /\ SamplesInFrame(f, plate, n) \in Nat
      /\ \A i \in 0..(SamplesInFrame(f, plate, n) - 1) :
           \E e \in mine : SamplePlace(f, plate, e, n, i) # Elsewhere
  BY <1>1
<1> HIDE DEF n
<1> QED
  BY <1>2 DEF n, SentWhole

\* Samples enumerated of a plate that has them whole.
LEMMA PlateAgrees ==
  ASSUME NEW c, NEW type \in {"ForceFrame", "MomentFrame"}, NEW plate, Sampled(c.frame)
  PROVE  Agree(GetForcePlateSubsamples(c, plate),
               LAMBDA i : ForcePlateVectorAtSample(c, type, plate, i))
<1> DEFINE f == c.frame
           count == GetForcePlateSubsamples(c, plate)
           Get(i) == GetForcePlateVector(c, type, plate, i)
           first == FirstWith(f.ForceFrame, "DeviceID", plate, "Unknown")
           n == Len(first.v.Samples) \div 3
<1>1. SUFFICES \A i \in UpTo(count) : Succeeds(Get(i)) <=> Succeeds(count) /\ i < count.v
  <2>1. \A i : Succeeds(ForcePlateVectorAtSample(c, type, plate, i)) <=> Succeeds(Get(i))
    BY DEF ForcePlateVectorAtSample, Then, Succeeds, Answer
  <2> QED
    BY <1>1, <2>1 DEF Agree, Succeeds
<1>2. CASE ~Succeeds(InitGet(c)) \/ ~IsForcePlateDevice(f, plate)
  <2>1. ~Succeeds(count) /\ \A i : ~Succeeds(Get(i))
    BY <1>2, FrameGotten DEF GetForcePlateSubsamples, GetForcePlateVector, ForcePlateVector, Then,
                       Succeeds, Refuse, Answer
  <2> QED
    BY <2>1
<1>3. CASE Succeeds(InitGet(c)) /\ IsForcePlateDevice(f, plate)
  <2>1. InitGet(c) = Answer(f)
    BY <1>3, FrameGotten
  <2>2. count = IF Succeeds(first)
                THEN IF n = 0 \/ GetDevicePeriod(f, plate) % n # 0 THEN Refuse("Unknown")
                     ELSE Answer(SamplesInFrame(f, plate, n))
                ELSE first
    <3>1. Answer(f).result = "Success" /\ Answer(f).v = f
      BY DEF Answer
    <3>2. count = Then(Answer(f), LAMBDA h :
                    IF ~IsForcePlateDevice(h, plate) THEN Refuse("InvalidIndex")
                    ELSE Then(FirstWith(h.ForceFrame, "DeviceID", plate, "Unknown"), LAMBDA d :
                      IF Whole(h, plate, Len(d.Samples) \div 3)
                      THEN Answer(SamplesInFrame(h, plate, Len(d.Samples) \div 3))
                      ELSE Refuse("Unknown")))
      BY <2>1 DEF GetForcePlateSubsamples
    <3>3. count = Then(first, LAMBDA d :
                      IF Whole(f, plate, Len(d.Samples) \div 3)
                      THEN Answer(SamplesInFrame(f, plate, Len(d.Samples) \div 3))
                      ELSE Refuse("Unknown"))
      BY <1>3, <3>1, <3>2 DEF Then
    <3> HIDE DEF first
    <3> QED
      BY <3>3 DEF Then, Succeeds, Whole
  <2>3. ASSUME Succeeds(first)
        PROVE  SentWhole(f, type, plate, n) /\ count = Answer(SamplesInFrame(f, plate, n))
    <3>1. PICK k \in 1..Len(f.ForceFrame) :
            first.v = f.ForceFrame[k] /\ f.ForceFrame[k]["DeviceID"] = plate
      BY <2>3, OneFound
    <3>2. first.v \in Listed(f.ForceFrame) /\ first.v.DeviceID = plate
      BY <3>1 DEF Listed
    <3> HIDE DEF first
    <3>3. SentWhole(f, type, plate, n)
      BY <1>3, <3>2, PlateSampled
    <3> QED
      BY <2>2, <2>3, <3>3 DEF SentWhole
  <2> DEFINE frames == f[type]
             due == SamplesInFrame(f, plate, n)
  <2>4. ASSUME Succeeds(first), NEW k \in 1..Len(frames), NEW i
        PROVE  VectorPlace(f, plate, frames[k], i)
                 = IF frames[k].DeviceID # plate THEN Elsewhere
                   ELSE SamplePlace(f, plate, frames[k], n, i)
    <3>1. frames[k] \in Listed(f[type])
      BY DEF Listed
    <3>2. frames[k].DeviceID = plate => Len(frames[k].Samples) \div 3 = n
      BY <2>3, <2>4, <3>1 DEF SentWhole
    <3>3. n # 0 /\ GetDevicePeriod(f, plate) % n = 0
      BY <2>3, <2>4 DEF SentWhole
    <3> HIDE DEF n
    <3> QED
      BY <3>2, <3>3 DEF VectorPlace, WholePlace, Whole
  <2>5. CASE Succeeds(first)
    <3>1. due \in Nat /\ count = Answer(due) /\ UpTo(count) = 0..due
      <4>1. due \in Nat
        BY <2>3, <2>5 DEF SentWhole
      <4>2. count = Answer(due)
        BY <2>3, <2>5
      <4> HIDE DEF due, count
      <4> QED
        BY <4>1, <4>2 DEF UpTo, Answer
    <3>2. ASSUME NEW i \in 0..(due - 1)
          PROVE  Succeeds(Get(i))
      <4>1. PICK e \in Listed(frames) :
              e.DeviceID = plate /\ SamplePlace(f, plate, e, n, i) # Elsewhere
        BY <2>3, <2>5 DEF SentWhole
      <4>2. PICK k \in 1..Len(frames) : e = frames[k]
        BY <4>1 DEF Listed
      <4>3. VectorPlace(f, plate, frames[k], i) # Elsewhere
        BY <2>4, <2>5, <4>1, <4>2
      <4>4. \A j \in 1..Len(frames) : Succeeds(VectorPlace(f, plate, frames[j], i))
        <5>1. \A d : Succeeds(SamplePlace(f, plate, d, n, i))
          <6>1. ~(i >= due)
            <7>1. due \in Nat /\ i \in 0..(due - 1)
              BY <3>1
            <7> HIDE DEF due
            <7> QED
              BY <7>1
          <6> QED
            BY <6>1 DEF SamplePlace, Succeeds, Answer
        <5>2. Succeeds(Elsewhere)
          BY Answers DEF Elsewhere
        <5> QED
          BY <2>4, <2>5, <5>1, <5>2
      <4>5. GetDevicePeriod(f, plate) # 0
        BY <2>3, <2>5 DEF SentWhole
      <4> QED
        BY <1>3, <4>3, <4>4, <4>5, VectorGotten
    <3>3. ~Succeeds(Get(due))
      <4>1. \A d : ~Succeeds(SamplePlace(f, plate, d, n, due))
        <5>1. due >= due
          <6>1. due \in Nat
            BY <3>1
          <6> HIDE DEF due
          <6> QED
            BY <6>1
        <5> QED
          BY <5>1 DEF SamplePlace, Succeeds, Refuse
      <4>2. \A j \in 1..Len(frames) : \/ ~Succeeds(VectorPlace(f, plate, frames[j], due))
                                      \/ VectorPlace(f, plate, frames[j], due) = Elsewhere
        BY <2>4, <2>5, <4>1
      <4> QED
        BY <1>3, <4>2, VectorGotten
    <3>4. Succeeds(count) /\ count.v = due
      BY <3>1, Answers
    <3> HIDE DEF due, count, Get
    <3> QED
      BY <3>1, <3>2, <3>3, <3>4
  <2>6. CASE ~Succeeds(first)
    <3>1. ~Succeeds(count)
      BY <2>2, <2>6
    <3>2. UpTo(count) = {0}
      BY <3>1 DEF UpTo, Succeeds
    <3>3. ASSUME NEW k \in 1..Len(frames)
          PROVE  \/ ~Succeeds(VectorPlace(f, plate, frames[k], 0))
                 \/ VectorPlace(f, plate, frames[k], 0) = Elsewhere
      <4> DEFINE d == frames[k]
                 m == Len(d.Samples) \div 3
      <4>1. CASE d.DeviceID # plate
        BY <4>1 DEF VectorPlace
      <4>2. CASE d.DeviceID = plate
        <5>1. d \in Listed(f[type])
          BY DEF Listed
        <5>2. SentWhole(f, "ForceFrame", plate, m)
          BY <1>3, <4>2, <5>1, PlateSampled
        <5>3. \A e \in Listed(f["ForceFrame"]) : e.DeviceID # plate
          <6>1. \A j \in 1..Len(f.ForceFrame) : f.ForceFrame[j]["DeviceID"] # plate
            BY <2>6, FirstFound
          <6> QED
            BY <6>1 DEF Listed
        <5>4. SamplesInFrame(f, plate, m) = 0
          <6> HIDE DEF m
          <6> QED
            BY <5>2, <5>3 DEF SentWhole
        <5>5. ~Succeeds(SamplePlace(f, plate, d, m, 0))
          <6> HIDE DEF m
          <6> QED
            BY <5>4 DEF SamplePlace, Succeeds, Refuse
        <5>6. VectorPlace(f, plate, d, 0)
                = IF Whole(f, plate, m) THEN SamplePlace(f, plate, d, m, 0) ELSE Refuse("Unknown")
          BY <4>2 DEF VectorPlace, WholePlace
        <5>7. ~Succeeds(Refuse("Unknown"))
          BY DEF Succeeds, Refuse
        <5> HIDE DEF m
        <5>8. ~Succeeds(VectorPlace(f, plate, d, 0))
          BY <5>5, <5>6, <5>7
        <5> QED
          BY <5>8
      <4> QED
        BY <4>1, <4>2
    <3>4. ~Succeeds(Get(0))
      BY <1>3, <3>3, VectorGotten
    <3> HIDE DEF count, Get
    <3> QED
      BY <3>1, <3>2, <3>4
  <2> QED
    BY <2>5, <2>6
<1> QED
  BY <1>2, <1>3

\* Counts and enumerations agree.  Of frames that hold whole samples, whatever else they
\* hold, every getter of VClient that takes an index succeeds exactly below the count that
\* goes with it: the force and moment samples of a plate, found by searching the device
\* frames, as well as what is read from one list.
THEOREM EnumerationsFit == FrameSound => EnumerationsAgree
<1> SUFFICES ASSUME FrameSound
             PROVE  CountsAgree(client)
  BY DEF EnumerationsAgree
<1> DEFINE c == client
<1>1. ASSUME NEW p
      PROVE  /\ Agree(GetForcePlateSubsamples(c, p), LAMBDA i : GetForceVectorAtSample(c, p, i))
             /\ Agree(GetForcePlateSubsamples(c, p), LAMBDA i : GetMomentVectorAtSample(c, p, i))
  <2>1. /\ Agree(GetForcePlateSubsamples(c, p),
                 LAMBDA i : ForcePlateVectorAtSample(c, "ForceFrame", p, i))
        /\ Agree(GetForcePlateSubsamples(c, p),
                 LAMBDA i : ForcePlateVectorAtSample(c, "MomentFrame", p, i))
    BY PlateAgrees DEF FrameSound, Agree
  <2> QED
    BY <2>1 DEF Agree, GetForceVectorAtSample, GetMomentVectorAtSample
<1> QED
  BY <1>1, FrameAgrees, SubjectAgrees, DeviceAgrees DEF CountsAgree, Agree

------------------------------------------------------------------------------
(* Matrices and rotations                                                   *)

\* The product of two matrices, entry by entry.
LEMMA ProductEntries ==
  ASSUME NEW m, NEW n
  PROVE Product(m, n) =
          <<m[1] * n[1] + m[2] * n[4] + m[3] * n[7], m[1] * n[2] + m[2] * n[5] + m[3] * n[8],
            m[1] * n[3] + m[2] * n[6] + m[3] * n[9],
            m[4] * n[1] + m[5] * n[4] + m[6] * n[7], m[4] * n[2] + m[5] * n[5] + m[6] * n[8],
            m[4] * n[3] + m[5] * n[6] + m[6] * n[9],
            m[7] * n[1] + m[8] * n[4] + m[9] * n[7], m[7] * n[2] + m[8] * n[5] + m[9] * n[8],
            m[7] * n[3] + m[8] * n[6] + m[9] * n[9]>>
<1>1. Product(m, n) =
        Matrix(LAMBDA i, j : Entry(m, i, 0) * Entry(n, 0, j) + Entry(m, i, 1) * Entry(n, 1, j)
                               + Entry(m, i, 2) * Entry(n, 2, j))
  BY DEF Product, SumOver3
<1> QED
  BY <1>1 DEF Matrix, Entry

\* A matrix applied to a vector, entry by entry.
LEMMA ApplyEntries ==
  ASSUME NEW m, NEW v
  PROVE Apply(m, v) =
          <<m[1] * v[1] + m[2] * v[2] + m[3] * v[3], m[4] * v[1] + m[5] * v[2] + m[6] * v[3],
            m[7] * v[1] + m[8] * v[2] + m[9] * v[3]>>
<1>1. Apply(m, v) = Triple(LAMBDA i : Entry(m, i - 1, 0) * v[0 + 1] + Entry(m, i - 1, 1) * v[1 + 1]
                                      + Entry(m, i - 1, 2) * v[2 + 1])
  BY DEF Apply, SumOver3
<1> QED
  BY <1>1 DEF Triple, Entry

\* The transpose, the sum of vectors and the identity, entry by entry.
LEMMA OthersEntries ==
  ASSUME NEW m, NEW v, NEW w
  PROVE  /\ Transpose(m) = <<m[1], m[4], m[7], m[2], m[5], m[8], m[3], m[6], m[9]>>
         /\ Plus(v, w) = <<v[1] + w[1], v[2] + w[2], v[3] + w[3]>>
         /\ Identity = <<1, 0, 0, 0, 1, 0, 0, 0, 1>>
  BY DEF Transpose, Matrix, Entry, Plus, Triple, Identity

\* A matrix has nine entries.
LEMMA MatrixOf ==
  ASSUME NEW m \in Matrices
  PROVE \E a, b, c, d, e, f, g, h, i \in Int : m = <<a, b, c, d, e, f, g, h, i>>
<1>1. /\ m = <<m[1], m[2], m[3], m[4], m[5], m[6], m[7], m[8], m[9]>>
      /\ m[1] \in Int /\ m[2] \in Int /\ m[3] \in Int /\ m[4] \in Int /\ m[5] \in Int
      /\ m[6] \in Int /\ m[7] \in Int /\ m[8] \in Int /\ m[9] \in Int
  BY DEF Matrices
<1> USE <1>1
<1> WITNESS m[1] \in Int, m[2] \in Int, m[3] \in Int, m[4] \in Int, m[5] \in Int,
            m[6] \in Int, m[7] \in Int, m[8] \in Int, m[9] \in Int
<1> QED
  OBVIOUS

\* A vector has three entries.
LEMMA VectorOf ==
  ASSUME NEW m \in Vectors
  PROVE \E a, b, c \in Int : m = <<a, b, c>>
  BY DEF Vectors

\* Products associate.
LEMMA ProductsAssociate ==
  ASSUME NEW m \in Matrices, NEW n \in Matrices, NEW p \in Matrices
  PROVE Product(Product(m, n), p) = Product(m, Product(n, p))
<1>1. PICK a \in Int, b \in Int, c \in Int, d \in Int, e \in Int, f \in Int,
          g \in Int, h \in Int, i \in Int : m = <<a, b, c, d, e, f, g, h, i>>
  BY MatrixOf
<1>2. PICK A \in Int, B \in Int, C \in Int, D \in Int, E \in Int, F \in Int,
          G \in Int, H \in Int, I \in Int : n = <<A, B, C, D, E, F, G, H, I>>
  BY MatrixOf
<1>3. PICK q \in Int, r \in Int, s \in Int, t \in Int, u \in Int, v \in Int,
          w \in Int, x \in Int, y \in Int : p = <<q, r, s, t, u, v, w, x, y>>
  BY MatrixOf
<1> DEFINE mn == <<a * A + b * D + c * G, a * B + b * E + c * H, a * C + b * F + c * I,
                   d * A + e * D + f * G, d * B + e * E + f * H, d * C + e * F + f * I,
                   g * A + h * D + i * G, g * B + h * E + i * H, g * C + h * F + i * I>>
           np == <<A * q + B * t + C * w, A * r + B * u + C * x, A * s + B * v + C * y,
                   D * q + E * t + F * w, D * r + E * u + F * x, D * s + E * v + F * y,
                   G * q + H * t + I * w, G * r + H * u + I * x, G * s + H * v + I * y>>
<1>4. Product(m, n) = mn /\ Product(n, p) = np
  BY <1>1, <1>2, <1>3, ProductEntries
<1>5. Product(mn, p) =
        <<mn[1] * q + mn[2] * t + mn[3] * w, mn[1] * r + mn[2] * u + mn[3] * x,
          mn[1] * s + mn[2] * v + mn[3] * y,
          mn[4] * q + mn[5] * t + mn[6] * w, mn[4] * r + mn[5] * u + mn[6] * x,
          mn[4] * s + mn[5] * v + mn[6] * y,
          mn[7] * q + mn[8] * t + mn[9] * w, mn[7] * r + mn[8] * u + mn[9] * x,
          mn[7] * s + mn[8] * v + mn[9] * y>>
  BY <1>3, ProductEntries
<1>6. Product(m, np) =
        <<a * np[1] + b * np[4] + c * np[7], a * np[2] + b * np[5] + c * np[8],
          a * np[3] + b * np[6] + c * np[9],
          d * np[1] + e * np[4] + f * np[7], d * np[2] + e * np[5] + f * np[8],
          d * np[3] + e * np[6] + f * np[9],
          g * np[1] + h * np[4] + i * np[7], g * np[2] + h * np[5] + i * np[8],
          g * np[3] + h * np[6] + i * np[9]>>
  BY <1>1, ProductEntries
<1>7. Product(mn, p) = Product(m, np)
  BY <1>5, <1>6
<1> QED
  BY <1>4, <1>7

\* The determinant of a product is the product of the determinants.
LEMMA DeterminantOfProduct ==
  ASSUME NEW m \in Matrices, NEW n \in Matrices
  PROVE  Product(m, n) \in Matrices /\ Determinant(Product(m, n)) = Determinant(m) * Determinant(n)
<1>1. PICK a \in Int, b \in Int, c \in Int, d \in Int, e \in Int, f \in Int,
          g \in Int, h \in Int, i \in Int : m = <<a, b, c, d, e, f, g, h, i>>
  BY MatrixOf
<1>2. PICK A \in Int, B \in Int, C \in Int, D \in Int, E \in Int, F \in Int,
          G \in Int, H \in Int, I \in Int : n = <<A, B, C, D, E, F, G, H, I>>
  BY MatrixOf
<1> DEFINE mn == <<a * A + b * D + c * G, a * B + b * E + c * H, a * C + b * F + c * I,
                   d * A + e * D + f * G, d * B + e * E + f * H, d * C + e * F + f * I,
                   g * A + h * D + i * G, g * B + h * E + i * H, g * C + h * F + i * I>>
<1>3. Product(m, n) = mn
  BY <1>1, <1>2, ProductEntries
<1>4. Determinant(mn) = Determinant(m) * Determinant(n)
  BY <1>1, <1>2 DEF Determinant
<1>5. mn \in Matrices
  BY DEF Matrices
<1> QED
  BY <1>3, <1>4, <1>5

\* A product applies one matrix after the other.
LEMMA ApplyProduct ==
  ASSUME NEW m \in Matrices, NEW n \in Matrices, NEW v \in Vectors
  PROVE  Apply(Product(m, n), v) = Apply(m, Apply(n, v)) /\ Apply(m, v) \in Vectors
<1>1. PICK a \in Int, b \in Int, c \in Int, d \in Int, e \in Int, f \in Int,
          g \in Int, h \in Int, i \in Int : m = <<a, b, c, d, e, f, g, h, i>>
  BY MatrixOf
<1>2. PICK A \in Int, B \in Int, C \in Int, D \in Int, E \in Int, F \in Int,
          G \in Int, H \in Int, I \in Int : n = <<A, B, C, D, E, F, G, H, I>>
  BY MatrixOf
<1>3. PICK x \in Int, y \in Int, z \in Int : v = <<x, y, z>>
  BY VectorOf
<1> DEFINE mn == <<a * A + b * D + c * G, a * B + b * E + c * H, a * C + b * F + c * I,
                   d * A + e * D + f * G, d * B + e * E + f * H, d * C + e * F + f * I,
                   g * A + h * D + i * G, g * B + h * E + i * H, g * C + h * F + i * I>>
           nv == <<A * x + B * y + C * z, D * x + E * y + F * z, G * x + H * y + I * z>>
<1>4. Product(m, n) = mn
  BY <1>1, <1>2, ProductEntries
<1>5. Apply(n, v) = nv
  BY <1>2, <1>3, ApplyEntries
<1>6. Apply(mn, v) =
        <<mn[1] * x + mn[2] * y + mn[3] * z, mn[4] * x + mn[5] * y + mn[6] * z,
          mn[7] * x + mn[8] * y + mn[9] * z>>
  BY <1>3, ApplyEntries
<1>7. Apply(m, nv) =
        <<a * nv[1] + b * nv[2] + c * nv[3], d * nv[1] + e * nv[2] + f * nv[3],
          g * nv[1] + h * nv[2] + i * nv[3]>>
  BY <1>1, ApplyEntries
<1>8. Apply(mn, v) = Apply(m, nv)
  BY <1>6, <1>7
<1>9. Apply(m, v) = <<a * x + b * y + c * z, d * x + e * y + f * z, g * x + h * y + i * z>>
  BY <1>1, <1>3, ApplyEntries
<1> QED
  BY <1>4, <1>5, <1>8, <1>9 DEF Vectors

\* A matrix is linear.
LEMMA ApplyPlus ==
  ASSUME NEW m \in Matrices, NEW v \in Vectors, NEW w \in Vectors
  PROVE  Apply(m, Plus(v, w)) = Plus(Apply(m, v), Apply(m, w)) /\ Plus(v, w) \in Vectors
<1>1. PICK a \in Int, b \in Int, c \in Int, d \in Int, e \in Int, f \in Int,
          g \in Int, h \in Int, i \in Int : m = <<a, b, c, d, e, f, g, h, i>>
  BY MatrixOf
<1>2. PICK x \in Int, y \in Int, z \in Int : v = <<x, y, z>>
  BY VectorOf
<1>3. PICK X \in Int, Y \in Int, Z \in Int : w = <<X, Y, Z>>
  BY VectorOf
<1>4. Plus(v, w) = <<x + X, y + Y, z + Z>>
  BY <1>2, <1>3, OthersEntries
<1>5. Apply(m, <<x + X, y + Y, z + Z>>) =
        <<a * (x + X) + b * (y + Y) + c * (z + Z), d * (x + X) + e * (y + Y) + f * (z + Z),
          g * (x + X) + h * (y + Y) + i * (z + Z)>>
  BY <1>1, ApplyEntries
<1>6. /\ Apply(m, v) = <<a * x + b * y + c * z, d * x + e * y + f * z, g * x + h * y + i * z>>
      /\ Apply(m, w) = <<a * X + b * Y + c * Z, d * X + e * Y + f * Z, g * X + h * Y + i * Z>>
  BY <1>1, <1>2, <1>3, ApplyEntries
<1> DEFINE mv == Apply(m, v)
           mw == Apply(m, w)
<1>7. Plus(mv, mw) = <<mv[1] + mw[1], mv[2] + mw[2], mv[3] + mw[3]>>
  BY OthersEntries
<1>8. Plus(mv, mw) = Apply(m, <<x + X, y + Y, z + Z>>)
  BY <1>5, <1>6, <1>7
<1> QED
  BY <1>4, <1>8 DEF Vectors

\* The identity is its own transpose.
LEMMA IdentityItself ==
  /\ Identity \in Matrices /\ Transpose(Identity) = Identity /\ Determinant(Identity) = 1
<1>1. Identity = <<1, 0, 0, 0, 1, 0, 0, 0, 1>>
  BY OthersEntries
<1> QED
  BY <1>1, OthersEntries DEF Matrices, Determinant

\* The identity is neutral for products.
LEMMA IdentityOfMatrices ==
  ASSUME NEW m \in Matrices
  PROVE  /\ Product(Identity, m) = m /\ Product(m, Identity) = m
         /\ Identity \in Matrices /\ Transpose(Identity) = Identity
<1>1. PICK a \in Int, b \in Int, c \in Int, d \in Int, e \in Int, f \in Int,
          g \in Int, h \in Int, i \in Int : m = <<a, b, c, d, e, f, g, h, i>>
  BY MatrixOf
<1>2. Identity = <<1, 0, 0, 0, 1, 0, 0, 0, 1>>
  BY OthersEntries
<1>3. Product(<<1, 0, 0, 0, 1, 0, 0, 0, 1>>, m) = m
  BY <1>1, ProductEntries
<1>4. Product(m, <<1, 0, 0, 0, 1, 0, 0, 0, 1>>) = m
  BY <1>1, ProductEntries
<1> QED
  BY <1>2, <1>3, <1>4, IdentityItself

\* The identity moves no vector.
LEMMA IdentityOfVectors ==
  ASSUME NEW v \in Vectors
  PROVE  Apply(Identity, v) = v
<1>1. PICK x \in Int, y \in Int, z \in Int : v = <<x, y, z>>
  BY VectorOf
<1>2. Identity = <<1, 0, 0, 0, 1, 0, 0, 0, 1>>
  BY OthersEntries
<1> QED
  BY <1>1, <1>2, ApplyEntries

\* Transposes reverse products and keep determinants.
LEMMA TransposedMatrices ==
  ASSUME NEW m \in Matrices, NEW n \in Matrices
  PROVE  /\ Transpose(m) \in Matrices /\ Transpose(Transpose(m)) = m
        /\ Determinant(Transpose(m)) = Determinant(m)
        /\ Transpose(Product(m, n)) = Product(Transpose(n), Transpose(m))
<1>1. PICK a \in Int, b \in Int, c \in Int, d \in Int, e \in Int, f \in Int,
          g \in Int, h \in Int, i \in Int : m = <<a, b, c, d, e, f, g, h, i>>
  BY MatrixOf
<1>2. PICK A \in Int, B \in Int, C \in Int, D \in Int, E \in Int, F \in Int,
          G \in Int, H \in Int, I \in Int : n = <<A, B, C, D, E, F, G, H, I>>
  BY MatrixOf
<1>3. /\ Transpose(m) = <<a, d, g, b, e, h, c, f, i>>
      /\ Transpose(n) = <<A, D, G, B, E, H, C, F, I>>
      /\ Transpose(<<a, d, g, b, e, h, c, f, i>>) = m
  BY <1>1, <1>2, OthersEntries
<1>4. Determinant(Transpose(m)) = Determinant(m)
  BY <1>1, <1>3 DEF Determinant
<1> DEFINE tm == <<a, d, g, b, e, h, c, f, i>>
           tn == <<A, D, G, B, E, H, C, F, I>>
<1>5. Product(m, n) =
        <<a * A + b * D + c * G, a * B + b * E + c * H, a * C + b * F + c * I,
          d * A + e * D + f * G, d * B + e * E + f * H, d * C + e * F + f * I,
          g * A + h * D + i * G, g * B + h * E + i * H, g * C + h * F + i * I>>
  BY <1>1, <1>2, ProductEntries
<1>6. Product(tn, tm) =
        <<A * a + D * b + G * c, A * d + D * e + G * f, A * g + D * h + G * i,
          B * a + E * b + H * c, B * d + E * e + H * f, B * g + E * h + H * i,
          C * a + F * b + I * c, C * d + F * e + I * f, C * g + F * h + I * i>>
  BY ProductEntries
<1>7. Transpose(Product(m, n)) =
        <<a * A + b * D + c * G, d * A + e * D + f * G, g * A + h * D + i * G,
          a * B + b * E + c * H, d * B + e * E + f * H, g * B + h * E + i * H,
          a * C + b * F + c * I, d * C + e * F + f * I, g * C + h * F + i * I>>
  BY <1>5, OthersEntries
<1>8. Transpose(Product(m, n)) = Product(tn, tm)
  BY <1>6, <1>7
<1> QED
  BY <1>3, <1>4, <1>8 DEF Matrices

\* The unit vectors along the axes.
Units == {<<1, 0, 0>>, <<-1, 0, 0>>, <<0, 1, 0>>, <<0, -1, 0>>, <<0, 0, 1>>, <<0, 0, -1>>}

\* Rows and columns of length one, at right angles and right-handed, make a rotation.
LEMMA ProperEntries ==
  ASSUME NEW a \in Int, NEW b \in Int, NEW c \in Int, NEW d \in Int, NEW e \in Int, NEW f \in Int,
        NEW g \in Int, NEW h \in Int, NEW i \in Int,
        a * a + b * b + c * c = 1, d * d + e * e + f * f = 1, g * g + h * h + i * i = 1,
        a * d + b * e + c * f = 0, a * g + b * h + c * i = 0, d * g + e * h + f * i = 0,
        a * a + d * d + g * g = 1, b * b + e * e + h * h = 1, c * c + f * f + i * i = 1,
        a * b + d * e + g * h = 0, a * c + d * f + g * i = 0, b * c + e * f + h * i = 0,
        a * (e * i - f * h) - b * (d * i - f * g) + c * (d * h - e * g) = 1
  PROVE  <<a, b, c, d, e, f, g, h, i>> \in ProperRotations
<1> DEFINE m   == <<a, b, c, d, e, f, g, h, i>>
           t   == <<a, d, g, b, e, h, c, f, i>>
           one == <<1, 0, 0, 0, 1, 0, 0, 0, 1>>
<1>1. Transpose(m) = t /\ Identity = one
  BY OthersEntries
<1>2. Product(m, t) = one
  <2>1. Product(m, t) =
          <<a * a + b * b + c * c, a * d + b * e + c * f, a * g + b * h + c * i,
            d * a + e * b + f * c, d * d + e * e + f * f, d * g + e * h + f * i,
            g * a + h * b + i * c, g * d + h * e + i * f, g * g + h * h + i * i>>
    BY ProductEntries
  <2> QED
    BY <2>1
<1>3. Product(t, m) = one
  <2>1. Product(t, m) =
          <<a * a + d * d + g * g, a * b + d * e + g * h, a * c + d * f + g * i,
            b * a + e * d + h * g, b * b + e * e + h * h, b * c + e * f + h * i,
            c * a + f * d + i * g, c * b + f * e + i * h, c * c + f * f + i * i>>
    BY ProductEntries
  <2> QED
    BY <2>1
<1>4. m \in Matrices /\ Determinant(m) = 1
  BY DEF Matrices, Determinant
<1> QED
  BY <1>1, <1>2, <1>3, <1>4 DEF ProperRotations

\* Two units at right angles and their cross product make a rotation.
LEMMA UnitsAtRightAngles ==
  ASSUME NEW u \in Units, NEW v \in Units, u[1] * v[1] = 0, u[2] * v[2] = 0, u[3] * v[3] = 0,
        NEW w, w = CrossProduct(u, v)
  PROVE  <<u[1], u[2], u[3], v[1], v[2], v[3], w[1], w[2], w[3]>> \in ProperRotations
<1>1. PICK a \in Int, b \in Int, c \in Int : u = <<a, b, c>>
  BY DEF Units
<1>2. PICK d \in Int, e \in Int, f \in Int : v = <<d, e, f>>
  BY DEF Units
<1>3. PICK g \in Int, h \in Int, i \in Int :
        g = b * f - c * e /\ h = c * d - a * f /\ i = a * e - b * d
  OBVIOUS
<1>4. w = <<g, h, i>>
  BY <1>1, <1>2, <1>3 DEF CrossProduct
<1>5. /\ a * a + b * b + c * c = 1 /\ d * d + e * e + f * f = 1
      /\ a * d + b * e + c * f = 0
      /\ g * g + h * h + i * i = 1
      /\ a * g + b * h + c * i = 0 /\ d * g + e * h + f * i = 0
      /\ a * a + d * d + g * g = 1 /\ b * b + e * e + h * h = 1 /\ c * c + f * f + i * i = 1
      /\ a * b + d * e + g * h = 0 /\ a * c + d * f + g * i = 0 /\ b * c + e * f + h * i = 0
      /\ a * (e * i - f * h) - b * (d * i - f * g) + c * (d * h - e * g) = 1
  BY <1>1, <1>2, <1>3 DEF Units
<1>6. <<a, b, c, d, e, f, g, h, i>> \in ProperRotations
  BY <1>5, ProperEntries
<1> QED
  BY <1>1, <1>2, <1>4, <1>6

\* Integers whose square is at most one.
LEMMA SmallSquares == \A a \in Int : a * a >= 0 /\ (a * a <= 1 => a \in {-1, 0, 1})
  OBVIOUS

\* Every rotation with integer entries is made of two units and their cross product.
LEMMA RotationRows ==
  ASSUME NEW m \in ProperRotations
  PROVE  \E u \in Units, v \in Units :
          /\ u[1] * v[1] = 0 /\ u[2] * v[2] = 0 /\ u[3] * v[3] = 0
          /\ m = <<u[1], u[2], u[3], v[1], v[2], v[3], CrossProduct(u, v)[1],
                   CrossProduct(u, v)[2], CrossProduct(u, v)[3]>>
<1>0. m \in Matrices
  BY DEF ProperRotations
<1>1. PICK a \in Int, b \in Int, c \in Int, d \in Int, e \in Int, f \in Int,
          g \in Int, h \in Int, i \in Int : m = <<a, b, c, d, e, f, g, h, i>>
  BY <1>0, MatrixOf
<1>2. Product(m, Transpose(m)) = <<1, 0, 0, 0, 1, 0, 0, 0, 1>>
  BY OthersEntries DEF ProperRotations
<1>3. Transpose(m) = <<a, d, g, b, e, h, c, f, i>>
  BY <1>1, OthersEntries
<1>4. Product(m, <<a, d, g, b, e, h, c, f, i>>) =
    <<a * a + b * b + c * c, a * d + b * e + c * f, a * g + b * h + c * i,
      d * a + e * b + f * c, d * d + e * e + f * f, d * g + e * h + f * i,
      g * a + h * b + i * c, g * d + h * e + i * f, g * g + h * h + i * i>>
  BY <1>1, ProductEntries
<1>5. /\ a * a + b * b + c * c = 1 /\ d * d + e * e + f * f = 1 /\ g * g + h * h + i * i = 1
      /\ a * d + b * e + c * f = 0 /\ a * g + b * h + c * i = 0 /\ d * g + e * h + f * i = 0
  BY <1>2, <1>3, <1>4
<1>6. ASSUME NEW x \in Int, NEW y \in Int, NEW z \in Int, x * x + y * y + z * z = 1
      PROVE  <<x, y, z>> \in Units
  <2>1. x * x <= 1 /\ y * y <= 1 /\ z * z <= 1
    BY <1>6, SmallSquares
  <2> QED
    BY <1>6, <2>1, SmallSquares DEF Units
<1> DEFINE u == <<a, b, c>>
           v == <<d, e, f>>
<1>7. u \in Units /\ v \in Units /\ <<g, h, i>> \in Units
  BY <1>5, <1>6
<1>8. a * d = 0 /\ b * e = 0 /\ c * f = 0
  BY <1>5, <1>7 DEF Units
<1>9. a * (e * i - f * h) - b * (d * i - f * g) + c * (d * h - e * g) = 1
  BY <1>1 DEF ProperRotations, Determinant
<1>10. g = b * f - c * e /\ h = c * d - a * f /\ i = a * e - b * d
  BY <1>5, <1>7, <1>8, <1>9 DEF Units
<1> QED
  BY <1>1, <1>7, <1>8, <1>10 DEF CrossProduct

\* Rotations compose, and turn back.
LEMMA RotationsCompose ==
  ASSUME NEW m \in ProperRotations, NEW n \in ProperRotations
  PROVE  Product(m, n) \in ProperRotations /\ Transpose(m) \in ProperRotations
<1> DEFINE mt == Transpose(m)
           nt == Transpose(n)
<1>1. m \in Matrices /\ n \in Matrices /\ mt \in Matrices /\ nt \in Matrices
  BY TransposedMatrices DEF ProperRotations
<1>2. /\ Product(m, n) \in Matrices /\ Product(nt, mt) \in Matrices
      /\ Transpose(Product(m, n)) = Product(nt, mt)
  BY <1>1, TransposedMatrices, DeterminantOfProduct
<1>3. /\ Product(m, mt) = Identity /\ Product(mt, m) = Identity
      /\ Product(n, nt) = Identity /\ Product(nt, n) = Identity
  BY DEF ProperRotations
<1>4. Product(Product(m, n), Product(nt, mt)) = Identity
  <2>1. Product(Product(m, n), Product(nt, mt)) = Product(m, Product(n, Product(nt, mt)))
    BY <1>1, <1>2, ProductsAssociate
  <2>2. Product(n, Product(nt, mt)) = Product(Product(n, nt), mt)
    BY <1>1, ProductsAssociate
  <2> QED
    BY <1>1, <1>3, <2>1, <2>2, IdentityOfMatrices
<1>5. Product(Product(nt, mt), Product(m, n)) = Identity
  <2>1. Product(Product(nt, mt), Product(m, n)) = Product(nt, Product(mt, Product(m, n)))
    BY <1>1, <1>2, ProductsAssociate
  <2>2. Product(mt, Product(m, n)) = Product(Product(mt, m), n)
    BY <1>1, ProductsAssociate
  <2> QED
    BY <1>1, <1>3, <2>1, <2>2, IdentityOfMatrices
<1>6. Determinant(Product(m, n)) = 1 /\ Determinant(mt) = 1
  BY <1>1, DeterminantOfProduct, TransposedMatrices DEF ProperRotations
<1>7. Transpose(mt) = m
  BY <1>1, TransposedMatrices
<1> QED
  BY <1>1, <1>2, <1>3, <1>4, <1>5, <1>6, <1>7 DEF ProperRotations

------------------------------------------------------------------------------
(* The caller's axes                                                        *)

\* A direction is a unit vector.
LEMMA AxisUnit ==
  ASSUME NEW d \in Direction
  PROVE  AxisVector(d) = CASE d = "Forward"  -> <<1, 0, 0>>
                           [] d = "Backward" -> <<-1, 0, 0>>
                           [] d = "Left"     -> <<0, 1, 0>>
                           [] d = "Right"    -> <<0, -1, 0>>
                           [] d = "Up"       -> <<0, 0, 1>>
                           [] d = "Down"     -> <<0, 0, -1>>
<1>1. AxisVector(d) = <<AxisVector(d)[1], AxisVector(d)[2], AxisVector(d)[3]>>
  BY DEF AxisVector
<1> QED
  BY <1>1 DEF AxisVector, Direction, ComponentSign, ComponentIndex

\* The rows of an axis mapping's matrix are its directions.
LEMMA TransformRows ==
  ASSUME NEW axes
  PROVE  Transform(axes) =
           <<AxisVector(axes[1])[1], AxisVector(axes[1])[2], AxisVector(axes[1])[3],
             AxisVector(axes[2])[1], AxisVector(axes[2])[2], AxisVector(axes[2])[3],
             AxisVector(axes[3])[1], AxisVector(axes[3])[2], AxisVector(axes[3])[3]>>
  BY DEF Transform, Matrix

\* The axis mappings the client accepts are rotations.
LEMMA AxesProper ==
  ASSUME NEW axes \in Direction \X Direction \X Direction, AxisMappingResult(axes) = "Success"
  PROVE  Transform(axes) \in ProperRotations
<1>1. PICK a \in Direction, b \in Direction, c \in Direction : axes = <<a, b, c>>
  OBVIOUS
<1>2. AxisVector(c) = CrossProduct(AxisVector(a), AxisVector(b))
  BY <1>1 DEF AxisMappingResult
<1>3. {ComponentIndex(axes[i]) : i \in 1..3} = 0..2
  BY DEF AxisMappingResult
<1>4. ComponentIndex(a) # ComponentIndex(b)
  <2> SUFFICES ASSUME ComponentIndex(a) = ComponentIndex(b) PROVE FALSE
    OBVIOUS
  <2>1. \A i \in 1..3 : ComponentIndex(axes[i]) \in {ComponentIndex(a), ComponentIndex(c)}
    BY <1>1
  <2>2. \A k \in 0..2 : k \in {ComponentIndex(a), ComponentIndex(c)}
    BY <1>3, <2>1
  <2> QED
    BY <2>2
<1>5. AxisVector(a) \in Units /\ AxisVector(b) \in Units
  BY AxisUnit DEF Units, Direction
<1>6. \A k \in 1..3 : AxisVector(a)[k] * AxisVector(b)[k] = 0
  BY <1>4, AxisUnit DEF Direction, ComponentIndex
<1>7. Transform(axes) =
        <<AxisVector(a)[1], AxisVector(a)[2], AxisVector(a)[3],
          AxisVector(b)[1], AxisVector(b)[2], AxisVector(b)[3],
          AxisVector(c)[1], AxisVector(c)[2], AxisVector(c)[3]>>
  BY <1>1, TransformRows
<1> QED
  BY <1>2, <1>5, <1>6, <1>7, UnitsAtRightAngles

\* Axes.  An axis mapping SetAxisMapping accepts changes the answers as a rotation of the
\* world does: a vector is turned by it, a rotation conjugated by it, whatever the up axis
\* of the server is.
THEOREM AxesTurn ==
  ASSUME NEW c, AxesChosen(c)
  PROVE  \E U \in ProperRotations :
          /\ \A r \in Matrices : TransformR(c, r) = Product(Product(U, r), Transpose(U))
          /\ \A t \in Vectors : TransformT(c, t) = Apply(U, t)
<1> DEFINE T == Transform(c.axes)
           Q == Transform(YUpAxes)
<1>1. T \in ProperRotations
  BY AxesProper DEF AxesChosen
<1>2. Q \in ProperRotations /\ Transpose(Q) \in ProperRotations
  <2>1. YUpAxes \in Direction \X Direction \X Direction
    BY DEF YUpAxes, Direction
  <2>2. /\ AxisVector("Forward") = <<1, 0, 0>> /\ AxisVector("Up") = <<0, 0, 1>>
        /\ AxisVector("Right") = <<0, -1, 0>>
    BY AxisUnit DEF Direction
  <2>3. AxisVector("Right") = CrossProduct(AxisVector("Forward"), AxisVector("Up"))
    BY <2>2 DEF CrossProduct
  <2>4. {ComponentIndex(YUpAxes[i]) : i \in 1..3} = 0..2
    BY DEF YUpAxes, ComponentIndex
  <2>5. AxisMappingResult(YUpAxes) = "Success"
    BY <2>3, <2>4 DEF AxisMappingResult, YUpAxes
  <2> QED
    BY <2>1, <2>5, AxesProper, RotationsCompose
<1>3. CASE c.axes = (IF YUp(c) THEN YUpAxes ELSE ZUpAxes)
  <2>1. /\ \A r \in Matrices : TransformR(c, r) = Product(Product(Identity, r), Transpose(Identity))
        /\ \A t \in Vectors : TransformT(c, t) = Apply(Identity, t)
    BY <1>3, IdentityOfMatrices, IdentityOfVectors
      DEF TransformR, TransformT, CopyAndTransformR, CopyAndTransformT
  <2>2. Identity \in ProperRotations
    BY IdentityItself, IdentityOfMatrices DEF ProperRotations
  <2> QED
    BY <2>1, <2>2
<1>4. CASE c.axes # (IF YUp(c) THEN YUpAxes ELSE ZUpAxes) /\ ~YUp(c)
  BY <1>1, <1>4 DEF TransformR, TransformT, CopyAndTransformR, CopyAndTransformT
<1>5. CASE c.axes # (IF YUp(c) THEN YUpAxes ELSE ZUpAxes) /\ YUp(c)
  <2> DEFINE U == Product(T, Transpose(Q))
  <2>1. U \in ProperRotations
    BY <1>1, <1>2, RotationsCompose
  <2>2. Transpose(U) = Product(Q, Transpose(T))
    BY <1>1, <1>2, TransposedMatrices DEF ProperRotations
  <2>3. ASSUME NEW r \in Matrices PROVE TransformR(c, r) = Product(Product(U, r), Transpose(U))
    <3>1. TransformR(c, r) = Product(Product(Product(U, r), Q), Transpose(T))
      BY <1>5 DEF TransformR, CopyAndTransformR
    <3>2. U \in Matrices /\ Q \in Matrices /\ Transpose(T) \in Matrices
      BY <1>1, <1>2, <2>1, TransposedMatrices DEF ProperRotations
    <3> QED
      BY <2>2, <3>1, <3>2, ProductsAssociate, DeterminantOfProduct
  <2>4. ASSUME NEW t \in Vectors PROVE TransformT(c, t) = Apply(U, t)
    BY <1>5 DEF TransformT, CopyAndTransformT
  <2> QED
    BY <2>1, <2>3, <2>4
<1> QED
  BY <1>3, <1>4, <1>5

\* A rotation stays one in the caller's axes.
LEMMA TransformedRotation ==
  ASSUME NEW c, AxesChosen(c), NEW r \in ProperRotations
  PROVE  TransformR(c, r) \in ProperRotations
<1>1. PICK U \in ProperRotations :
        \A t \in Matrices : TransformR(c, t) = Product(Product(U, t), Transpose(U))
  BY AxesTurn
<1>2. r \in Matrices
  BY DEF ProperRotations
<1>3. Product(U, r) \in ProperRotations /\ Transpose(U) \in ProperRotations
  BY RotationsCompose
<1> QED
  BY <1>1, <1>2, <1>3, RotationsCompose

------------------------------------------------------------------------------
(* Poses                                                                    *)

\* The global or local pose of a segment whose identifiers are known.
LEMMA PoseGotten ==
  ASSUME NEW c, NEW type, NEW s, NEW g, Succeeds(GetSubjectAndSegmentID(c, s, g))
  PROVE  LET pose == SegmentPose(c.frame, type, GetSubjectAndSegmentID(c, s, g).v) IN
         /\ Seen(SegmentTranslation(c, type, s, g)) <=> Succeeds(pose)
         /\ Seen(SegmentRotation(c, type, s, g)) <=> Succeeds(pose)
         /\ Succeeds(pose) =>
              /\ SegmentTranslation(c, type, s, g).v.v = TransformT(c, pose.v.Translation)
              /\ SegmentRotation(c, type, s, g).v.v = TransformR(c, pose.v.Rotation)
<1> DEFINE pose == SegmentPose(c.frame, type, GetSubjectAndSegmentID(c, s, g).v)
<1>1. /\ SegmentTranslation(c, type, s, g)
           = IF Succeeds(pose) THEN Visible(TransformT(c, pose.v.Translation)) ELSE Occluded
      /\ SegmentRotation(c, type, s, g)
           = IF Succeeds(pose) THEN Visible(TransformR(c, pose.v.Rotation)) ELSE Occluded
  BY DEF SegmentTranslation, SegmentRotation, Then, OrOccluded, Succeeds
<1>2. \A v : Seen(Visible(v)) /\ Visible(v).v.v = v /\ ~Seen(Occluded)
  BY DEF Seen, Visible, Occluded, Answer, Succeeds
<1> QED
  BY <1>1, <1>2

\* Without the identifiers there is no pose.
LEMMA PoseRefused ==
  ASSUME NEW c, NEW type, NEW s, NEW g, ~Succeeds(GetSubjectAndSegmentID(c, s, g))
  PROVE  ~Seen(SegmentTranslation(c, type, s, g)) /\ ~Seen(SegmentRotation(c, type, s, g))
  BY DEF SegmentTranslation, SegmentRotation, Then, Succeeds, Seen

\* Poses compose.  Of rigid frames, whatever their subjects, and in whatever axes the
\* client accepted, the pose VClient answers for a segment is the one it answers for the
\* segment's parent, followed by the local one.
THEOREM PosesFit == FrameSound => PosesCompose
<1> DEFINE c == client
           f == client.frame
<1> SUFFICES ASSUME FrameSound, NEW s \in SubjectsOf(c), NEW g \in SegmentsOf(c, s),
                    Succeeds(GetSegmentParentName(c, s, g)),
                    Seen(GetSegmentGlobalTranslation(c, s, g)),
                    Seen(GetSegmentGlobalTranslation(c, s, GetSegmentParentName(c, s, g).v))
             PROVE  LET parent == GetSegmentParentName(c, s, g)
                        over == GetSegmentGlobalRotationMatrix(c, s, parent.v).v.v
                    IN  /\ GetSegmentGlobalRotationMatrix(c, s, g).v.v
                             = Product(over, GetSegmentLocalRotationMatrix(c, s, g).v.v)
                        /\ GetSegmentGlobalTranslation(c, s, g).v.v
                             = Plus(GetSegmentGlobalTranslation(c, s, parent.v).v.v,
                                    Apply(over, GetSegmentLocalTranslation(c, s, g).v.v))
  BY DEF PosesCompose
<1> DEFINE name == GetSegmentParentName(c, s, g).v
           idsg == GetSubjectAndSegmentID(c, s, g)
           idsp == GetSubjectAndSegmentID(c, s, name)
           At(type, ids) == SegmentPose(f, type, ids.v)
<1>1. PICK i \in 1..Len(f.SubjectInfo) :
      \E j \in 1..Len(f.SubjectInfo[i].Segments), k \in 1..Len(f.SubjectInfo[i].Segments) :
        LET info == f.SubjectInfo[i]
        IN  /\ GetSubjectInfo(c, s) = Answer(info)
            /\ idsg = Answer([subject |-> info.SubjectID, segment |-> info.Segments[j].SegmentID])
            /\ info.Segments[k].SegmentID = info.Segments[j].ParentID
            /\ GetSegmentParentName(c, s, g) = Answer(info.Segments[k].Name)
  BY ParentNamed DEF FrameSound
<1> DEFINE info == f.SubjectInfo[i]
<1>2. PICK j \in 1..Len(info.Segments), k \in 1..Len(info.Segments) :
            /\ GetSubjectInfo(c, s) = Answer(info)
            /\ idsg = Answer([subject |-> info.SubjectID, segment |-> info.Segments[j].SegmentID])
            /\ info.Segments[k].SegmentID = info.Segments[j].ParentID
            /\ GetSegmentParentName(c, s, g) = Answer(info.Segments[k].Name)
  BY <1>1
<1>3. Succeeds(idsg) /\ Succeeds(idsp)
  BY PoseRefused DEF GetSegmentGlobalTranslation
<1>4. idsp = Answer([subject |-> info.SubjectID, segment |-> info.Segments[k].SegmentID])
  <2>1. name = info.Segments[k].Name
    BY <1>2, Answers
  <2> HIDE DEF name
  <2>2. PICK n, m : Named(c, s, name, n, m)
    BY <1>3, IDsNamed
  <2>3. f.SubjectInfo[n] = info
    BY <1>2, <2>2, Answers DEF Named
  <2>4. /\ m \in 1..Len(info.Segments) /\ info.Segments[m].Name = name
        /\ idsp = Answer([subject |-> info.SubjectID, segment |-> info.Segments[m].SegmentID])
    BY <2>2, <2>3 DEF Named
  <2>5. OnceEach(info.Segments, "Name")
    BY DEF FrameSound, Identified, Listed
  <2>6. m = k
    BY <2>1, <2>4, <2>5 DEF OnceEach
  <2> QED
    BY <2>4, <2>6
<1> DEFINE pose == At("GlobalSegments", idsg)
           local == At("LocalSegments", idsg)
           over == At("GlobalSegments", idsp)
<1>5. Succeeds(pose) /\ Succeeds(over)
  BY <1>3, PoseGotten DEF GetSegmentGlobalTranslation
<1>6. Succeeds(local) /\ Rigid(local.v) /\ Follows(pose.v, over.v, local.v)
  <2>1. info.Segments[j] \in Listed(info.Segments) /\ info \in Listed(f.SubjectInfo)
    BY DEF Listed
  <2>2. /\ pose = SegmentPose(f, "GlobalSegments",
                    [subject |-> info.SubjectID, segment |-> info.Segments[j].SegmentID])
        /\ local = SegmentPose(f, "LocalSegments",
                    [subject |-> info.SubjectID, segment |-> info.Segments[j].SegmentID])
        /\ over = SegmentPose(f, "GlobalSegments",
                    [subject |-> info.SubjectID, segment |-> info.Segments[j].ParentID])
    BY <1>2, <1>4, Answers
  <2> HIDE DEF pose, local, over, info
  <2> QED
    BY <1>5, <2>1, <2>2 DEF FrameSound, Posed
<1>7. Rigid(over.v)
  <2>1. info.Segments[k] \in Listed(info.Segments) /\ info \in Listed(f.SubjectInfo)
    BY DEF Listed
  <2>2. over = SegmentPose(f, "GlobalSegments",
                    [subject |-> info.SubjectID, segment |-> info.Segments[k].SegmentID])
    BY <1>4, Answers
  <2> HIDE DEF over, info
  <2> QED
    BY <1>5, <2>1, <2>2 DEF FrameSound, Posed
<1>8. /\ GetSegmentGlobalRotationMatrix(c, s, g).v.v = TransformR(c, pose.v.Rotation)
      /\ GetSegmentGlobalTranslation(c, s, g).v.v = TransformT(c, pose.v.Translation)
      /\ GetSegmentLocalRotationMatrix(c, s, g).v.v = TransformR(c, local.v.Rotation)
      /\ GetSegmentLocalTranslation(c, s, g).v.v = TransformT(c, local.v.Translation)
      /\ GetSegmentGlobalRotationMatrix(c, s, name).v.v = TransformR(c, over.v.Rotation)
      /\ GetSegmentGlobalTranslation(c, s, name).v.v = TransformT(c, over.v.Translation)
  BY <1>3, <1>5, <1>6, PoseGotten
    DEF GetSegmentGlobalRotationMatrix, GetSegmentGlobalTranslation,
        GetSegmentLocalRotationMatrix, GetSegmentLocalTranslation
<1>9. PICK U \in ProperRotations :
        /\ \A r \in Matrices : TransformR(c, r) = Product(Product(U, r), Transpose(U))
        /\ \A t \in Vectors : TransformT(c, t) = Apply(U, t)
  BY AxesTurn DEF FrameSound
<1> DEFINE V == Transpose(U)
           p == over.v.Rotation
           l == local.v.Rotation
           t == over.v.Translation
           d == local.v.Translation
<1>10. /\ U \in Matrices /\ V \in Matrices /\ p \in Matrices /\ l \in Matrices
       /\ t \in Vectors /\ d \in Vectors /\ Product(V, U) = Identity
  BY <1>6, <1>7, TransposedMatrices DEF Rigid, ProperRotations
<1>11. /\ pose.v.Rotation = Product(p, l) /\ Product(p, l) \in Matrices
       /\ pose.v.Translation = Plus(t, Apply(p, d)) /\ Plus(t, Apply(p, d)) \in Vectors
  BY <1>6, <1>10, DeterminantOfProduct, ApplyProduct, ApplyPlus DEF Follows
<1> HIDE DEF V, p, l, t, d
<1>12. /\ Product(U, p) \in Matrices /\ Product(U, l) \in Matrices
       /\ Product(Product(U, l), V) \in Matrices
  BY <1>10, DeterminantOfProduct
<1>13. Product(Product(U, Product(p, l)), V)
         = Product(Product(Product(U, p), V), Product(Product(U, l), V))
  <2>1. Product(Product(Product(U, p), V), Product(Product(U, l), V))
          = Product(Product(U, p), Product(V, Product(Product(U, l), V)))
    BY <1>10, <1>12, ProductsAssociate
  <2>2. Product(V, Product(Product(U, l), V)) = Product(Product(V, Product(U, l)), V)
    BY <1>10, <1>12, ProductsAssociate
  <2>3. Product(V, Product(U, l)) = l
    BY <1>10, ProductsAssociate, IdentityOfMatrices
  <2>4. Product(Product(U, p), Product(l, V)) = Product(Product(Product(U, p), l), V)
    BY <1>10, <1>12, ProductsAssociate
  <2>5. Product(Product(U, p), l) = Product(U, Product(p, l))
    BY <1>10, ProductsAssociate
  <2> QED
    BY <2>1, <2>2, <2>3, <2>4, <2>5
<1>14. Apply(U, Plus(t, Apply(p, d)))
         = Plus(Apply(U, t), Apply(Product(Product(U, p), V), Apply(U, d)))
  <2>1. Apply(U, Plus(t, Apply(p, d))) = Plus(Apply(U, t), Apply(U, Apply(p, d)))
    BY <1>10, ApplyProduct, ApplyPlus
  <2>2. Apply(Product(Product(U, p), V), Apply(U, d)) = Apply(Product(U, p), Apply(V, Apply(U, d)))
    BY <1>10, <1>12, ApplyProduct
  <2>3. Apply(V, Apply(U, d)) = d
    BY <1>10, ApplyProduct, IdentityOfVectors
  <2>4. Apply(Product(U, p), d) = Apply(U, Apply(p, d))
    BY <1>10, ApplyProduct
  <2> QED
    BY <2>1, <2>2, <2>3, <2>4
<1> QED
  <2>1. TransformR(c, pose.v.Rotation) = Product(TransformR(c, p), TransformR(c, l))
    BY <1>9, <1>10, <1>11, <1>13 DEF V
  <2>2. TransformT(c, pose.v.Translation)
          = Plus(TransformT(c, t), Apply(TransformR(c, p), TransformT(c, d)))
    BY <1>9, <1>10, <1>11, <1>14 DEF V
  <2> QED
    BY <1>8, <2>1, <2>2 DEF p, l, t, d

------------------------------------------------------------------------------
(* Forms of a rotation                                                      *)

\* The entries of a rotation: the first two rows of entries -1, 0 and 1, a single one of them
\* not 0 in each row and in no column twice, and the third their cross product.
LEMMA RotationEntries ==
  ASSUME NEW m \in ProperRotations
  PROVE  \E a, b, c, d, e, f \in Int :
           /\ <<a, b, c>> \in Units /\ <<d, e, f>> \in Units /\ a * d = 0 /\ b * e = 0 /\ c * f = 0
           /\ m = <<a, b, c, d, e, f, b * f - c * e, c * d - a * f, a * e - b * d>>
<1>1. PICK u \in Units, v \in Units :
          /\ u[1] * v[1] = 0 /\ u[2] * v[2] = 0 /\ u[3] * v[3] = 0
          /\ m = <<u[1], u[2], u[3], v[1], v[2], v[3], CrossProduct(u, v)[1],
                   CrossProduct(u, v)[2], CrossProduct(u, v)[3]>>
  BY RotationRows
<1>2. /\ u = <<u[1], u[2], u[3]>> /\ u[1] \in Int /\ u[2] \in Int /\ u[3] \in Int
      /\ v = <<v[1], v[2], v[3]>> /\ v[1] \in Int /\ v[2] \in Int /\ v[3] \in Int
  BY DEF Units
<1> USE <1>2
<1>3. /\ CrossProduct(u, v)[1] = u[2] * v[3] - u[3] * v[2]
      /\ CrossProduct(u, v)[2] = u[3] * v[1] - u[1] * v[3]
      /\ CrossProduct(u, v)[3] = u[1] * v[2] - u[2] * v[1]
  BY DEF CrossProduct
<1> WITNESS u[1] \in Int, u[2] \in Int, u[3] \in Int, v[1] \in Int, v[2] \in Int, v[3] \in Int
<1> QED
  BY <1>1, <1>2, <1>3

\* The quaternion, entry by entry.
LEMMA QuaternionEntries ==
  ASSUME NEW m \in Matrices
  PROVE  LET a == m[1]  b == m[2]  c == m[3]  d == m[4]  e == m[5]  f == m[6]
             g == m[7]  h == m[8]  i == m[9]
         IN  MatrixToQuaternion(m) =
               IF a + e + i > 0 THEN <<h - f, c - g, d - b, a + e + i + 1>>
               ELSE IF i > (IF e > a THEN e ELSE a) THEN <<c + g, f + h, i - a - e + 1, d - b>>
               ELSE IF e > a THEN <<b + d, e - i - a + 1, h + f, c - g>>
               ELSE <<a - e - i + 1, d + b, g + c, h - f>>
<1> DEFINE a == m[1]
           b == m[2]
           c == m[3]
           d == m[4]
           e == m[5]
           f == m[6]
           g == m[7]
           h == m[8]
           i == m[9]
<1>0. /\ a \in Int /\ b \in Int /\ c \in Int /\ d \in Int /\ e \in Int /\ f \in Int
      /\ g \in Int /\ h \in Int /\ i \in Int
  BY DEF Matrices
<1> USE <1>0
<1> DEFINE D(n) == Entry(m, n, n)
           Next3(n) == (n + 1) % 3
           first == IF D(1) > D(0) THEN 1 ELSE 0
           I == IF D(2) > D(first) THEN 2 ELSE first
           J == Next3(I)
           K == Next3(J)
           part(p, q, r) == [n \in {p, q, r} |->
                     CASE n = p -> D(p) - D(q) - D(r) + 1
                       [] n = q -> Entry(m, q, p) + Entry(m, p, q)
                       [] n = r -> Entry(m, r, p) + Entry(m, p, r)]
<1>1. /\ Entry(m, 0, 0) = a /\ Entry(m, 0, 1) = b /\ Entry(m, 0, 2) = c
      /\ Entry(m, 1, 0) = d /\ Entry(m, 1, 1) = e /\ Entry(m, 1, 2) = f
      /\ Entry(m, 2, 0) = g /\ Entry(m, 2, 1) = h /\ Entry(m, 2, 2) = i
  BY DEF Entry
<1>2. MatrixToQuaternion(m) =
        IF D(0) + D(1) + D(2) > 0
        THEN <<Entry(m, 2, 1) - Entry(m, 1, 2), Entry(m, 0, 2) - Entry(m, 2, 0),
               Entry(m, 1, 0) - Entry(m, 0, 1), D(0) + D(1) + D(2) + 1>>
        ELSE <<part(I, J, K)[0], part(I, J, K)[1], part(I, J, K)[2],
               Entry(m, K, J) - Entry(m, J, K)>>
  BY DEF MatrixToQuaternion
<1>3. I = IF i > (IF e > a THEN e ELSE a) THEN 2 ELSE IF e > a THEN 1 ELSE 0
  BY <1>1
<1>4. /\ part(0, 1, 2)[0] = a - e - i + 1 /\ part(0, 1, 2)[1] = d + b /\ part(0, 1, 2)[2] = g + c
      /\ part(1, 2, 0)[0] = b + d /\ part(1, 2, 0)[1] = e - i - a + 1 /\ part(1, 2, 0)[2] = h + f
      /\ part(2, 0, 1)[0] = c + g /\ part(2, 0, 1)[1] = f + h /\ part(2, 0, 1)[2] = i - a - e + 1
  BY <1>1
<1>5. Next3(0) = 1 /\ Next3(1) = 2 /\ Next3(2) = 0
  OBVIOUS
<1> HIDE DEF part, I, Next3
<1>6. CASE a + e + i > 0
  BY <1>1, <1>2, <1>6
<1>7. CASE ~(a + e + i > 0) /\ i > (IF e > a THEN e ELSE a)
  BY <1>1, <1>2, <1>3, <1>4, <1>5, <1>7
<1>8. CASE ~(a + e + i > 0) /\ ~(i > (IF e > a THEN e ELSE a)) /\ e > a
  BY <1>1, <1>2, <1>3, <1>4, <1>5, <1>8
<1>9. CASE ~(a + e + i > 0) /\ ~(i > (IF e > a THEN e ELSE a)) /\ ~(e > a)
  BY <1>1, <1>2, <1>3, <1>4, <1>5, <1>9
<1> QED
  BY <1>6, <1>7, <1>8, <1>9

\* How a quaternion turns the three unit vectors.
LEMMA TurnsEntries ==
  ASSUME NEW x \in Int, NEW y \in Int, NEW z \in Int, NEW w \in Int,
         NEW a \in Int, NEW b \in Int, NEW c \in Int, NEW d \in Int, NEW e \in Int, NEW f \in Int,
         NEW g \in Int, NEW h \in Int, NEW i \in Int, NEW n \in Int, NEW r \in Int,
         n = w * w + (x * x + y * y + z * z), r = w * w - (x * x + y * y + z * z), n # 0,
         r + 2 * x * x = n * a, 2 * (x * y - w * z) = n * b, 2 * (x * z + w * y) = n * c,
         2 * (x * y + w * z) = n * d, r + 2 * y * y = n * e, 2 * (y * z - w * x) = n * f,
         2 * (x * z - w * y) = n * g, 2 * (y * z + w * x) = n * h, r + 2 * z * z = n * i
  PROVE  TurnsAs(<<x, y, z, w>>, <<a, b, c, d, e, f, g, h, i>>)
<1> DEFINE m == <<a, b, c, d, e, f, g, h, i>>
           q == <<x, y, z, w>>
           Dot(s, t) == s[1] * t[1] + s[2] * t[2] + s[3] * t[3]
           axis == <<q[1], q[2], q[3]>>
<1>1. /\ Apply(m, <<1, 0, 0>>) = <<a, d, g>> /\ Apply(m, <<0, 1, 0>>) = <<b, e, h>>
      /\ Apply(m, <<0, 0, 1>>) = <<c, f, i>>
  BY ApplyEntries
<1>2. /\ CrossProduct(axis, <<1, 0, 0>>) = <<0, z, -y>>
      /\ CrossProduct(axis, <<0, 1, 0>>) = <<-z, 0, x>>
      /\ CrossProduct(axis, <<0, 0, 1>>) = <<y, -x, 0>>
  BY DEF CrossProduct
<1>3. /\ Dot(axis, <<1, 0, 0>>) = x /\ Dot(axis, <<0, 1, 0>>) = y /\ Dot(axis, <<0, 0, 1>>) = z
  OBVIOUS
<1>4. q[4] * q[4] - Dot(axis, axis) = r /\ q[4] * q[4] + Dot(axis, axis) = n
  OBVIOUS
<1>5. \A k \in 1..3 :
        /\ r * <<1, 0, 0>>[k] + 2 * x * axis[k] + 2 * w * <<0, z, -y>>[k] = n * <<a, d, g>>[k]
        /\ r * <<0, 1, 0>>[k] + 2 * y * axis[k] + 2 * w * <<-z, 0, x>>[k] = n * <<b, e, h>>[k]
        /\ r * <<0, 0, 1>>[k] + 2 * z * axis[k] + 2 * w * <<y, -x, 0>>[k] = n * <<c, f, i>>[k]
  <2>1. /\ r * 1 + 2 * x * x + 2 * w * 0 = n * a /\ r * 0 + 2 * x * y + 2 * w * z = n * d
        /\ r * 0 + 2 * x * z + 2 * w * (-y) = n * g
    OBVIOUS
  <2>2. /\ r * 0 + 2 * y * x + 2 * w * (-z) = n * b /\ r * 1 + 2 * y * y + 2 * w * 0 = n * e
        /\ r * 0 + 2 * y * z + 2 * w * x = n * h
    OBVIOUS
  <2>3. /\ r * 0 + 2 * z * x + 2 * w * y = n * c /\ r * 0 + 2 * z * y + 2 * w * (-x) = n * f
        /\ r * 1 + 2 * z * z + 2 * w * 0 = n * i
    OBVIOUS
  <2>4. \A k \in 1..3 : k = 1 \/ k = 2 \/ k = 3
    OBVIOUS
  <2>5. TAKE k \in 1..3
  <2>6. CASE k = 1
    BY <2>1, <2>2, <2>3, <2>6
  <2>7. CASE k = 2
    BY <2>1, <2>2, <2>3, <2>7
  <2>8. CASE k = 3
    BY <2>1, <2>2, <2>3, <2>8
  <2> QED
    BY <2>4, <2>6, <2>7, <2>8
<1>6. \A v \in {<<1, 0, 0>>, <<0, 1, 0>>, <<0, 0, 1>>} : \A k \in 1..3 :
        r * v[k] + 2 * Dot(axis, v) * axis[k] + 2 * q[4] * CrossProduct(axis, v)[k]
          = n * Apply(m, v)[k]
  <2>1. \A k \in 1..3 :
          r * <<1, 0, 0>>[k] + 2 * Dot(axis, <<1, 0, 0>>) * axis[k]
            + 2 * q[4] * CrossProduct(axis, <<1, 0, 0>>)[k] = n * Apply(m, <<1, 0, 0>>)[k]
    BY <1>1, <1>2, <1>3, <1>5
  <2>2. \A k \in 1..3 :
          r * <<0, 1, 0>>[k] + 2 * Dot(axis, <<0, 1, 0>>) * axis[k]
            + 2 * q[4] * CrossProduct(axis, <<0, 1, 0>>)[k] = n * Apply(m, <<0, 1, 0>>)[k]
    BY <1>1, <1>2, <1>3, <1>5
  <2>3. \A k \in 1..3 :
          r * <<0, 0, 1>>[k] + 2 * Dot(axis, <<0, 0, 1>>) * axis[k]
            + 2 * q[4] * CrossProduct(axis, <<0, 0, 1>>)[k] = n * Apply(m, <<0, 0, 1>>)[k]
    BY <1>1, <1>2, <1>3, <1>5
  <2> HIDE DEF Dot, axis, q, m
  <2> QED
    BY <2>1, <2>2, <2>3
<1> QED
  BY <1>4, <1>6 DEF TurnsAs

\* The quaternion of a rotation turns as it does, whichever branch computed it.
LEMMA QuaternionTurns ==
  ASSUME NEW m \in ProperRotations
  PROVE  /\ TurnsAs(MatrixToQuaternion(m), m)
         /\ \E x, y, z, w : MatrixToQuaternion(m) = <<x, y, z, w>>
<1>1. PICK a \in Int, b \in Int, c \in Int, d \in Int, e \in Int, f \in Int :
           /\ <<a, b, c>> \in Units /\ <<d, e, f>> \in Units /\ a * d = 0 /\ b * e = 0 /\ c * f = 0
           /\ m = <<a, b, c, d, e, f, b * f - c * e, c * d - a * f, a * e - b * d>>
  BY RotationEntries
<1>2. PICK g \in Int, h \in Int, i \in Int :
        g = b * f - c * e /\ h = c * d - a * f /\ i = a * e - b * d
  OBVIOUS
<1>3. m = <<a, b, c, d, e, f, g, h, i>> /\ m \in Matrices
  BY <1>1, <1>2 DEF ProperRotations
<1>9. /\ m[1] = a /\ m[2] = b /\ m[3] = c /\ m[4] = d /\ m[5] = e /\ m[6] = f
      /\ m[7] = g /\ m[8] = h /\ m[9] = i
  BY <1>3
<1> DEFINE Nine(x, y, z, w) ==
             LET n == w * w + (x * x + y * y + z * z)
                 r == w * w - (x * x + y * y + z * z)
             IN  /\ n # 0
                 /\ r + 2 * x * x = n * a
                 /\ 2 * (x * y - w * z) = n * b
                 /\ 2 * (x * z + w * y) = n * c
                 /\ 2 * (x * y + w * z) = n * d
                 /\ r + 2 * y * y = n * e
                 /\ 2 * (y * z - w * x) = n * f
                 /\ 2 * (x * z - w * y) = n * g
                 /\ 2 * (y * z + w * x) = n * h
                 /\ r + 2 * z * z = n * i
<1>4. PICK x \in Int, y \in Int, z \in Int, w \in Int :
        MatrixToQuaternion(m) = <<x, y, z, w>> /\ Nine(x, y, z, w)
  <2>1. CASE a + e + i > 0
    <3>1. MatrixToQuaternion(m) = <<h - f, c - g, d - b, a + e + i + 1>>
      BY <1>3, <2>1, <1>9, QuaternionEntries
    <3>2. Nine(h - f, c - g, d - b, a + e + i + 1)
      BY <1>1, <1>2, <2>1, SMTT(90) DEF Units
    <3> HIDE DEF Nine
    <3> QED
      BY <3>1, <3>2
  <2>2. CASE ~(a + e + i > 0) /\ i > (IF e > a THEN e ELSE a)
    <3>1. MatrixToQuaternion(m) = <<c + g, f + h, i - a - e + 1, d - b>>
      BY <1>3, <2>2, <1>9, QuaternionEntries
    <3>2. Nine(c + g, f + h, i - a - e + 1, d - b)
      BY <1>1, <1>2, <2>2, SMTT(90) DEF Units
    <3> HIDE DEF Nine
    <3> QED
      BY <3>1, <3>2
  <2>3. CASE ~(a + e + i > 0) /\ ~(i > (IF e > a THEN e ELSE a)) /\ e > a
    <3>1. MatrixToQuaternion(m) = <<b + d, e - i - a + 1, h + f, c - g>>
      BY <1>3, <2>3, <1>9, QuaternionEntries
    <3>2. Nine(b + d, e - i - a + 1, h + f, c - g)
      BY <1>1, <1>2, <2>3, SMTT(90) DEF Units
    <3> HIDE DEF Nine
    <3> QED
      BY <3>1, <3>2
  <2>4. CASE ~(a + e + i > 0) /\ ~(i > (IF e > a THEN e ELSE a)) /\ ~(e > a)
    <3>1. MatrixToQuaternion(m) = <<a - e - i + 1, d + b, g + c, h - f>>
      BY <1>3, <2>4, <1>9, QuaternionEntries
    <3>2. Nine(a - e - i + 1, d + b, g + c, h - f)
      BY <1>1, <1>2, <2>4, SMTT(90) DEF Units
    <3> HIDE DEF Nine
    <3> QED
      BY <3>1, <3>2
  <2> QED
    BY <2>1, <2>2, <2>3, <2>4
<1>5. PICK n \in Int, r \in Int :
        n = w * w + (x * x + y * y + z * z) /\ r = w * w - (x * x + y * y + z * z)
  OBVIOUS
<1>6. TurnsAs(<<x, y, z, w>>, <<a, b, c, d, e, f, g, h, i>>)
  BY <1>4, <1>5, TurnsEntries
<1> QED
  BY <1>3, <1>4, <1>6

\* The direction of a unit vector of the plane is the cosine and the sine of its quarter turns,
\* and turning back is turning three times as much.
LEMMA QuarterOf ==
  ASSUME NEW y \in {-1, 0, 1}, NEW x \in {-1, 0, 1}, y * y + x * x = 1
  PROVE  /\ QuarterTurns(y, x) \in 0..3
         /\ Cosine(QuarterTurns(y, x)) = x /\ Sine(QuarterTurns(y, x)) = y
         /\ (4 - QuarterTurns(y, x)) % 4 \in 0..3
         /\ Cosine((4 - QuarterTurns(y, x)) % 4) = x
         /\ Sine((4 - QuarterTurns(y, x)) % 4) = -y
<1> DEFINE t == QuarterTurns(y, x)
<1>1. CASE y = 0 /\ x = 1
  <2>1. t = 0
    BY <1>1 DEF QuarterTurns
  <2> QED
    BY <1>1, <2>1 DEF Cosine, Sine
<1>2. CASE y = 1 /\ x = 0
  <2>1. t = 1
    BY <1>2 DEF QuarterTurns
  <2> QED
    BY <1>2, <2>1 DEF Cosine, Sine
<1>3. CASE y = 0 /\ x = -1
  <2>1. t = 2
    BY <1>3 DEF QuarterTurns
  <2> QED
    BY <1>3, <2>1 DEF Cosine, Sine
<1>4. CASE y = -1 /\ x = 0
  <2>1. t = 3
    BY <1>4 DEF QuarterTurns
  <2> QED
    BY <1>4, <2>1 DEF Cosine, Sine
<1> QED
  BY <1>1, <1>2, <1>3, <1>4

\* What three turns about the axes come to.
LEMMA TurnsFactor ==
  ASSUME NEW s, NEW t, NEW u,
         Cosine(s) \in Int, Cosine(t) \in Int, Cosine(u) \in Int,
         Sine(s) \in Int, Sine(t) \in Int, Sine(u) \in Int
  PROVE  Product(Product(AboutX(s), AboutY(t)), AboutZ(u)) =
           <<Cosine(t) * Cosine(u), -(Cosine(t) * Sine(u)), Sine(t),
             (Sine(s) * Sine(t)) * Cosine(u) + Cosine(s) * Sine(u),
             Cosine(s) * Cosine(u) - (Sine(s) * Sine(t)) * Sine(u), -(Sine(s) * Cosine(t)),
             Sine(s) * Sine(u) - (Cosine(s) * Sine(t)) * Cosine(u),
             (Cosine(s) * Sine(t)) * Sine(u) + Sine(s) * Cosine(u), Cosine(s) * Cosine(t)>>
<1> DEFINE cs == Cosine(s)
           ct == Cosine(t)
           cu == Cosine(u)
           ss == Sine(s)
           st == Sine(t)
           su == Sine(u)
<1>1. /\ AboutX(s) = <<1, 0, 0, 0, cs, -ss, 0, ss, cs>>
      /\ AboutY(t) = <<ct, 0, st, 0, 1, 0, -st, 0, ct>>
      /\ AboutZ(u) = <<cu, -su, 0, su, cu, 0, 0, 0, 1>>
  BY DEF AboutX, AboutY, AboutZ
<1>2. Product(AboutX(s), AboutY(t)) =
        <<ct, 0, st, ss * st, cs, -(ss * ct), -(cs * st), ss, cs * ct>>
  <2>1. Product(AboutX(s), AboutY(t)) =
          <<1 * ct + 0 * 0 + 0 * (-st), 1 * 0 + 0 * 1 + 0 * 0, 1 * st + 0 * 0 + 0 * ct,
            0 * ct + cs * 0 + (-ss) * (-st), 0 * 0 + cs * 1 + (-ss) * 0,
            0 * st + cs * 0 + (-ss) * ct,
            0 * ct + ss * 0 + cs * (-st), 0 * 0 + ss * 1 + cs * 0, 0 * st + ss * 0 + cs * ct>>
    BY <1>1, ProductEntries
  <2> QED
    BY <2>1
<1> DEFINE xy == <<ct, 0, st, ss * st, cs, -(ss * ct), -(cs * st), ss, cs * ct>>
<1>3. Product(xy, AboutZ(u)) =
        <<ct * cu + 0 * su + st * 0, ct * (-su) + 0 * cu + st * 0, ct * 0 + 0 * 0 + st * 1,
          (ss * st) * cu + cs * su + (-(ss * ct)) * 0,
          (ss * st) * (-su) + cs * cu + (-(ss * ct)) * 0,
          (ss * st) * 0 + cs * 0 + (-(ss * ct)) * 1,
          (-(cs * st)) * cu + ss * su + (cs * ct) * 0,
          (-(cs * st)) * (-su) + ss * cu + (cs * ct) * 0,
          (-(cs * st)) * 0 + ss * 0 + (cs * ct) * 1>>
  BY <1>1, ProductEntries
<1> QED
  BY <1>2, <1>3

\* The Euler angles of a rotation are turns that make it up.
LEMMA EulerTurns ==
  ASSUME NEW m \in ProperRotations
  PROVE  LET e == MatrixToEulerXYZ(m)
         IN  m = Product(Product(AboutX(e[1]), AboutY(e[2])), AboutZ(e[3]))
<1>1. PICK a \in Int, b \in Int, c \in Int, d \in Int, e \in Int, f \in Int :
           /\ <<a, b, c>> \in Units /\ <<d, e, f>> \in Units /\ a * d = 0 /\ b * e = 0 /\ c * f = 0
           /\ m = <<a, b, c, d, e, f, b * f - c * e, c * d - a * f, a * e - b * d>>
  BY RotationEntries
<1>2. PICK g \in Int, h \in Int, i \in Int :
        g = b * f - c * e /\ h = c * d - a * f /\ i = a * e - b * d
  OBVIOUS
<1>3. m = <<a, b, c, d, e, f, g, h, i>>
  BY <1>1, <1>2
<1>4. /\ Entry(m, 0, 2) = c /\ Entry(m, 1, 2) = f /\ Entry(m, 2, 2) = i /\ Entry(m, 0, 1) = b
      /\ Entry(m, 0, 0) = a /\ Entry(m, 1, 0) = d /\ Entry(m, 2, 0) = g
  BY <1>3 DEF Entry
<1>5. /\ a \in {-1, 0, 1} /\ b \in {-1, 0, 1} /\ c \in {-1, 0, 1} /\ d \in {-1, 0, 1}
      /\ e \in {-1, 0, 1} /\ f \in {-1, 0, 1} /\ g \in {-1, 0, 1} /\ h \in {-1, 0, 1}
      /\ i \in {-1, 0, 1}
  BY <1>1, <1>2 DEF Units
<1>6. Cosine(0) = 1 /\ Sine(0) = 0 /\ Cosine(1) = 0 /\ Sine(1) = 1 /\ Cosine(3) = 0 /\ Sine(3) = -1
  BY DEF Cosine, Sine
<1>7. CASE c = 0
  <2> DEFINE s == QuarterTurns(-f, i)
             u == QuarterTurns(-b, a)
  <2>1. MatrixToEulerXYZ(m) = <<s, 0, u>>
    BY <1>4, <1>7 DEF MatrixToEulerXYZ
  <2>2. (-f) * (-f) + i * i = 1 /\ (-b) * (-b) + a * a = 1 /\ -f \in {-1, 0, 1} /\ -b \in {-1, 0, 1}
    BY <1>1, <1>2, <1>5, <1>7 DEF Units
  <2>3. /\ s \in 0..3 /\ Cosine(s) = i /\ Sine(s) = -f
        /\ u \in 0..3 /\ Cosine(u) = a /\ Sine(u) = -b
    BY <1>5, <2>2, QuarterOf
  <2> HIDE DEF s, u
  <2>4. Product(Product(AboutX(s), AboutY(0)), AboutZ(u)) =
          <<1 * a, -(1 * (-b)), 0, ((-f) * 0) * a + i * (-b), i * a - ((-f) * 0) * (-b),
            -((-f) * 1),
            (-f) * (-b) - (i * 0) * a, (i * 0) * (-b) + (-f) * a, i * 1>>
    BY <1>6, <2>3, TurnsFactor
  <2>5. i * (-b) = d /\ i * a = e /\ f * b = g /\ -(f * a) = h
    BY <1>1, <1>2, <1>5, <1>7 DEF Units
  <2> QED
    BY <1>3, <1>5, <1>7, <2>1, <2>4, <2>5
<1>8. CASE c = 1
  <2> DEFINE q == QuarterTurns(-d, -g)
             s == (4 - q) % 4
  <2>1. MatrixToEulerXYZ(m) = <<s, 1, 0>>
    BY <1>4, <1>8 DEF MatrixToEulerXYZ
  <2>2. (-d) * (-d) + (-g) * (-g) = 1 /\ -d \in {-1, 0, 1} /\ -g \in {-1, 0, 1}
    BY <1>1, <1>2, <1>5, <1>8 DEF Units
  <2>3. s \in 0..3 /\ Cosine(s) = -g /\ Sine(s) = d
    BY <1>5, <2>2, QuarterOf
  <2> HIDE DEF q, s
  <2>4. Product(Product(AboutX(s), AboutY(1)), AboutZ(0)) =
          <<0 * 1, -(0 * 0), 1, (d * 1) * 1 + (-g) * 0, (-g) * 1 - (d * 1) * 0, -(d * 0),
            d * 0 - ((-g) * 1) * 1, ((-g) * 1) * 0 + d * 1, (-g) * 0>>
    BY <1>5, <1>6, <2>3, TurnsFactor
  <2>5. a = 0 /\ b = 0 /\ f = 0 /\ e = -g /\ h = d /\ i = 0
    BY <1>1, <1>2, <1>5, <1>8 DEF Units
  <2> QED
    BY <1>3, <1>5, <1>8, <2>1, <2>4, <2>5
<1>9. CASE c = -1
  <2> DEFINE q == QuarterTurns(d, g)
             s == (4 - q) % 4
  <2>1. MatrixToEulerXYZ(m) = <<s, 3, 0>>
    BY <1>4, <1>9 DEF MatrixToEulerXYZ
  <2>2. d * d + g * g = 1
    BY <1>1, <1>2, <1>5, <1>9 DEF Units
  <2>3. s \in 0..3 /\ Cosine(s) = g /\ Sine(s) = -d
    BY <1>5, <2>2, QuarterOf
  <2> HIDE DEF q, s
  <2>4. Product(Product(AboutX(s), AboutY(3)), AboutZ(0)) =
          <<0 * 1, -(0 * 0), -1, ((-d) * (-1)) * 1 + g * 0, g * 1 - ((-d) * (-1)) * 0, -((-d) * 0),
            (-d) * 0 - (g * (-1)) * 1, (g * (-1)) * 0 + (-d) * 1, g * 0>>
    BY <1>5, <1>6, <2>3, TurnsFactor
  <2>5. a = 0 /\ b = 0 /\ f = 0 /\ e = g /\ h = -d /\ i = 0
    BY <1>1, <1>2, <1>5, <1>9 DEF Units
  <2> QED
    BY <1>3, <1>5, <1>9, <2>1, <2>4, <2>5
<1> QED
  BY <1>5, <1>7, <1>8, <1>9

\* The other forms of a rotation describe it.
LEMMA RotationCoherent ==
  ASSUME NEW m \in ProperRotations
  PROVE  Coherent(Forms(m, MatrixToQuaternion(m), MatrixToHelical(m), MatrixToEulerXYZ(m)))
<1> DEFINE q == MatrixToQuaternion(m)
           h == MatrixToHelical(m)
<1>1. PICK x, y, z, w : q = <<x, y, z, w>>
  BY QuaternionTurns
<1>2. h[1] = <<x, w>> /\ h[2] = <<y, w>> /\ h[3] = <<z, w>>
  BY <1>1 DEF MatrixToHelical, QuaternionToHelical
<1>3. <<h[1][1], h[2][1], h[3][1], h[1][2]>> = q
  BY <1>1, <1>2
<1> HIDE DEF q, h
<1>4. TurnsAs(q, m) /\ TurnsAs(<<h[1][1], h[2][1], h[3][1], h[1][2]>>, m)
  BY <1>3, QuaternionTurns DEF q
<1> QED
  BY <1>4, EulerTurns DEF Coherent, Forms, q, h

\* The forms of a segment's rotation in the world.
LEMMA GlobalCoherent ==
  ASSUME FrameSound, NEW s, NEW forms \in GlobalForms(client, s)
  PROVE  Coherent(forms)
<1> DEFINE c == client
           matrix(g) == GetSegmentGlobalRotationMatrix(c, s, g)
<1>1. PICK g : /\ Seen(matrix(g))
               /\ forms = Forms(matrix(g).v.v,
                                GetSegmentGlobalRotationQuaternion(c, s, g).v.v,
                                GetSegmentGlobalRotationHelical(c, s, g).v.v,
                                GetSegmentGlobalRotationEulerXYZ(c, s, g).v.v)
  BY DEF GlobalForms
<1>2. /\ GetSegmentGlobalRotationQuaternion(c, s, g) = Visible(MatrixToQuaternion(matrix(g).v.v))
      /\ GetSegmentGlobalRotationHelical(c, s, g) = Visible(MatrixToHelical(matrix(g).v.v))
      /\ GetSegmentGlobalRotationEulerXYZ(c, s, g) = Visible(MatrixToEulerXYZ(matrix(g).v.v))
  BY <1>1 DEF GetSegmentGlobalRotationQuaternion, GetSegmentGlobalRotationHelical,
              GetSegmentGlobalRotationEulerXYZ, Converted, Then, Seen, Succeeds
<1>3. \A v : Visible(v).v.v = v
  BY DEF Visible, Answer
<1>4. forms = Forms(matrix(g).v.v, MatrixToQuaternion(matrix(g).v.v),
                    MatrixToHelical(matrix(g).v.v), MatrixToEulerXYZ(matrix(g).v.v))
  BY <1>1, <1>2, <1>3
<1>5. matrix(g).v.v \in ProperRotations
  <2> DEFINE ids == GetSubjectAndSegmentID(c, s, g)
             pose == SegmentPose(c.frame, "GlobalSegments", ids.v)
  <2>1. Succeeds(ids)
    BY <1>1, PoseRefused DEF GetSegmentGlobalRotationMatrix
  <2>2. Succeeds(pose) /\ matrix(g).v.v = TransformR(c, pose.v.Rotation)
    BY <1>1, <2>1, PoseGotten DEF GetSegmentGlobalRotationMatrix
  <2>3. PICK i, j : Named(c, s, g, i, j)
    BY <2>1, IDsNamed
  <2> DEFINE info == c.frame.SubjectInfo[i]
  <2>4. /\ info \in Listed(c.frame.SubjectInfo) /\ info.Segments[j] \in Listed(info.Segments)
        /\ ids.v = [subject |-> info.SubjectID, segment |-> info.Segments[j].SegmentID]
    BY <2>3, Answers DEF Named, Listed
  <2>5. Rigid(pose.v)
    <3> HIDE DEF info
    <3>1. pose = SegmentPose(client.frame, "GlobalSegments",
                   [subject |-> info.SubjectID, segment |-> info.Segments[j].SegmentID])
      BY <2>4
    <3> HIDE DEF pose
    <3> QED
      BY <2>2, <2>4, <3>1 DEF FrameSound, Posed
  <2> QED
    BY <2>2, <2>5, TransformedRotation DEF Rigid, FrameSound
<1> QED
  BY <1>4, <1>5, RotationCoherent

\* The forms of a segment's rotation in the topology.
LEMMA StaticCoherent ==
  ASSUME FrameSound, NEW s, NEW forms \in StaticForms(client, s)
  PROVE  Coherent(forms)
<1> DEFINE c == client
           matrix(g) == GetSegmentStaticRotationMatrix(c, s, g)
<1>1. PICK g : /\ Succeeds(matrix(g))
               /\ forms = Forms(matrix(g).v, GetSegmentStaticRotationQuaternion(c, s, g).v,
                                GetSegmentStaticRotationHelical(c, s, g).v,
                                GetSegmentStaticRotationEulerXYZ(c, s, g).v)
  BY DEF StaticForms
<1>2. forms = Forms(matrix(g).v, MatrixToQuaternion(matrix(g).v),
                    MatrixToHelical(matrix(g).v), MatrixToEulerXYZ(matrix(g).v))
  <2>1. /\ GetSegmentStaticRotationQuaternion(c, s, g) = Answer(MatrixToQuaternion(matrix(g).v))
        /\ GetSegmentStaticRotationHelical(c, s, g) = Answer(MatrixToHelical(matrix(g).v))
        /\ GetSegmentStaticRotationEulerXYZ(c, s, g) = Answer(MatrixToEulerXYZ(matrix(g).v))
    BY <1>1 DEF GetSegmentStaticRotationQuaternion, GetSegmentStaticRotationHelical,
                GetSegmentStaticRotationEulerXYZ, Then, Succeeds
  <2> QED
    BY <1>1, <2>1, Answers
<1>3. matrix(g).v \in ProperRotations
  <2> DEFINE ids == GetSubjectAndSegmentID(c, s, g)
             top == FirstWith(c.frame["SubjectTopology"], "SubjectID", ids.v.subject,
                              "InvalidSubjectName")
             own == FirstWith(top.v.Segments, "SegmentID", ids.v.segment, "Unknown")
  <2>1. matrix(g) = IF ~Succeeds(ids) THEN ids ELSE IF ~Succeeds(top) THEN top
                    ELSE IF ~Succeeds(own) THEN own ELSE Answer(TransformR(c, own.v.Rotation))
    BY DEF GetSegmentStaticRotationMatrix, StaticSegment, GetSubjectTopology, SubjectWithID,
           Then, Succeeds
  <2>2. Succeeds(top) /\ Succeeds(own) /\ matrix(g) = Answer(TransformR(c, own.v.Rotation))
    BY <1>1, <2>1
  <2>3. PICK i \in 1..Len(c.frame.SubjectTopology) : top.v = c.frame.SubjectTopology[i]
    BY <2>2, OneFound
  <2>4. PICK j \in 1..Len(top.v.Segments) : own.v = top.v.Segments[j]
    <3> HIDE DEF top
    <3> QED
      BY <2>2, OneFound
  <2>5. top.v \in Listed(c.frame.SubjectTopology) /\ own.v \in Listed(top.v.Segments)
    BY <2>3, <2>4 DEF Listed
  <2>6. Rigid(own.v)
    <3> HIDE DEF top, own
    <3> QED
      BY <2>5 DEF FrameSound, Posed
  <2> QED
    BY <2>2, <2>6, Answers, TransformedRotation DEF Rigid, FrameSound
<1> QED
  BY <1>2, <1>3, RotationCoherent

\* The forms of a camera's rotation.
LEMMA CameraCoherent ==
  ASSUME FrameSound, NEW forms \in CameraForms(client)
  PROVE  Coherent(forms)
<1> DEFINE c == client
           matrix(m) == GetCameraGlobalRotationMatrix(c, m)
<1>1. PICK m : /\ Succeeds(matrix(m))
               /\ forms = Forms(matrix(m).v, GetCameraGlobalRotationQuaternion(c, m).v,
                                GetCameraGlobalRotationHelical(c, m).v,
                                GetCameraGlobalRotationEulerXYZ(c, m).v)
  BY DEF CameraForms
<1>2. forms = Forms(matrix(m).v, MatrixToQuaternion(matrix(m).v),
                    MatrixToHelical(matrix(m).v), MatrixToEulerXYZ(matrix(m).v))
  <2>1. /\ GetCameraGlobalRotationQuaternion(c, m) = Answer(MatrixToQuaternion(matrix(m).v))
        /\ GetCameraGlobalRotationHelical(c, m) = Answer(MatrixToHelical(matrix(m).v))
        /\ GetCameraGlobalRotationEulerXYZ(c, m) = Answer(MatrixToEulerXYZ(matrix(m).v))
    BY <1>1 DEF GetCameraGlobalRotationQuaternion, GetCameraGlobalRotationHelical,
                GetCameraGlobalRotationEulerXYZ, Then, Succeeds
  <2> QED
    BY <1>1, <2>1, Answers
<1>3. matrix(m).v \in ProperRotations
  <2> DEFINE camera == GetCamera(c, m)
             at(type) == FirstWith(InitGet(c).v[type], "CameraID", camera.v.CameraID, "NotPresent")
             static == at("CameraCalibrationInfo")
             dynamic == at("DynamicCameraCalibrationInfo")
             pose == IF Succeeds(static) THEN static ELSE dynamic
  <2>1. matrix(m) = IF ~Succeeds(InitGet(c)) THEN InitGet(c) ELSE IF ~Succeeds(camera) THEN camera
                    ELSE IF ~Succeeds(pose) THEN pose
                    ELSE Answer(TransformR(c, pose.v.PoseRotation))
    BY DEF GetCameraGlobalRotationMatrix, Calibration, OfCameraNamed, GetCameraCalibrationInfo,
           OfCameraID, OrElse, Then, Succeeds
  <2>2. /\ Succeeds(pose) /\ Succeeds(InitGet(c))
        /\ matrix(m) = Answer(TransformR(c, pose.v.PoseRotation))
    BY <1>1, <2>1
  <2>3. InitGet(c).v = c.frame
    BY <2>2, FrameGotten
  <2>4. pose.v \in Listed(c.frame.CameraCalibrationInfo)
                     \cup Listed(c.frame.DynamicCameraCalibrationInfo)
    <3>1. CASE Succeeds(static)
      <4>1. PICK i \in 1..Len(c.frame.CameraCalibrationInfo) :
              static.v = c.frame.CameraCalibrationInfo[i]
        BY <2>3, <3>1, OneFound
      <4> QED
        BY <3>1, <4>1 DEF Listed
    <3>2. CASE ~Succeeds(static)
      <4>1. PICK i \in 1..Len(c.frame.DynamicCameraCalibrationInfo) :
              dynamic.v = c.frame.DynamicCameraCalibrationInfo[i]
        BY <2>2, <2>3, <3>2, OneFound
      <4> QED
        BY <3>2, <4>1 DEF Listed
    <3> QED
      BY <3>1, <3>2
  <2>5. pose.v.PoseRotation \in ProperRotations
    <3> HIDE DEF pose
    <3> QED
      BY <2>4 DEF FrameSound, Posed
  <2> QED
    BY <2>2, <2>5, Answers, TransformedRotation DEF FrameSound
<1> QED
  BY <1>2, <1>3, RotationCoherent

\* Rotations are described.  Of rigid frames, in whatever axes the client accepted, the
\* quaternion, the helical angle and the Euler angles that VClient answers for a segment
\* or a camera are of the rotation whose matrix it answers.
THEOREM RotationsCohere == FrameSound => RotationsDescribed
  BY GlobalCoherent, StaticCoherent, CameraCoherent DEF RotationsDescribed
==============================================================================
