---------------------------- MODULE RetimingCore ----------------------------
(***************************************************************************)
(* VRetimingCore: what the retiming client knows of each subject and what  *)
(* it predicts from it.  The last two poses in which no segment was        *)
(* occluded are kept, with the time they were received; a pose for another *)
(* time lies on the line through them.                                     *)
(*                                                                         *)
(* A translation is one number, as each of its three is treated alike, and *)
(* a rotation is an angle about one axis, FullTurn units being a full      *)
(* turn.  The numbers of a pose are those named here divided by its        *)
(* "over", so that predictions are exact.  The names, the static pose and  *)
(* the scale of a segment do not change: kept is only how far a segment    *)
(* was read.                                                               *)
(***************************************************************************)
EXTENDS Integers, Sequences, FiniteSets

CONSTANTS
    SubjectNames,    \* the names of the subjects there may be, in the order of a std::map
    SegmentNames,    \* of each subject the names of its segments, parents first
    SegmentParents,  \* of each subject the names of its segments' parents
    NoName,          \* the empty name: of a root's parent, and of what could not be read
    MaxPrediction,   \* m_MaxPredictionTime
    FullTurn

ASSUME RetimingConstants ==
    /\ MaxPrediction \in Nat /\ FullTurn \in Nat \ {0}
    /\ SubjectNames \in Seq(DOMAIN SegmentNames)
    /\ \A i, j \in DOMAIN SubjectNames : SubjectNames[i] = SubjectNames[j] => i = j
    /\ \A s \in DOMAIN SegmentNames :
         SegmentNames[s] \in Seq({SegmentNames[s][i] : i \in DOMAIN SegmentNames[s]})
    /\ NoName \notin DOMAIN SegmentNames
    /\ \A s \in DOMAIN SegmentNames : \A i \in DOMAIN SegmentNames[s] : SegmentNames[s][i] # NoName
    /\ \A s \in DOMAIN SegmentNames : \A i \in DOMAIN SegmentNames[s] :
         \/ SegmentParents[s][SegmentNames[s][i]] = NoName
         \/ \E j \in 1..(i - 1) : SegmentParents[s][SegmentNames[s][i]] = SegmentNames[s][j]

Subjects == {SubjectNames[i] : i \in DOMAIN SubjectNames}
Segments(s) == {SegmentNames[s][i] : i \in DOMAIN SegmentNames[s]}
\* The keys of m_Data: poses that were read without a name have the empty one.
DataNames == Subjects \cup {NoName}
BufSize == 2

\* The names of a sequence that are in S, in its order.
Within(names, S) ==
    LET kept == {k \in DOMAIN names : names[k] \in S}
    IN  [i \in 1..Cardinality(kept) |->
           names[CHOOSE k \in kept : Cardinality({j \in kept : j <= k}) = i]]

\* A null pointer, and a pose that holds a result only.
NoPose == [result |-> "ENoData"]
Failed(result) == [result |-> result]

------------------------------------------------------------------------------
(* Prediction                                                                 *)

\* A value at t of the line through d1 at t1 and d2 at t2; to be divided by t2 - t1.
PredictVal(d1, t1, d2, t2, t) == d1 * (t2 - t1) + (d2 - d1) * (t - t1)

\* The rotation from r1 to r2, the shorter way.
AngleBetween(r1, r2) ==
    LET angle == (r2 - r1) % FullTurn
    IN  IF 2 * angle > FullTurn THEN angle - FullTurn ELSE angle

\* Mutant of PredictRotation: the rotation goes on by the whole angle.
PredictRotationLong(r1, t1, r2, t2, t) ==
    (r1 * (t2 - t1) + ((r2 - r1) % FullTurn) * (t - t1)) % (FullTurn * (t2 - t1))

\* The rotation at t, as PredictVal does it, modulo a full turn.
PredictRotation(r1, t1, r2, t2, t) ==
    (r1 * (t2 - t1) + AngleBetween(r1, r2) * (t - t1)) % (FullTurn * (t2 - t1))

PredictResult(t1, t2, t) ==
    IF t2 < t1 THEN "EInvalid"
    ELSE IF t < t1 THEN "EEarly"
    ELSE IF t - t2 > MaxPrediction THEN "ELate"
    ELSE "ESuccess"

\* Mutant of Predict: a segment's place below its parent is predicted from its global one.
PredictRelFromGlobal(p1, p2, t) ==
    LET t1 == p1.receipt
        t2 == p2.receipt
        Along(d1, d2) == PredictVal(d1, t1, d2, t2, t)
        About(r1, r2) == PredictRotation(r1, t1, r2, t2, t)
    IN  IF PredictResult(t1, t2, t) # "ESuccess" THEN Failed(PredictResult(t1, t2, t))
        ELSE [result   |-> "ESuccess",
              receipt  |-> t,
              over     |-> t2 - t1,
              frame    |-> Along(p1.frame, p2.frame),
              segments |->
                [g \in DOMAIN p1.segments \cap DOMAIN p2.segments |->
                   LET s1 == p1.segments[g]
                       s2 == p2.segments[g]
                   IN  [T        |-> Along(s1.T, s2.T),
                        R        |-> About(s1.R, s2.R),
                        T_Rel    |-> Along(s1.T, s2.T_Rel),
                        R_Rel    |-> About(s1.R_Rel, s2.R_Rel),
                        whole    |-> s1.whole /\ s2.whole,
                        occluded |-> s1.occluded \/ s2.occluded]]]

Predict(p1, p2, t) ==
    LET t1 == p1.receipt
        t2 == p2.receipt
        Along(d1, d2) == PredictVal(d1, t1, d2, t2, t)
        About(r1, r2) == PredictRotation(r1, t1, r2, t2, t)
    IN  IF PredictResult(t1, t2, t) # "ESuccess" THEN Failed(PredictResult(t1, t2, t))
        ELSE [result   |-> "ESuccess",
              receipt  |-> t,
              over     |-> t2 - t1,
              frame    |-> Along(p1.frame, p2.frame),
              segments |->
                [g \in DOMAIN p1.segments \cap DOMAIN p2.segments |->
                   LET s1 == p1.segments[g]
                       s2 == p2.segments[g]
                   IN  [T        |-> Along(s1.T, s2.T),
                        R        |-> About(s1.R, s2.R),
                        T_Rel    |-> Along(s1.T_Rel, s2.T_Rel),
                        R_Rel    |-> About(s1.R_Rel, s2.R_Rel),
                        whole    |-> s1.whole /\ s2.whole,
                        occluded |-> s1.occluded \/ s2.occluded]]]

------------------------------------------------------------------------------
(* m_Data is the kept poses of each name, none where it has no entry;         *)
(* m_LatestOutputPoses the predicted pose of each name that has one.          *)

KeepLast(poses) == IF Len(poses) > BufSize THEN Tail(poses) ELSE poses

\* Mutant of AddData: poses with an occluded segment are kept, too.
AddDataOccluded(data, poses, again) ==
    [s \in DataNames |->
       IF s \notin DOMAIN poses THEN data[s]
       ELSE IF s \in again THEN <<poses[s], poses[s]>>
       ELSE KeepLast(Append(data[s], poses[s]))]

\* A pose with an occluded segment is left out. Of the names in "again" there are more poses
\* than one, all alike: they are all that is kept then.
AddData(data, poses, again) ==
    [s \in DataNames |->
       IF \/ s \notin DOMAIN poses
          \/ \E g \in DOMAIN poses[s].segments : poses[s].segments[g].occluded
       THEN data[s]
       ELSE IF s \in again THEN <<poses[s], poses[s]>>
       ELSE KeepLast(Append(data[s], poses[s]))]

Entries(data) == {s \in DataNames : data[s] # << >>}

OutputPoses(data, t) ==
    [s \in Entries(data) |->
       IF Len(data[s]) >= 2 THEN Predict(Head(data[s]), data[s][Len(data[s])], t) ELSE NoPose]

\* UpdateFrameAtTime succeeds if a prediction did, of any name.
UpdateResult(output) ==
    IF \E s \in DOMAIN output : output[s].result = "ESuccess" THEN "ESuccess" ELSE "ENoData"

HasData(data) == \E s \in DataNames : data[s] # << >>

\* The names in the order in which GetSubjectName counts them: the empty one first.
OutputNames(output) == Within(<<NoName>> \o SubjectNames, DOMAIN output)

\* Mutant of GetSubject: the pose received last is taken for the predicted one.
GetSubjectReceived(data, output, s) ==
    IF s \in DOMAIN output THEN data[s][Len(data[s])] ELSE Failed("EUnknownSubject")

GetSubject(data, output, s) ==
    IF s \in DOMAIN output THEN output[s] ELSE Failed("EUnknownSubject")

GetSubjectStatic(data, s) ==
    IF data[s] # << >> THEN data[s][Len(data[s])] ELSE Failed("EUnknownSubject")
==============================================================================
