-------------------------- MODULE RetimingGetters --------------------------
(***************************************************************************)
(* VRetimingClient's getters.  What a subject is made of, and its static   *)
(* pose, come from the pose received last, which the input thread may      *)
(* replace between two calls; how many subjects there are, and where their *)
(* segments are, from the poses predicted last.                            *)
(*                                                                         *)
(* A rotation is kept as its angle, in the units of RetimingCore.  A       *)
(* quaternion and a matrix have no more to say than the angle modulo a     *)
(* full turn; a helical angle and Euler angles are a number.               *)
(***************************************************************************)
EXTENDS RetimingClient

Answer(value) == [result |-> "Success", v |-> value]
Refuse(result) == [result |-> result]

\* A result of the retimer, as the client's callers know it.
Adapt(result) ==
    CASE result = "ESuccess"        -> "Success"
      [] result = "ENoData"         -> "NoFrame"
      [] result = "ENotConnected"   -> "NotConnected"
      [] result = "EUnknownSubject" -> "InvalidSubjectName"
      [] result = "EEarly"          -> "EarlyDataRequested"
      [] result = "ELate"           -> "LateDataRequested"
      [] result = "EInvalid"        -> "InvalidOperation"
      [] OTHER                      -> "Unknown"

InitGet ==
    IF ~connected THEN "NotConnected" ELSE IF ~HasData(data) THEN "NoFrame" ELSE "Success"

------------------------------------------------------------------------------
(* What there is. These getters answer without a connection, too.             *)

GetSubjectCount ==
    IF HasData(data) THEN Answer(Cardinality(DOMAIN output)) ELSE Refuse(Adapt("ENoData"))
GetSubjectName(i) ==
    IF i < Len(OutputNames(output)) THEN Answer(OutputNames(output)[i + 1])
    ELSE Refuse(Adapt("EUnknownSubject"))

\* The pose of a subject received last.
Static(s, K(_)) ==
    LET pose == GetSubjectStatic(data, s)
    IN  IF pose.result = "ESuccess" THEN K(pose) ELSE Refuse(Adapt(pose.result))
StaticSegment(s, g, K(_)) ==
    Static(s, LAMBDA pose : IF g \in DOMAIN pose.segments THEN K(pose.segments[g])
                            ELSE Refuse("InvalidSegmentName"))
Indexed(names, i) == IF i < Len(names) THEN Answer(names[i + 1]) ELSE Refuse("InvalidIndex")

\* The children that the segment was read with.
ChildrenOf(s, g, segment) ==
    IF segment.read < Children THEN << >>
    ELSE Within(SegmentNames[s], {h \in Segments(s) : Above(s, h) = g})

GetSubjectRootSegmentName(s) ==
    Static(s, LAMBDA pose : Answer(pose.root))
GetSegmentCount(s) == Static(s, LAMBDA pose : Answer(Len(pose.names)))
GetSegmentName(s, i) == Static(s, LAMBDA pose : Indexed(pose.names, i))
GetSegmentChildCount(s, g) ==
    StaticSegment(s, g, LAMBDA segment : Answer(Len(ChildrenOf(s, g, segment))))
GetSegmentChildName(s, g, i) ==
    StaticSegment(s, g, LAMBDA segment : Indexed(ChildrenOf(s, g, segment), i))
GetSegmentParentName(s, g) ==
    StaticSegment(s, g, LAMBDA segment :
      Answer(IF segment.read >= Parent THEN Above(s, g) ELSE NoName))

------------------------------------------------------------------------------
(* Conversions of an angle of a full turn of n                                *)

\* The axis stays; a trace that is not positive turns the quaternion's real part over.
ToHelical(angle, n) == IF 3 * angle >= 2 * n THEN angle - n ELSE angle
ToEulerXYZ(angle, n) == IF 2 * angle > n THEN angle - n ELSE angle

------------------------------------------------------------------------------
(* The static pose. A segment the subject lacks is answered with zeros, as   *)
(* what could not be read is.                                                 *)

StaticPose(s, g, value) ==
    IF InitGet # "Success" THEN Refuse(InitGet)
    ELSE Static(s, LAMBDA pose :
           Answer(IF g \in DOMAIN pose.segments /\ pose.segments[g].read = Statics THEN value
                  ELSE 0))

GetSegmentStaticTranslation(s, g) == StaticPose(s, g, TStat(s, g))
GetSegmentStaticRotationMatrix(s, g) == StaticPose(s, g, RStat(s, g))
GetSegmentStaticRotationQuaternion(s, g) == StaticPose(s, g, RStat(s, g))
GetSegmentStaticRotationHelical(s, g) ==
    LET matrix == GetSegmentStaticRotationMatrix(s, g)
    IN  IF matrix.result = "Success" THEN Answer(ToHelical(matrix.v, FullTurn)) ELSE matrix
GetSegmentStaticRotationEulerXYZ(s, g) ==
    LET matrix == GetSegmentStaticRotationMatrix(s, g)
    IN  IF matrix.result = "Success" THEN Answer(ToEulerXYZ(matrix.v, FullTurn)) ELSE matrix
\* A segment the subject has is refused for want of a scale.
GetSegmentStaticScale(s, g) ==
    IF InitGet # "Success" THEN Refuse(InitGet)
    ELSE Static(s, LAMBDA pose :
           IF g \notin DOMAIN pose.segments THEN Answer(0)
           ELSE IF pose.segments[g].read = Statics THEN Answer(Scale(s, g))
           ELSE Refuse("NotPresent"))

------------------------------------------------------------------------------
(* The predicted pose. A segment it lacks is answered with zeros, and is not  *)
(* occluded.  With the value goes the pose it is from.                        *)

Predicted(s, g, Value(_)) ==
    LET pose == GetSubject(data, output, s)
    IN  IF InitGet # "Success" THEN Refuse(InitGet)
        ELSE IF pose.result # "ESuccess" THEN Refuse(Adapt(pose.result))
        ELSE LET segment == IF g \in DOMAIN pose.segments THEN pose.segments[g] ELSE Zero
             IN  [result |-> "Success", v |-> Value(segment), occluded |-> segment.occluded,
                  receipt |-> pose.receipt, frame |-> pose.frame, over |-> pose.over]

\* A conversion of a matrix; the angles of an occluded segment are zeros.
Converted(matrix, To(_, _)) ==
    IF matrix.result # "Success" THEN matrix
    ELSE [matrix EXCEPT !.v = IF matrix.occluded THEN 0 ELSE To(@, FullTurn * matrix.over)]

GetSegmentGlobalTranslation(s, g) == Predicted(s, g, LAMBDA segment : segment.T)
GetSegmentGlobalRotationMatrix(s, g) == Predicted(s, g, LAMBDA segment : segment.R)
GetSegmentGlobalRotationQuaternion(s, g) == Predicted(s, g, LAMBDA segment : segment.R)
GetSegmentGlobalRotationHelical(s, g) ==
    Converted(GetSegmentGlobalRotationMatrix(s, g), ToHelical)
GetSegmentGlobalRotationEulerXYZ(s, g) ==
    Converted(GetSegmentGlobalRotationMatrix(s, g), ToEulerXYZ)

GetSegmentLocalTranslation(s, g) == Predicted(s, g, LAMBDA segment : segment.T_Rel)
GetSegmentLocalRotationMatrix(s, g) == Predicted(s, g, LAMBDA segment : segment.R_Rel)
GetSegmentLocalRotationQuaternion(s, g) == Predicted(s, g, LAMBDA segment : segment.R_Rel)
GetSegmentLocalRotationHelical(s, g) ==
    Converted(GetSegmentLocalRotationMatrix(s, g), ToHelical)
GetSegmentLocalRotationEulerXYZ(s, g) ==
    Converted(GetSegmentLocalRotationMatrix(s, g), ToEulerXYZ)

------------------------------------------------------------------------------
ReadWhole(s, g) == g \in DOMAIN output[s].segments /\ output[s].segments[g].whole

\* Read between two calls, while the input thread goes on and connections are lost and made
\* anew, the answers fit together.  Each subject counted is described, though it is counted
\* from the poses predicted and described from the ones received; what was read without a name
\* has no segments.  Of the segments that have a name the root is one, and the parent of each
\* is one, too, however far the frame was read.  Whatever is predicted of a segment whose poses
\* were all read, globally and below its parent, lies on the steady motion, in every form of
\* its rotation alike.  What a frame says that StartOutput put in the place of another is
\* excepted.
AnswersAgree ==
    call = Returned /\ GetSubjectCount.result = "Success" =>
      \A i \in 0..(GetSubjectCount.v - 1) :
        LET s     == GetSubjectName(i).v
            count == GetSegmentCount(s)
            names == {GetSegmentName(s, j).v : j \in 0..(count.v - 1)}
            named == names \ {NoName}
        IN  /\ GetSubjectName(i).result = "Success" /\ count.result = "Success"
            /\ s = NoName => count.v = 0
            /\ ~mixed /\ named # {} => GetSubjectRootSegmentName(s).v \in named
            /\ ~mixed => \A g \in names : GetSegmentParentName(s, g).v \in named \cup {NoName}
            /\ \A g \in names :
                 LET t      == GetSegmentGlobalTranslation(s, g)
                     local  == GetSegmentLocalTranslation(s, g)
                     matrix == GetSegmentGlobalRotationMatrix(s, g)
                     below  == GetSegmentLocalRotationMatrix(s, g)
                     turn   == FullTurn * t.over
                 IN  ~mixed /\ t.result = "Success" /\ ReadWhole(s, g) =>
                       /\ t.v = TrueT(s, g, t.frame, t.over)
                       /\ local.v = TrueTRel(s, g, t.frame, t.over)
                       /\ matrix.v = TrueR(s, g, t.frame, t.over)
                       /\ below.v = TrueRRel(s, g, t.frame, t.over)
                       /\ GetSegmentGlobalRotationHelical(s, g).v % turn = matrix.v
                       /\ GetSegmentGlobalRotationEulerXYZ(s, g).v % turn = matrix.v
                       /\ GetSegmentLocalRotationHelical(s, g).v % turn = below.v
                       /\ GetSegmentLocalRotationEulerXYZ(s, g).v % turn = below.v
==============================================================================
