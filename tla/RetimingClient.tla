--------------------------- MODULE RetimingClient ---------------------------
(***************************************************************************)
(* VRetimingClient: a thread that takes the frames of a VClient as they    *)
(* come and gives them to the retimer with the time of receipt, a thread   *)
(* that predicts at a rate when one is started, and the caller's calls,    *)
(* which may come while both run.  Of the VClient below the model keeps    *)
(* whether it is connected and its latest frame: the number, and of each   *)
(* subject it shows the segments that are occluded.  The rest of a frame   *)
(* follows from its number, as the subjects move steadily.                 *)
(*                                                                         *)
(* A step is what runs between two calls of the client below, or under one *)
(* hold of the retimer's mutex, except that the many calls by which the    *)
(* input thread reads a frame are one step: only the frames StartOutput    *)
(* takes replace the frame under it, and "mixed" remembers that they did.  *)
(* An application that connects anew first disconnects, and makes one call *)
(* at a time.                                                              *)
(***************************************************************************)
EXTENDS RetimingCore

CONSTANTS
    RunInPeriod,   \* the frames StartOutput takes before it starts
    MaxFrames,     \* bound: the frames that show anything
    MaxTime,       \* bound: the clock; frames after it show nothing
    Cuts           \* bound: the last part read of a segment that is cut off

\* What a segment is asked after its name, in this order. Each part is read or is not: of a
\* part that is cut off in the middle nothing is made here.
Parent == 1
Children == 2
Poses == 3
Statics == 4

ASSUME ClientConstants ==
    RunInPeriod \in Nat /\ MaxFrames \in Nat /\ MaxTime \in Nat /\ Cuts \subseteq 0..Statics

\* The segments turn by one unit a frame: any two frames are less than half a turn apart.
ASSUME SamplesClose == 2 * (MaxFrames - 1) < FullTurn

VARIABLES
    now,            \* the clock, from m_Epoch on
    connected,      \* m_pClient->IsConnected()
    sending,        \* the server sends frames
    latest,         \* m_pClient's latest frame
    inputThread,    \* where m_pInputThread is
    inputStopped,   \* m_bInputStopped
    held,           \* what the input thread has read of the frame it adds
    outputThread,   \* where m_pOutputThread is
    outputStopped,  \* m_bOutputStopped
    data,           \* m_Retimer.m_Data
    output,         \* m_Retimer.m_LatestOutputPoses
    call,           \* the caller's call
    mixed           \* history: StartOutput took a frame while another was being read

linkVars == <<now, connected, sending>>
inputVars == <<inputThread, inputStopped, held, data>>
outputVars == <<outputThread, outputStopped, output>>
callVars == <<call, mixed>>
clientVars == <<now, connected, sending, latest, inputThread, inputStopped, held, data,
                outputThread, outputStopped, output, call, mixed>>

Returned == [at |-> "idle"]

------------------------------------------------------------------------------
(* The client below, and the server                                           *)

Tick ==
    /\ now < MaxTime
    /\ now' = now + 1
    /\ UNCHANGED <<connected, sending, latest, inputVars, outputVars, callVars>>

Break ==
    /\ connected
    /\ connected' = FALSE
    /\ UNCHANGED <<now, sending, latest, inputVars, outputVars, callVars>>

FallSilent ==
    /\ sending
    /\ sending' = FALSE
    /\ UNCHANGED <<now, connected, latest, inputVars, outputVars, callVars>>

\* Of each subject that is seen the occluded segments, one in all at most.
Sights ==
    UNION {{f \in [S -> SUBSET UNION {Segments(s) : s \in S}] :
              /\ \A s \in S : f[s] \subseteq Segments(s)
              /\ Cardinality({p \in S \X UNION {Segments(s) : s \in S} : p[2] \in f[p[1]]}) <= 1} :
           S \in SUBSET Subjects}

Nothing == << >>

\* GetFrame succeeds: the frames are those the server sends, and some may have been dropped.
GetFrame ==
    /\ connected /\ sending
    /\ \/ /\ now < MaxTime
          /\ \E n \in latest.number + 1 .. MaxFrames, shown \in Sights :
                latest' = [number |-> n, shown |-> shown]
       \/ /\ now = MaxTime \/ latest.number = MaxFrames
          /\ latest' = [latest EXCEPT !.shown = Nothing]

Place(s, g) == CHOOSE i \in DOMAIN SegmentNames[s] : SegmentNames[s][i] = g
Above(s, g) == SegmentParents[s][g]
\* The first segment without a parent; a subject without segments has no root.
RootOf(s) ==
    LET roots == {i \in DOMAIN SegmentNames[s] : Above(s, SegmentNames[s][i]) = NoName}
    IN  IF roots = {} THEN NoName
        ELSE SegmentNames[s][CHOOSE i \in roots : \A j \in roots : i <= j]
TrueT(s, g, frame, over) == 2 * over + Place(s, g) * frame
TrueR(s, g, frame, over) == (Place(s, g) * over - frame) % (FullTurn * over)
TrueTRel(s, g, frame, over) ==
    TrueT(s, g, frame, over)
      - (IF Above(s, g) = NoName THEN 0 ELSE TrueT(s, Above(s, g), frame, over))
TrueRRel(s, g, frame, over) ==
    (TrueR(s, g, frame, over)
      - (IF Above(s, g) = NoName THEN 0 ELSE TrueR(s, Above(s, g), frame, over)))
        % (FullTurn * over)
TStat(s, g) == Place(s, g)
RStat(s, g) == (4 * Place(s, g)) % FullTurn
Scale(s, g) == Place(s, g)
\* A segment of which no getter answered.
Zero == [read |-> 0, T |-> 0, R |-> 0, T_Rel |-> 0, R_Rel |-> 0,
         whole |-> FALSE, occluded |-> FALSE]

------------------------------------------------------------------------------
(* InputThread                                                                *)

InputTop ==
    /\ inputThread = "top"
    /\ IF inputStopped
       THEN inputThread' = "ended" /\ inputStopped' = FALSE
       ELSE connected /\ inputThread' = "get" /\ UNCHANGED inputStopped
    /\ UNCHANGED <<linkVars, latest, held, data, outputVars, callVars>>

\* Mutant of InputGet: it tries until a frame comes.
InputGetOnly ==
    /\ inputThread = "get"
    /\ GetFrame
    /\ inputThread' = "stamp"
    /\ UNCHANGED <<linkVars, inputStopped, held, data, outputVars, callVars>>

\* It tries until a frame comes or the connection is lost, whatever m_bInputStopped says.
InputGet ==
    /\ inputThread = "get"
    /\ GetFrame \/ (~connected /\ UNCHANGED latest)
    /\ inputThread' = "stamp"
    /\ UNCHANGED <<linkVars, inputStopped, held, data, outputVars, callVars>>

\* The clock is finer than the frames are close, or a prediction would divide by zero.
InputStamp ==
    /\ inputThread = "stamp"
    /\ IF connected
       THEN /\ now > held.receipt \/ (now = MaxTime /\ latest.shown = Nothing)
            /\ held' = [frame |-> latest.number, receipt |-> now]
            /\ inputThread' = "read"
       ELSE inputThread' = "top" /\ UNCHANGED held
    /\ UNCHANGED <<linkVars, latest, inputStopped, data, outputVars, callVars>>

AllParts(s) == [g \in Segments(s) |-> Statics]

\* A segment of the latest frame, read up to a part: there is no pose of an occluded one, and
\* the last of its poses says that it is.
GetSegment(s, g, part) ==
    LET n == latest.number
        occluded == g \in latest.shown[s]
        Pose(value) == IF part >= Poses /\ ~occluded THEN value ELSE 0
    IN  [read     |-> part,
         T        |-> Pose(TrueT(s, g, n, 1)),
         R        |-> Pose(TrueR(s, g, n, 1)),
         T_Rel    |-> Pose(TrueTRel(s, g, n, 1)),
         R_Rel    |-> Pose(TrueRRel(s, g, n, 1)),
         whole    |-> part >= Poses,
         occluded |-> part >= Poses /\ occluded]

\* A subject's pose, with the names its segments were read under, and how far each was read.
ReadSubject(s, root, names, read) ==
    [result |-> "ESuccess", frame |-> held.frame, receipt |-> held.receipt, over |-> 1,
     root |-> root, names |-> names,
     segments |-> [g \in {names[i] : i \in DOMAIN names} |->
                     IF g = NoName THEN Zero ELSE GetSegment(s, g, read[g])]]

ReadSubjects(S) == [s \in S |-> ReadSubject(s, RootOf(s), SegmentNames[s], AllParts(s))]

\* The getters fail once the connection is lost, and leave an empty name or a zero, but the
\* counts stay. Of a subject whose count of segments was read it is the first so many that
\* have names, and the last of them may be read in part.
FirstNames(s, n) ==
    [i \in DOMAIN SegmentNames[s] |-> IF i <= n THEN SegmentNames[s][i] ELSE NoName]

CutPoses(s) ==
    {ReadSubject(s, root, << >>, AllParts(s)) : root \in {NoName, RootOf(s)}}
      \cup {ReadSubject(s, RootOf(s), FirstNames(s, 0), AllParts(s))}
      \cup UNION {{ReadSubject(s, RootOf(s), FirstNames(s, i),
                              [AllParts(s) EXCEPT ![SegmentNames[s][i]] = k]) :
                    k \in Cuts} : i \in DOMAIN SegmentNames[s]}

Nameless == ReadSubject(NoName, NoName, << >>, << >>)
With(poses, s, pose) ==
    [u \in DOMAIN poses \cup {s} |-> IF u = s THEN pose ELSE poses[u]]

\* The poses read, and one for each subject of whom nothing could be read but that it is there.
AddRead(poses, lost) ==
    data' = AddData(data, IF lost = {} THEN poses ELSE With(poses, NoName, Nameless),
                    IF Cardinality(lost) > 1 THEN {NoName} ELSE {})

\* All subjects are added together. The connection may be lost before they are counted, when
\* some are read, or while one is.
InputRead ==
    /\ inputThread = "read"
    /\ LET shown == DOMAIN latest.shown
       IN  \/ connected /\ AddRead(ReadSubjects(shown), {})
           \/ ~connected /\ UNCHANGED data
           \/ /\ ~connected
              /\ \E done \in SUBSET shown : AddRead(ReadSubjects(done), shown \ done)
           \/ /\ ~connected
              /\ \E s \in shown : \E done \in SUBSET (shown \ {s}), pose \in CutPoses(s) :
                    AddRead(With(ReadSubjects(done), s, pose), shown \ (done \cup {s}))
    /\ inputThread' = "top"
    /\ UNCHANGED <<linkVars, latest, inputStopped, held, outputVars, callVars>>

InputThread == InputTop \/ InputGet \/ InputStamp \/ InputRead

------------------------------------------------------------------------------
(* OutputThread                                                               *)

UpdateFrameAtTime(t) == output' = OutputPoses(data, t)

OutputEnds ==
    /\ outputThread = "top"
    /\ outputStopped
    /\ outputThread' = "ended" /\ outputStopped' = FALSE
    /\ UNCHANGED <<linkVars, latest, inputVars, output, callVars>>

\* It predicts for the time there is, without latency, and wakes who waits for a frame.
OutputFrame ==
    /\ outputThread = "top"
    /\ ~outputStopped
    /\ UpdateFrameAtTime(now)
    /\ call' = IF call.at = "wait" THEN Returned ELSE call
    /\ UNCHANGED <<linkVars, latest, inputVars, outputThread, outputStopped, mixed>>

OutputThread == OutputEnds \/ OutputFrame

------------------------------------------------------------------------------
(* The caller                                                                 *)

Begin(next) == call = Returned /\ call' = next

\* The frames are pushed, and the input thread starts. Asked for a rate, the call goes on as
\* StartOutput.
Connect ==
    /\ Begin(Returned) \/ Begin([at |-> "join", then |-> "start"])
    /\ ~connected /\ inputThread = "none"
    /\ connected' = TRUE /\ sending' = TRUE
    /\ inputThread' = "top"
    /\ UNCHANGED <<now, latest, inputStopped, held, data, outputVars, mixed>>

\* StopOutput: the thread is told, and then waited for.
TellOutput(then) ==
    /\ Begin([at |-> "join", then |-> then])
    /\ outputStopped' = (outputStopped \/ outputThread # "none")
    /\ UNCHANGED <<linkVars, latest, inputVars, outputThread, output, mixed>>

\* StopInput sets m_bInputStopped whether there is a thread or not.
JoinOutput ==
    /\ call.at = "join"
    /\ outputThread \in {"none", "ended"}
    /\ outputThread' = "none"
    /\ \/ call.then = "stop" /\ call' = Returned /\ UNCHANGED inputStopped
       \/ /\ call.then = "start"
          /\ call' = [at |-> "runin", left |-> RunInPeriod] /\ UNCHANGED inputStopped
       \/ call.then = "disconnect" /\ call' = [at |-> "joinInput"] /\ inputStopped' = TRUE
    /\ UNCHANGED <<linkVars, latest, inputThread, held, data, outputStopped, output, mixed>>

JoinInput ==
    /\ call.at = "joinInput"
    /\ inputThread \in {"none", "ended"}
    /\ inputThread' = "none"
    /\ connected' = FALSE
    /\ call' = Returned
    /\ UNCHANGED <<now, sending, latest, inputStopped, held, data, outputVars, mixed>>

\* StartOutput takes frames too, that come, or do not come in time: from the input thread,
\* and under it.
RunIn ==
    /\ call.at = "runin"
    /\ call.left > 0
    /\ GetFrame \/ UNCHANGED latest
    /\ call' = [call EXCEPT !.left = @ - 1]
    /\ mixed' = (mixed \/ (inputThread = "read" /\ latest' # latest))
    /\ UNCHANGED <<linkVars, inputVars, outputVars>>

StartOutputThread ==
    /\ call.at = "runin"
    /\ call.left = 0
    /\ outputThread' = "top"
    /\ call' = Returned
    /\ UNCHANGED <<linkVars, latest, inputVars, outputStopped, output, mixed>>

UpdateFrame ==
    /\ outputThread = "none"
    /\ Begin([at |-> "update", time |-> now])
    /\ UNCHANGED <<linkVars, latest, inputVars, outputVars, mixed>>

UpdateFrameReturns ==
    /\ call.at = "update"
    /\ UpdateFrameAtTime(call.time)
    /\ call' = Returned
    /\ UNCHANGED <<linkVars, latest, inputVars, outputThread, outputStopped, mixed>>

WaitForFrame ==
    /\ outputThread # "none"
    /\ Begin([at |-> "wait"])
    /\ UNCHANGED <<linkVars, latest, inputVars, outputVars, mixed>>

CallReturns == JoinOutput \/ JoinInput \/ RunIn \/ StartOutputThread \/ UpdateFrameReturns

Calls ==
    \/ Connect
    \/ TellOutput("stop") \/ TellOutput("disconnect")
    \/ inputThread # "none" /\ TellOutput("start")
    \/ UpdateFrame \/ WaitForFrame \/ CallReturns

Below == Tick \/ Break \/ FallSilent

------------------------------------------------------------------------------
ClientInit(is, time, frame) ==
    /\ now = time
    /\ connected = is /\ sending = is
    /\ latest = [number |-> frame, shown |-> Nothing]
    /\ inputThread = (IF is THEN "top" ELSE "none")
    /\ inputStopped = FALSE
    /\ held = [frame |-> frame, receipt |-> 0]
    /\ data = [s \in DataNames |-> << >>]
    /\ outputThread = "none" /\ outputStopped = FALSE
    /\ output = << >>
    /\ call = Returned /\ mixed = FALSE

\* An application of the client.
ClientNext == Calls \/ Below \/ InputThread \/ OutputThread

\* Threads run on, a call that is not kept waiting goes on, and so does the clock.
ClientFairness ==
    /\ WF_clientVars(Tick)
    /\ WF_clientVars(InputThread)
    /\ WF_clientVars(OutputThread)
    /\ WF_clientVars(CallReturns)

ClientSpec == ClientInit(FALSE, 0, 0) /\ [][ClientNext]_clientVars /\ ClientFairness

------------------------------------------------------------------------------
\* Every call returns, StartOutput and Disconnect joining threads that are in the middle of
\* a frame and WaitForFrame being woken, unless the server is connected and silent: then the
\* input thread never looks at m_bInputStopped, and Disconnect waits for it.
CallsReturn == (call # Returned) ~> (call = Returned \/ (connected /\ ~sending))

\* A pose that was read has the places of its segments in the frame whose number it has: the
\* subjects of a frame are added together.
FromOneFrame ==
    \A s \in Subjects : \A i \in DOMAIN data[s] : \A g \in DOMAIN data[s][i].segments :
        data[s][i].segments[g].whole =>
          data[s][i].segments[g].T = TrueT(s, g, data[s][i].frame, 1)
==============================================================================
