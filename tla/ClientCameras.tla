--------------------------- MODULE ClientCameras ---------------------------
(***************************************************************************)
(* VClient's getters of cameras: what they are, how they are calibrated,   *)
(* and the centroids, greyscale blobs and video frames they see.           *)
(***************************************************************************)
EXTENDS ClientDevices

\* A camera's name always ends in its number.
AdaptCameraName(name, displayType, id) ==
    (IF name = "" THEN displayType ELSE name) \o " (" \o ToString(id) \o ")"
CameraName(camera) == AdaptCameraName(camera.Name, camera.DisplayType, camera.CameraID)

OfCameraID(f, type, id, otherwise) ==
    FirstWith(f[type], "CameraID", id, otherwise)
GetCameraSensorInfo(f, id) == OfCameraID(f, "CameraSensorInfo", id, "NotPresent")
GetCentroidSet(f, id) == OfCameraID(f, "Centroids", id, "InvalidIndex")
GetCentroidWeightSet(f, id) == OfCameraID(f, "CentroidWeights", id, "InvalidIndex")
VideoFrameOf(f, id) == OfCameraID(f, "VideoFrame", id, "InvalidIndex")

OrElse(answer, other) == IF answer.result = "Success" THEN answer ELSE other
GetCameraCalibrationInfo(f, id) ==
    OrElse(OfCameraID(f, "CameraCalibrationInfo", id, "NotPresent"),
           OfCameraID(f, "DynamicCameraCalibrationInfo", id, "NotPresent"))
\* A plain blob set has no subsampling of its own: its class sets these.
NotSubsampled == [TwiceOffsetX |-> 0, TwiceOffsetY |-> 0,
                  SensorPixelsPerImagePixelX |-> 1, SensorPixelsPerImagePixelY |-> 1]
GetGreyscaleBlobs(f, id) ==
    OrElse(OfCameraID(f, "GreyscaleSubsampledBlobs", id, "InvalidIndex"),
           Then(OfCameraID(f, "GreyscaleBlobs", id, "InvalidIndex"),
                LAMBDA b : Answer(b @@ NotSubsampled)))

------------------------------------------------------------------------------
GetCameraCount(c) == Then(InitGet(c), LAMBDA f : Answer(Len(f.CameraInfo)))
GetCameraName(c, i) ==
    Then(InitGet(c), LAMBDA f :
      Then(Indexed(f.CameraInfo, i), LAMBDA d : Answer(CameraName(d))))
GetDynamicCameraCount(c) ==
    Then(InitGet(c), LAMBDA f : Answer(Len(f.DynamicCameraCalibrationInfo)))
GetDynamicCameraName(c, i) ==
    Then(InitGet(c), LAMBDA f :
      Then(Indexed(f.DynamicCameraCalibrationInfo, i), LAMBDA d :
        Then(OfCameraID(f, "CameraInfo", d.CameraID, "InvalidIndex"), LAMBDA camera :
          Answer(CameraName(camera)))))

\* These look in the latest frame even when nothing is connected any more.
GetCamera(c, camera) ==
    FirstWhere(c.frame.CameraInfo, LAMBDA d : CameraName(d) = camera, "InvalidCameraName")
GetCameraID(c, camera) == Then(GetCamera(c, camera), LAMBDA d : Answer(d.CameraID))
GetCameraUserID(c, camera) == Then(GetCamera(c, camera), LAMBDA d : Answer(d.UserID))
GetCameraType(c, camera) == Then(GetCamera(c, camera), LAMBDA d : Answer(d.DisplayType))
GetCameraDisplayName(c, camera) == Then(GetCamera(c, camera), LAMBDA d : Answer(d.Name))

\* The others check the connection first.
OfCameraNamed(c, camera, K(_, _)) ==
    Then(InitGet(c), LAMBDA f : Then(GetCamera(c, camera), LAMBDA d : K(f, d)))
GetCameraResolution(c, camera) ==
    OfCameraNamed(c, camera, LAMBDA f, d : Answer(<<d.ResolutionX, d.ResolutionY>>))
GetIsVideoCamera(c, camera) ==
    OfCameraNamed(c, camera, LAMBDA f, d : Answer(d.bIsVideoCamera))
GetCameraSensorMode(c, camera) ==
    OfCameraNamed(c, camera, LAMBDA f, d :
      Then(GetCameraSensorInfo(f, d.CameraID), LAMBDA s : Answer(s.SensorMode)))
GetCameraWindowSize(c, camera) ==
    OfCameraNamed(c, camera, LAMBDA f, d :
      Then(GetCameraSensorInfo(f, d.CameraID), LAMBDA s :
        Answer(<<s.WindowOffsetX, s.WindowOffsetY, s.WindowWidth, s.WindowHeight>>)))

\* A camera's calibration, static or else dynamic.
Calibration(c, camera, K(_)) ==
    OfCameraNamed(c, camera, LAMBDA f, d : Then(GetCameraCalibrationInfo(f, d.CameraID), K))
GetCameraGlobalTranslation(c, camera) ==
    Calibration(c, camera, LAMBDA p : Answer(TransformT(c, p.PoseTranslation)))
GetCameraGlobalRotationMatrix(c, camera) ==
    Calibration(c, camera, LAMBDA p : Answer(TransformR(c, p.PoseRotation)))
GetCameraGlobalRotationHelical(c, camera) ==
    Then(GetCameraGlobalRotationMatrix(c, camera), LAMBDA m : Answer(MatrixToHelical(m)))
GetCameraGlobalRotationQuaternion(c, camera) ==
    Then(GetCameraGlobalRotationMatrix(c, camera), LAMBDA m : Answer(MatrixToQuaternion(m)))
GetCameraGlobalRotationEulerXYZ(c, camera) ==
    Then(GetCameraGlobalRotationMatrix(c, camera), LAMBDA m : Answer(MatrixToEulerXYZ(m)))
GetCameraPrincipalPoint(c, camera) ==
    Calibration(c, camera, LAMBDA p : Answer(p.PrincipalPoint))
GetCameraFocalLength(c, camera) == Calibration(c, camera, LAMBDA p : Answer(p.FocalLength))
GetCameraLensParameters(c, camera) ==
    Calibration(c, camera, LAMBDA p : Answer(p.RadialDistortion))

------------------------------------------------------------------------------
(* What a camera sees                                                         *)

GetCentroidCount(c, camera) ==
    OfCameraNamed(c, camera, LAMBDA f, d :
      Then(GetCentroidSet(f, d.CameraID), LAMBDA s : Answer(Len(s.Centroids))))
GetCentroidPosition(c, camera, i) ==
    OfCameraNamed(c, camera, LAMBDA f, d :
      Then(GetCentroidSet(f, d.CameraID), LAMBDA s :
        Then(Indexed(s.Centroids, i), LAMBDA t : Answer([position |-> t.Position,
                                                          radius |-> t.Radius]))))
GetCentroidWeight(c, camera, i) ==
    OfCameraNamed(c, camera, LAMBDA f, d :
      Then(GetCentroidWeightSet(f, d.CameraID), LAMBDA s : Indexed(s.Weights, i)))
GetGreyscaleBlobCount(c, camera) ==
    OfCameraNamed(c, camera, LAMBDA f, d :
      Then(GetGreyscaleBlobs(f, d.CameraID), LAMBDA s : Answer(Len(s.GreyscaleBlobs))))
GetGreyscaleBlobSubsampleInfo(c, camera) ==
    OfCameraNamed(c, camera, LAMBDA f, d :
      Then(GetGreyscaleBlobs(f, d.CameraID), LAMBDA s :
        Answer([n \in DOMAIN NotSubsampled |-> s[n]])))
GetGreyscaleBlob(c, camera, i) ==
    OfCameraNamed(c, camera, LAMBDA f, d :
      Then(GetGreyscaleBlobs(f, d.CameraID), LAMBDA s :
        Then(Indexed(s.GreyscaleBlobs, i), LAMBDA b : Answer(b.GreyscaleLines))))
GetVideoFrame(c, camera) ==
    OfCameraNamed(c, camera, LAMBDA f, d : VideoFrameOf(f, d.CameraID))
==============================================================================
