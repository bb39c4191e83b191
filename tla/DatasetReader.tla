---------------------------- MODULE DatasetReader ----------------------------
(* okvis::DatasetReader::processing: one thread merges the recorded images   *)
(* of several cameras, of which some are to be synchronised and some come    *)
(* with depth images, with the recorded IMU measurements.                    *)
(*                                                                           *)
(* An image is its time stamp; the iterator of a camera is the set of images *)
(* it has still before it.  There is an IMU measurement at every instant.    *)
(* What the callbacks do with a frame, and the starting delay, are in        *)
(* MeasurementPipeline; the counter of processed images is left out.         *)
EXTENDS Integers, Sequences, FiniteSets, FiniteSetsExt

CONSTANTS
  NumCameras,
  SyncCameras,   \* "camera group to force synchronisation"
  Depths,        \* the sets of cameras that may have depth images
  Tolerance,     \* tolNSec (10 ms in the code)
  Ahead,         \* IMU measurements are read this far beyond an image (21 ms)
  LastImage,     \* bound: time of the last image
  LastImu        \* time of the last IMU measurement

Cameras == 0 .. NumCameras - 1
Times   == 1 .. LastImage

ASSUME DatasetAssumption ==
  /\ {NumCameras, LastImage, LastImu} \subseteq Nat \ {0}
  /\ {Tolerance, Ahead} \subseteq Nat
  /\ SyncCameras \subseteq Cameras /\ \A d \in Depths : d \subseteq Cameras

VARIABLES
  recorded,    \* allImageNames_: the images of each camera
  withDepth,   \* allDepthImageNames_: the cameras that have depth images,
  left,        \* cam_iterators
  depthLeft,   \* depthCam_iterators
  needSync,
  place,       \* sync, imu, callback, finished; undefined: read past the end
  frame,       \* the images and the depth image that are going to be added
  imuRead,     \* the newest IMU measurement that was read
  dropped,     \* images that were given up "without correspondence"
  delivered    \* the frames so far

files == <<recorded, withDepth>>
readerVars == <<files, left, depthLeft, needSync, place, frame, imuRead,
                dropped, delivered>>

NoFrame == [time |-> 0, images |-> <<>>, depth |-> <<>>]

(* Every camera has images; depth images are recorded with the images.       *)
ReaderInit ==
  /\ recorded \in [Cameras -> SUBSET Times \ {{}}]
  /\ withDepth \in Depths
  /\ left = recorded
  /\ depthLeft = [c \in withDepth |-> recorded[c]]
  /\ needSync = FALSE /\ place = "sync" /\ frame = NoFrame
  /\ imuRead = 0 /\ dropped = {} /\ delivered = <<>>

----------------------------------------------------------------------------
Advanced(iterators, cameras) ==
  [c \in DOMAIN iterators |-> IF c \in cameras
                                THEN iterators[c] \ {Min(iterators[c])}
                                ELSE iterators[c]]

(* argMinTime: the camera whose next image is the oldest, the first of them. *)
Remaining == {c \in Cameras : left[c] # {}}
MinTime   == Min({Min(left[c]) : c \in Remaining})
ArgMin    == Min({c \in Remaining : Min(left[c]) = MinTime})

(* Slip: the next images are compared with that of the first camera.         *)
IsSynchedWithFirst(group) ==
  /\ \A c \in group : left[c] # {}
  /\ \A c \in group : Min(left[c]) - Min(left[Min(group)]) <= Tolerance

(* isSynched: the next images of the group are within the tolerance.         *)
IsSynched(group) ==
  /\ \A c \in group : left[c] # {}
  /\ \A c, d \in group : Min(left[c]) - Min(left[d]) <= Tolerance

(* The camera with the oldest image decides; a camera that is not in the     *)
(* group leaves needSync as the image before has set it.  (A camera alone is *)
(* always synchronised, so that depth images change nothing here.)           *)
NeedsSync == IF ArgMin \in SyncCameras THEN ~IsSynched(SyncCameras)
                                       ELSE needSync

Ends == left' = left /\ depthLeft' = depthLeft /\ place' = "finished"

(* All images are processed.                                                 *)
Finish ==
  /\ place = "sync" /\ Remaining = {}
  /\ place' = "finished"
  /\ UNCHANGED <<files, left, depthLeft, needSync, frame, imuRead, dropped,
                 delivered>>

(* An "image without correspondence"; with the last one of any camera,       *)
(* reading ends.                                                             *)
Drop ==
  /\ place = "sync" /\ Remaining # {} /\ NeedsSync
  /\ needSync' = TRUE
  /\ dropped' = dropped \cup {<<ArgMin, MinTime>>}
  /\ left' = Advanced(left, {ArgMin})
  /\ place' = IF left'[ArgMin] = {} THEN "finished" ELSE "sync"
  /\ UNCHANGED <<files, depthLeft, frame, imuRead, delivered>>

(* The images of the group, or the one of a camera outside it, and the next  *)
(* depth image of the camera with the oldest image, if it has any.  A camera *)
(* outside the group is then read once more.                                 *)
TakeImages ==
  LET group == IF ArgMin \in SyncCameras THEN SyncCameras ELSE {ArgMin}
      rest  == Advanced(left, group)
      again == IF ArgMin \in withDepth \ SyncCameras THEN {ArgMin} ELSE {}
      noDepth == ArgMin \in withDepth /\ depthLeft[ArgMin] = {}
      past    == \E c \in again : rest[c] = {}
  IN
    /\ place = "sync" /\ Remaining # {} /\ ~NeedsSync
    /\ left' = IF noDepth \/ past THEN rest ELSE Advanced(rest, again)
    /\ depthLeft' = IF noDepth THEN depthLeft
                    ELSE Advanced(depthLeft, {ArgMin} \cap withDepth)
    /\ place' = IF noDepth THEN "finished"
                ELSE IF past THEN "undefined" ELSE "imu"
    /\ frame' = IF noDepth \/ past THEN NoFrame
                ELSE [time |-> MinTime,
                      images |-> [c \in group |->
                        Min(IF c \in again THEN rest[c] ELSE left[c])],
                      depth |-> [c \in {ArgMin} \cap withDepth |->
                                   Min(depthLeft[c])]]
    /\ needSync' = FALSE
    /\ UNCHANGED <<files, imuRead, dropped, delivered>>

(* At least one measurement is read for a frame, and all until some time     *)
(* after it; at the end of the file the frame is discarded.                  *)
ReadImu ==
  /\ place = "imu"
  /\ IF imuRead = LastImu
       THEN place' = "finished" /\ imuRead' = imuRead
       ELSE /\ imuRead' = imuRead + 1
            /\ place' = IF imuRead' <= frame.time + Ahead THEN "imu"
                                                          ELSE "callback"
  /\ UNCHANGED <<files, left, depthLeft, needSync, frame, dropped, delivered>>

AddImages ==
  /\ place = "callback"
  /\ delivered' = Append(delivered, [time |-> frame.time, imu |-> imuRead,
                                     images |-> frame.images,
                                     depth |-> frame.depth])
  /\ frame' = NoFrame
  /\ place' = "sync"
  /\ UNCHANGED <<files, left, depthLeft, needSync, imuRead, dropped>>

Finished == place \in {"finished", "undefined"} /\ UNCHANGED readerVars

ReaderNext == Finish \/ Drop \/ TakeImages \/ ReadImu \/ AddImages \/ Finished

ReaderSpec == ReaderInit /\ [][ReaderNext]_readerVars
----------------------------------------------------------------------------
(* Could image s of camera c be in a group with images that were not         *)
(* delivered?                                                                *)
Undelivered(c) ==
  recorded[c] \ {delivered[n].images[c] :
                   n \in {m \in 1 .. Len(delivered) :
                            c \in DOMAIN delivered[m].images}}

HasCounterparts(c, s) ==
  \E from \in Times :
    /\ from <= s /\ s <= from + Tolerance
    /\ \A d \in SyncCameras \ {c} :
         \E u \in Undelivered(d) : from <= u /\ u <= from + Tolerance

(* A frame holds one image of every synchronised camera, all within the      *)
(* tolerance, or one image of another camera; the IMU measurements up to     *)
(* some time after it are there, and frames come in the order of time.       *)
FrameComplete(n) ==
  LET f == delivered[n] IN
    /\ DOMAIN f.images = SyncCameras
       \/ \E c \in Cameras \ SyncCameras : DOMAIN f.images = {c}
    /\ \A c, d \in DOMAIN f.images : f.images[c] - f.images[d] <= Tolerance
    /\ f.imu > f.time + Ahead
    /\ n > 1 => delivered[n - 1].time <= f.time

(* The frames are complete, and an image of a synchronised camera is given   *)
(* up "without correspondence" only if it has none: no choice of images of   *)
(* the other cameras, delivered ones aside, is within the tolerance of it.   *)
Synchronised ==
  /\ \A n \in 1 .. Len(delivered) : FrameComplete(n)
  /\ \A image \in dropped :
       image[1] \in SyncCameras => ~HasCounterparts(image[1], image[2])
=============================================================================
