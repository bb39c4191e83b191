----------------------- MODULE MCMeasurementPipeline -----------------------
(* Streams for TLC: the first image is too old for the IMU samples, the      *)
(* others come two, one and one IMU periods apart.                           *)
EXTENDS MeasurementPipeline

BothModes == BOOLEAN
Replay    == {TRUE}
Images5   == <<2, 4, 5, 6, 8>>
NoSkip    == -2
LongSkip  == 4
============================================================================
