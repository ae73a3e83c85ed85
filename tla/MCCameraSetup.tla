---------------------------- MODULE MCCameraSetup ----------------------------
(* A webcam; a multi-planar sensor of one rate; an old camera of one format *)
(* that tells no rate; and a node that does not capture.                    *)
EXTENDS CameraSetup

Webcam == [whole |-> {"CAPTURE", "STREAMING", "DEVICE_CAPS"}, this |-> {"CAPTURE", "STREAMING"},
           formats |-> <<"NV12", "RGB3">>, planes |-> [f \in {"YUYV", "NV12", "RGB3"} |-> 1],
           sizes |-> {1, 2}, rates |-> {4, 7}, tells |-> TRUE, settable |-> TRUE]
Sensor == [Webcam EXCEPT !.whole = {"MPLANE", "STREAMING"}, !.this = {"MPLANE", "STREAMING"},
           !.formats = <<"NV12", "BGR3">>, !.planes = [f \in {"NV12", "BGR3"} |-> IF f = "NV12" THEN 2 ELSE 1],
           !.sizes = {1}, !.rates = {4}, !.settable = FALSE]
Old == [Webcam EXCEPT !.formats = <<"YUYV">>, !.sizes = {1}, !.tells = FALSE]
NoCamera == [Webcam EXCEPT !.this = {"STREAMING"}]
FourDevices == {Webcam, Sensor, Old, NoCamera}
=============================================================================
