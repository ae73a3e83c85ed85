----------------------------- MODULE MCCameraV4l2 -----------------------------
(* Two buffers, of one plane each or of two.                               *)
EXTENDS CameraV4l2

\* The list that the test program gives, and the default list cut short.
TwoLists == {<<"DMABUF", "MMAP", "USERPTR">>, <<"USERPTR", "MMAP">>}
=============================================================================
