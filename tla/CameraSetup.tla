----------------------------- MODULE CameraSetup -----------------------------
(***************************************************************************)
(* camera_v4l2.c: what a camera object and its driver agree upon before    *)
(* there are buffers: capabilities, pixel format, size and frame rate, one *)
(* ioctl() a step, while other programs, which may have the same device    *)
(* open, set another format or rate at any time and the device is pulled   *)
(* out or exchanged for another.                                           *)
(***************************************************************************)
EXTENDS Integers, Sequences, SequencesExt

CONSTANTS
  Devices,   \* what may be plugged in: see the fields used below
  Fourcc,    \* formats that a program may ask for
  Sizes,     \* sizes it may ask for, width and height as one
  Rates,     \* rates it may ask for, in half frames a second
  Fallback,  \* fallback_fps
  MaxOthers  \* bound: settings by other programs

ASSUME SetupAssumption ==
  /\ \A d \in Devices : d.formats \in Seq(STRING) /\ ToSet(d.formats) \cap {"auto", "none"} = {}
  /\ Fourcc \subseteq STRING

VARIABLES
  fd, buf_type, fmt_fourcc, fps, plane_count,
  capabilities,
  size,       \* width and height
  buf_sizes,  \* the format and size of which these are the image sizes
  dev,        \* the device
  present,    \* it is still plugged in
  driver,     \* the format, size and rate that it has now
  others,     \* how often other programs have set one
  pc,         \* "idle", or the next ioctl()
  wanted,     \* what match_format() was last asked for
  local,      \* locals of the function that runs
  known       \* history: the functions whose success still stands

object == <<fd, capabilities, buf_type, fmt_fourcc, fps, size, plane_count, buf_sizes>>
device == <<dev, present, driver, others>>
vars == <<object, device, pc, wanted, local, known>>

None == "none"
NoLocal == [index |-> 1, found |-> {}, err |-> FALSE]
NoDevice == [whole |-> {}, this |-> {}]
NoSettings == [fmt |-> None, size |-> 0, rate |-> 0]
Works == fd /\ present
Accepts == Works /\ buf_type \in dev.this
Idle == pc = "idle"

\* What the program knows after a call of fn: the calls in undone are no longer of use.
Return(fn, ok, undone) ==
  /\ pc' = "idle" /\ local' = NoLocal
  /\ known' = (known \ ({fn} \cup undone)) \cup (IF ok THEN {fn} ELSE {})

-----------------------------------------------------------------------------
\* A driver takes the nearest that it has of what it is asked for, and which that
\* is, it decides itself.
Nearest(asked, having) == IF asked \in having THEN {asked} ELSE having
Settings(d) == [fmt : ToSet(d.formats), size : d.sizes, rate : d.rates]

Open ==
  /\ Idle /\ ~fd
  /\ \/ UNCHANGED <<fd, device>>
     \/ /\ fd' = TRUE /\ present' = TRUE /\ dev' \in Devices /\ driver' \in Settings(dev')
        /\ UNCHANGED others
  /\ UNCHANGED <<capabilities, buf_type, fmt_fourcc, fps, size, plane_count, buf_sizes, pc, wanted, local, known>>

\* The object keeps all it has learned from the device.
Close ==
  /\ Idle /\ fd /\ fd' = FALSE /\ present' = FALSE /\ known' = {}
  /\ dev' = NoDevice /\ driver' = NoSettings
  /\ UNCHANGED <<capabilities, buf_type, fmt_fourcc, fps, size, plane_count, buf_sizes, others, pc, wanted, local>>

Unplug == Works /\ present' = FALSE /\ UNCHANGED <<object, dev, driver, others, pc, wanted, local, known>>

Others ==
  /\ present /\ others < MaxOthers /\ others' = others + 1
  /\ \E s \in Settings(dev) :
       /\ driver' \in {[s EXCEPT !.rate = driver.rate], [driver EXCEPT !.rate = s.rate]}
       /\ known' = known \ (IF driver'.rate = driver.rate THEN {"set_size_and_format"} ELSE {"set_frame_rate"})
  /\ UNCHANGED <<object, dev, present, pc, wanted, local>>

-----------------------------------------------------------------------------
camera_v4l2_validate_capabilities(c) == c \cap {"CAPTURE", "MPLANE"} # {} /\ "STREAMING" \in c

\* An error found here leaves the type of another device before.  A format set with
\* that type, which the device may have too, is of no use with the new one.
query_capabilities(with_validation) ==
  /\ Idle /\ fd
  /\ IF ~Works THEN Return("query_capabilities", FALSE, {}) /\ UNCHANGED <<capabilities, buf_type>>
     ELSE LET c == IF "DEVICE_CAPS" \in dev.whole THEN dev.this ELSE dev.whole
              ok == /\ with_validation => camera_v4l2_validate_capabilities(c)
                    /\ c \cap {"CAPTURE", "MPLANE"} # {}
          IN /\ capabilities' = c
             /\ buf_type' = IF ok THEN IF "CAPTURE" \in c THEN "CAPTURE" ELSE "MPLANE" ELSE buf_type
             /\ Return("query_capabilities", ok, IF buf_type' = buf_type THEN {} ELSE {"set_size_and_format"})
  /\ UNCHANGED <<fd, fmt_fourcc, fps, size, plane_count, buf_sizes, device, wanted>>

\* Formats are asked for one by one until it is the one that is wanted, or
\* the device has no more, or does not answer.
match_format ==
  /\ Idle /\ fd /\ pc' = "ENUM_FMT"
  /\ wanted' \in Fourcc \cup {"auto"} /\ known' = known \ {"match_format"}
  /\ UNCHANGED <<object, device, local>>

Preferred(found) ==
  IF "BGR3" \in found THEN "BGR3"
  ELSE IF "RGB3" \in found THEN "RGB3"
  ELSE IF "NV12" \in found THEN "NV12" ELSE None

Matched(fmt, ok) ==
  /\ fmt_fourcc' = fmt
  /\ Return("match_format", ok, IF ok THEN {"set_size_and_format"} ELSE {})

EnumFmt ==
  /\ pc = "ENUM_FMT"
  /\ LET answered == Accepts /\ local.index <= Len(dev.formats)
         pixelformat == dev.formats[local.index]
         choice == IF wanted = "auto" THEN Preferred(local.found) ELSE None
     IN \/ answered /\ pixelformat = wanted /\ Matched(pixelformat, TRUE)
        \/ /\ answered /\ pixelformat # wanted
           /\ local' = [local EXCEPT !.index = @ + 1, !.found = @ \cup {pixelformat}]
           /\ UNCHANGED <<fmt_fourcc, pc, known>>
        \/ ~answered /\ Matched(IF choice = None THEN fmt_fourcc ELSE choice, choice # None)
  /\ UNCHANGED <<fd, capabilities, buf_type, fps, size, plane_count, buf_sizes, wanted, device>>

\* The size is stored before the driver is asked, which may also be busy.
set_size_and_format ==
  /\ Idle /\ fd /\ size' \in Sizes
  /\ \/ Return("set_size_and_format", FALSE, {}) /\ UNCHANGED driver
     \/ /\ Accepts /\ pc' = "G_FMT" /\ known' = known \ {"set_size_and_format", "set_frame_rate"}
        /\ \E fmt \in Nearest(fmt_fourcc, ToSet(dev.formats)), s \in Nearest(size', dev.sizes), rate \in dev.rates :
             driver' = [fmt |-> fmt, size |-> s, rate |-> rate]
        /\ UNCHANGED local
  /\ UNCHANGED <<fd, capabilities, buf_type, fmt_fourcc, fps, plane_count, buf_sizes, dev, present, others, wanted>>

Planes(fmt) == IF buf_type = "MPLANE" THEN dev.planes[fmt] ELSE 1

\* Mutant: only the size is compared.
IsSize == driver.size = size
IsAsSet == driver.size = size /\ driver.fmt = fmt_fourcc

GFmt ==
  /\ pc = "G_FMT"
  /\ IF Accepts
     THEN /\ plane_count' = Planes(driver.fmt) /\ buf_sizes' = <<driver.fmt, driver.size>>
          /\ Return("set_size_and_format", IsAsSet, {})
     ELSE Return("set_size_and_format", FALSE, {}) /\ UNCHANGED <<plane_count, buf_sizes>>
  /\ UNCHANGED <<fd, capabilities, buf_type, fmt_fourcc, fps, size, device, wanted>>

-----------------------------------------------------------------------------
\* Rates are compared as whole numbers.
Whole(rate) == rate \div 2

\* The first reading.  Asked for no rate, the object takes what it has read, or the
\* fallback, which tells the program nothing; a rate that cannot be set is compared
\* at once.
set_frame_rate ==
  /\ Idle /\ fd
  /\ \E asked \in Rates :
       LET read == Accepts /\ dev.tells
           same == read /\ Whole(driver.rate) = Whole(asked)
       IN \/ (same \/ asked = 0) /\ Return("set_frame_rate", read, {})
             /\ fps' = IF same THEN asked ELSE IF read THEN driver.rate ELSE Fallback
          \/ ~same /\ asked > 0 /\ read /\ ~dev.settable /\ fps' = asked /\ Return("set_frame_rate", FALSE, {})
          \/ ~same /\ asked > 0 /\ ~(read /\ ~dev.settable) /\ fps' = asked /\ pc' = "S_PARM"
             /\ local' = [NoLocal EXCEPT !.err = ~read] /\ known' = known \ {"set_frame_rate"}
  /\ UNCHANGED <<fd, capabilities, buf_type, fmt_fourcc, size, plane_count, buf_sizes, device, wanted>>

SParm ==
  /\ pc = "S_PARM"
  /\ \/ Return("set_frame_rate", FALSE, {}) /\ UNCHANGED driver
     \/ /\ Accepts /\ pc' = "G_PARM" /\ UNCHANGED known
        /\ \E rate \in Nearest(2 * Whole(fps), dev.rates) : driver' = [driver EXCEPT !.rate = rate]
        /\ UNCHANGED local
  /\ UNCHANGED <<object, dev, present, others, wanted>>

\* A reading that fails leaves the zeros of memset(); the error of the first reading
\* is never taken back.
GParm ==
  /\ pc = "G_PARM"
  /\ LET rate == IF Accepts /\ dev.tells THEN driver.rate ELSE 0
     IN Return("set_frame_rate", Whole(rate) = Whole(fps) /\ ~local.err, {})
  /\ UNCHANGED <<object, device, wanted>>

-----------------------------------------------------------------------------
Init ==
  /\ fd = FALSE /\ capabilities = {} /\ buf_type = None /\ fmt_fourcc = None /\ fps = 0
  /\ size = 0 /\ plane_count = 0 /\ buf_sizes = <<None, 0>>
  /\ dev = NoDevice /\ driver = NoSettings /\ present = FALSE /\ others = 0
  /\ pc = "idle" /\ wanted = None /\ local = NoLocal /\ known = {}

Next ==
  \/ Open \/ Close \/ Unplug \/ Others
  \/ (\E with_validation \in BOOLEAN : query_capabilities(with_validation))
  \/ match_format \/ EnumFmt \/ set_size_and_format \/ GFmt \/ set_frame_rate \/ SParm \/ GParm

Spec == Init /\ [][Next]_vars

-----------------------------------------------------------------------------
\* The format that was wanted, or the best that a device has.
Order == <<"BGR3", "RGB3", "NV12">>
MatchHolds ==
  "match_format" \in known =>
    /\ fmt_fourcc \in ToSet(dev.formats)
    /\ IF wanted # "auto" THEN fmt_fourcc = wanted
       ELSE \E i \in DOMAIN Order : fmt_fourcc = Order[i] /\ \A j \in 1..i - 1 : Order[j] \notin ToSet(dev.formats)
FormatHolds ==
  "set_size_and_format" \in known =>
    /\ driver.fmt = fmt_fourcc /\ driver.size = size
    /\ buf_sizes = <<fmt_fourcc, size>> /\ plane_count = Planes(fmt_fourcc)
RateHolds == "set_frame_rate" \in known => Whole(fps) = Whole(driver.rate)

\* What a successful call has told the program of a device that is still there holds
\* until the program or another one sets it anew: the object's format, size and
\* planes, by which buffers are sized, and its rate are the driver's.
SetupHolds == present => MatchHolds /\ FormatHolds /\ RateHolds
=============================================================================
