--------------------------- MODULE CameraSetupProofs ---------------------------
(***************************************************************************)
(* Proofs about CameraSetup for any devices, formats, sizes and rates, and *)
(* any number of settings by other programs.                               *)
(***************************************************************************)
EXTENDS CameraSetup, TLAPS

\* The formats that the enumeration has come past are those it has noted, and the
\* wanted one is not among them.
Enumerated ==
  pc = "ENUM_FMT" =>
    /\ "match_format" \notin known
    /\ local.index \in Nat \ {0} /\ local.found \subseteq STRING
    /\ local.found # {} => buf_type \in dev.this
    /\ present => /\ local.index <= Len(dev.formats) + 1
                  /\ local.found = {dev.formats[i] : i \in 1..local.index - 1}

\* While a function has not ended, it has not succeeded; its first reading of the
\* rate had no error only if the device can tell one.
InProgress ==
  /\ pc = "idle" => local = NoLocal
  /\ pc = "G_FMT" => known \cap {"set_size_and_format", "set_frame_rate"} = {}
  /\ pc \in {"S_PARM", "G_PARM"} =>
       "set_frame_rate" \notin known /\ (~local.err => dev.tells /\ buf_type \in dev.this)

\* Nothing is known of a device that is not open.
OfOpenDevice ==
  /\ pc \in {"idle", "ENUM_FMT", "G_FMT", "S_PARM", "G_PARM"}
  /\ ~fd => known = {} /\ pc = "idle"
  /\ present => fd /\ dev \in Devices
  /\ DOMAIN driver = {"fmt", "size", "rate"}
  /\ DOMAIN local = {"index", "found", "err"}

IInv == OfOpenDevice /\ InProgress /\ Enumerated /\ SetupHolds

\* The preferred format is the first in the order that is there.
LEMMA PreferredIsFirst ==
  ASSUME NEW S, "none" \notin S, Preferred(S) # None
  PROVE  \E i \in DOMAIN Order : Preferred(S) = Order[i] /\ Preferred(S) \in S
                                 /\ \A j \in 1..i - 1 : Order[j] \notin S
<1>1. DOMAIN Order = 1..3 /\ Order[1] = "BGR3" /\ Order[2] = "RGB3" /\ Order[3] = "NV12"
  BY DEF Order
<1>2. CASE "BGR3" \in S
  BY <1>1, <1>2 DEF Preferred
<1>3. CASE "BGR3" \notin S /\ "RGB3" \in S
  BY <1>1, <1>3 DEF Preferred
<1>4. CASE "BGR3" \notin S /\ "RGB3" \notin S /\ "NV12" \in S
  BY <1>1, <1>4 DEF Preferred
<1>. QED  BY <1>2, <1>3, <1>4 DEF Preferred, None

-----------------------------------------------------------------------------
\* Opening, closing, pulling out: what is known is of the device that is there.
LEMMA DeviceSteps ==
  ASSUME IInv, Open \/ Close \/ Unplug
  PROVE  IInv'
<1>. USE DEF IInv, OfOpenDevice, InProgress, Enumerated, SetupHolds, MatchHolds, FormatHolds, RateHolds
<1>1. CASE Open
  <2>1. known = {} /\ pc = "idle" /\ known' = {} /\ pc' = "idle" /\ local' = local
    BY <1>1 DEF Open
  <2>2. OfOpenDevice'
    BY <1>1, <2>1 DEF Open, device, Settings
  <2>. QED  BY <2>1, <2>2
<1>2. CASE Close
  BY <1>2 DEF Close, Idle, NoSettings
<1>3. CASE Unplug
  BY <1>3 DEF Unplug, object, Works
<1>. QED  BY <1>1, <1>2, <1>3

\* Another program sets a format or a rate, of which nothing is known then.
LEMMA OthersStep ==
  ASSUME IInv, Others
  PROVE  IInv'
<1>. USE DEF IInv, OfOpenDevice, InProgress, Enumerated
<1>1. /\ UNCHANGED <<object, dev, present, pc, wanted, local>> /\ present
      /\ known' \subseteq known
  BY DEF Others
<1>2. PICK s \in Settings(dev) :
        /\ driver' \in {[s EXCEPT !.rate = driver.rate], [driver EXCEPT !.rate = s.rate]}
        /\ known' = known \ (IF driver'.rate = driver.rate THEN {"set_size_and_format"} ELSE {"set_frame_rate"})
  BY DEF Others
<1>3. DOMAIN s = {"fmt", "size", "rate"}
  BY DEF Settings
<1>4. CASE driver' = [s EXCEPT !.rate = driver.rate]
  <2>1. DOMAIN driver' = {"fmt", "size", "rate"} /\ driver'.rate = driver.rate
    BY <1>3, <1>4
  <2>2. known' = known \ {"set_size_and_format"}
    BY <1>2, <2>1
  <2>. QED  BY <1>1, <2>1, <2>2 DEF object, SetupHolds, MatchHolds, FormatHolds, RateHolds
<1>5. CASE driver' = [driver EXCEPT !.rate = s.rate]
  <2>1. /\ DOMAIN driver' = {"fmt", "size", "rate"}
        /\ driver'.fmt = driver.fmt /\ driver'.size = driver.size
    BY <1>5
  <2>2. "set_frame_rate" \in known' => driver'.rate = driver.rate
    BY <1>2
  <2>. QED  BY <1>1, <2>1, <2>2 DEF object, SetupHolds, MatchHolds, FormatHolds, RateHolds, Planes
<1>. QED  BY <1>2, <1>4, <1>5

\* The type of the buffers changes only with the formats set for it.
LEMMA QueryStep ==
  ASSUME IInv, NEW with_validation \in BOOLEAN, query_capabilities(with_validation)
  PROVE  IInv'
<1>. USE DEF IInv, OfOpenDevice, InProgress, Enumerated
<1>1. /\ pc = "idle" /\ fd /\ pc' = "idle" /\ local' = NoLocal
      /\ UNCHANGED <<fd, fmt_fourcc, fps, size, plane_count, buf_sizes, device, wanted>>
  BY DEF query_capabilities, Return, Idle
<1>2. known' \subseteq known \cup {"query_capabilities"}
  BY DEF query_capabilities, Return
<1>3. "set_size_and_format" \in known' => buf_type' = buf_type
  BY DEF query_capabilities, Return
<1>4. OfOpenDevice' /\ InProgress' /\ Enumerated'
  BY <1>1, <1>2 DEF device
<1>5. SetupHolds'
  BY <1>1, <1>2, <1>3 DEF device, SetupHolds, MatchHolds, FormatHolds, RateHolds, Planes
<1>. QED  BY <1>4, <1>5

-----------------------------------------------------------------------------
\* The enumeration begins with no format noted, and goes on by one.
LEMMA MatchFormatStep ==
  ASSUME IInv, match_format
  PROVE  IInv'
<1>1. /\ pc = "idle" /\ fd /\ pc' = "ENUM_FMT" /\ known' = known \ {"match_format"}
      /\ UNCHANGED <<object, device, local>> /\ local = NoLocal
  BY DEF match_format, Idle, IInv, InProgress
<1>2. local'.index = 1 /\ local'.found = {} /\ 1..local'.index - 1 = {}
  BY <1>1 DEF NoLocal
<1>3. present => Len(dev.formats) \in Nat
  BY SetupAssumption DEF IInv, OfOpenDevice
<1>4. OfOpenDevice' /\ InProgress' /\ Enumerated'
  BY <1>1, <1>2, <1>3 DEF IInv, OfOpenDevice, InProgress, Enumerated, object, device
<1>5. SetupHolds'
  BY <1>1 DEF IInv, SetupHolds, MatchHolds, FormatHolds, RateHolds, Planes, object, device
<1>. QED  BY <1>4, <1>5 DEF IInv

LEMMA EnumFmtStep ==
  ASSUME IInv, EnumFmt
  PROVE  IInv'
<1>. DEFINE answered == Accepts /\ local.index <= Len(dev.formats)
            pixelformat == dev.formats[local.index]
            choice == IF wanted = "auto" THEN Preferred(local.found) ELSE None
<1>1. /\ pc = "ENUM_FMT" /\ "match_format" \notin known /\ fd
      /\ UNCHANGED <<fd, capabilities, buf_type, fps, size, plane_count, buf_sizes, wanted, device>>
  BY DEF EnumFmt, IInv, Enumerated, OfOpenDevice
<1>2. /\ local.index \in Nat \ {0} /\ local.found \subseteq STRING
      /\ local.found # {} => buf_type \in dev.this
      /\ present => /\ local.index <= Len(dev.formats) + 1
                    /\ local.found = {dev.formats[i] : i \in 1..local.index - 1}
  BY <1>1 DEF IInv, Enumerated
<1>3. present => dev.formats \in Seq(STRING) /\ Len(dev.formats) \in Nat /\ DOMAIN dev.formats = 1..Len(dev.formats)
                 /\ ToSet(dev.formats) \cap {"auto", "none"} = {}
  BY SetupAssumption DEF IInv, OfOpenDevice
<1>4. CASE answered /\ pixelformat = wanted /\ Matched(pixelformat, TRUE)
  <2>1. present /\ local.index \in DOMAIN dev.formats
    BY <1>2, <1>3, <1>4 DEF Accepts, Works
  <2>2. pixelformat \in ToSet(dev.formats)
    BY <2>1 DEF ToSet
  <2>3. wanted # "auto"
    BY <1>3, <1>4, <2>1, <2>2
  <2>4. /\ fmt_fourcc' = wanted /\ pc' = "idle" /\ local' = NoLocal
        /\ known' \subseteq (known \ {"set_size_and_format"}) \cup {"match_format"}
    BY <1>4 DEF Matched, Return
  <2>. QED
    BY <1>1, <1>4, <2>2, <2>3, <2>4
    DEF IInv, OfOpenDevice, InProgress, Enumerated, SetupHolds, MatchHolds, FormatHolds, RateHolds, device, NoLocal
<1>5. CASE /\ answered /\ pixelformat # wanted
           /\ local' = [local EXCEPT !.index = @ + 1, !.found = @ \cup {pixelformat}]
           /\ UNCHANGED <<fmt_fourcc, pc, known>>
  <2>1. present /\ local.index \in DOMAIN dev.formats /\ buf_type \in dev.this
    BY <1>2, <1>3, <1>5 DEF Accepts, Works
  <2>2. DOMAIN local' = {"index", "found", "err"} /\ local'.index = local.index + 1
        /\ local'.found = local.found \cup {pixelformat}
    BY <1>5 DEF IInv, OfOpenDevice
  <2>3. pixelformat \in STRING
    BY <1>3, <2>1
  <2>4. {dev.formats[i] : i \in 1..local'.index - 1} = {dev.formats[i] : i \in 1..local.index - 1} \cup {pixelformat}
    <3>1. 1..local'.index - 1 = (1..local.index - 1) \cup {local.index}
      BY <1>2, <2>2
    <3>. QED  BY <3>1
  <2>5. Enumerated'
    <3>1. pc' = "ENUM_FMT" /\ UNCHANGED <<known, buf_type, dev, present>>
      BY <1>1, <1>5 DEF device
    <3>2. local'.index \in Nat \ {0} /\ local'.found \subseteq STRING
      BY <1>2, <2>2, <2>3
    <3>3. local'.index <= Len(dev.formats) + 1
      BY <1>2, <1>3, <2>1, <2>2
    <3>4. local'.found = {dev.formats[i] : i \in 1..local'.index - 1}
      BY <1>2, <2>1, <2>2, <2>4
    <3>. QED  BY <1>1, <2>1, <3>1, <3>2, <3>3, <3>4 DEF Enumerated
  <2>. QED
    BY <1>1, <1>5, <2>2, <2>5
    DEF IInv, OfOpenDevice, InProgress, SetupHolds, MatchHolds, FormatHolds, RateHolds, Planes, device
<1>6. CASE ~answered /\ Matched(IF choice = None THEN fmt_fourcc ELSE choice, choice # None)
  <2>1. pc' = "idle" /\ local' = NoLocal
    BY <1>6 DEF Matched, Return
  <2>2. CASE choice = None
    <3>1. fmt_fourcc' = fmt_fourcc /\ known' \subseteq known
      BY <1>6, <2>2 DEF Matched, Return
    <3>. QED
      BY <1>1, <2>1, <3>1
      DEF IInv, OfOpenDevice, InProgress, Enumerated, SetupHolds, MatchHolds, FormatHolds, RateHolds, Planes, device, NoLocal
  <2>3. CASE choice # None
    <3>1. /\ fmt_fourcc' = choice /\ choice = Preferred(local.found) /\ wanted = "auto"
          /\ known' \subseteq (known \ {"set_size_and_format"}) \cup {"match_format"}
      BY <1>6, <2>3 DEF Matched, Return
    <3>2. local.found # {}
      BY <2>3, <3>1 DEF Preferred
    <3>3. present => local.found = ToSet(dev.formats)
      <4>. SUFFICES ASSUME present PROVE local.found = ToSet(dev.formats)
        OBVIOUS
      <4>1. local.index = Len(dev.formats) + 1
        BY <1>1, <1>2, <1>3, <1>6, <3>2 DEF Accepts, Works
      <4>2. 1..local.index - 1 = DOMAIN dev.formats
        BY <1>3, <4>1
      <4>. QED  BY <1>2, <4>2 DEF ToSet
    <3>4. present => \E i \in DOMAIN Order : choice = Order[i] /\ choice \in ToSet(dev.formats)
                                             /\ \A j \in 1..i - 1 : Order[j] \notin ToSet(dev.formats)
      BY <1>3, <2>3, <3>1, <3>3, PreferredIsFirst
    <3>5. present' => MatchHolds'
      BY <1>1, <3>1, <3>4 DEF MatchHolds, device
    <3>. QED
      BY <1>1, <2>1, <3>1, <3>5
      DEF IInv, OfOpenDevice, InProgress, Enumerated, SetupHolds, FormatHolds, RateHolds, device, NoLocal
  <2>. QED  BY <2>2, <2>3
<1>. QED  BY <1>4, <1>5, <1>6 DEF EnumFmt

-----------------------------------------------------------------------------
\* The format read back is compared whole, so that success means that they agree.
LEMMA FormatSteps ==
  ASSUME IInv, set_size_and_format \/ GFmt
  PROVE  IInv'
<1>. USE DEF IInv, OfOpenDevice, InProgress, Enumerated, SetupHolds, MatchHolds, FormatHolds, RateHolds
<1>1. CASE set_size_and_format
  <2>1. /\ pc = "idle" /\ fd
        /\ UNCHANGED <<fd, capabilities, buf_type, fmt_fourcc, fps, plane_count, buf_sizes, dev, present, others, wanted>>
    BY <1>1 DEF set_size_and_format, Idle
  <2>2. CASE Return("set_size_and_format", FALSE, {}) /\ UNCHANGED driver
    BY <2>1, <2>2 DEF Return, NoLocal
  <2>3. CASE /\ pc' = "G_FMT" /\ known' = known \ {"set_size_and_format", "set_frame_rate"}
             /\ \E fmt, s, rate : driver' = [fmt |-> fmt, size |-> s, rate |-> rate]
             /\ UNCHANGED local
    BY <2>1, <2>3
  <2>. QED  BY <1>1, <2>2, <2>3 DEF set_size_and_format
<1>2. CASE GFmt
  <2>1. /\ pc = "G_FMT" /\ fd /\ known \cap {"set_size_and_format", "set_frame_rate"} = {}
        /\ UNCHANGED <<fd, capabilities, buf_type, fmt_fourcc, fps, size, device, wanted>>
        /\ pc' = "idle" /\ local' = NoLocal /\ known' \subseteq known \cup {"set_size_and_format"}
    BY <1>2 DEF GFmt, Return
  <2>2. "set_size_and_format" \in known' =>
          /\ driver.size = size /\ driver.fmt = fmt_fourcc
          /\ plane_count' = Planes(driver.fmt) /\ buf_sizes' = <<driver.fmt, driver.size>>
    BY <1>2, <2>1 DEF GFmt, Return, IsAsSet
  <2>. QED  BY <2>1, <2>2 DEF device, Planes, NoLocal
<1>. QED  BY <1>1, <1>2

\* The rate read back is compared with the one that the object keeps, and a device
\* that cannot tell its rate has made the first reading fail.
LEMMA RateSteps ==
  ASSUME IInv, set_frame_rate \/ SParm \/ GParm
  PROVE  IInv'
<1>. USE DEF IInv, OfOpenDevice, InProgress, Enumerated, SetupHolds, MatchHolds, FormatHolds, RateHolds
<1>1. CASE set_frame_rate
  <2>. DEFINE read == Accepts /\ dev.tells
              same(asked) == read /\ Whole(driver.rate) = Whole(asked)
  <2>1. /\ pc = "idle" /\ fd
        /\ UNCHANGED <<fd, capabilities, buf_type, fmt_fourcc, size, plane_count, buf_sizes, device, wanted>>
    BY <1>1 DEF set_frame_rate, Idle
  <2>2. PICK asked \in Rates :
          \/ (same(asked) \/ asked = 0) /\ Return("set_frame_rate", read, {})
             /\ fps' = IF same(asked) THEN asked ELSE IF read THEN driver.rate ELSE Fallback
          \/ Return("set_frame_rate", FALSE, {})
          \/ /\ pc' = "S_PARM" /\ local' = [NoLocal EXCEPT !.err = ~read]
             /\ known' = known \ {"set_frame_rate"}
    BY <1>1 DEF set_frame_rate
  <2>3. CASE (same(asked) \/ asked = 0) /\ Return("set_frame_rate", read, {})
             /\ fps' = IF same(asked) THEN asked ELSE IF read THEN driver.rate ELSE Fallback
    <3>1. /\ pc' = "idle" /\ local' = NoLocal /\ known' \subseteq known \cup {"set_frame_rate"}
          /\ "set_frame_rate" \in known' => read
      BY <2>3 DEF Return
    <3>2. read => Whole(fps') = Whole(driver.rate)
      BY <2>3
    <3>. QED  BY <2>1, <3>1, <3>2 DEF device, Planes, NoLocal
  <2>4. CASE Return("set_frame_rate", FALSE, {})
    BY <2>1, <2>4 DEF Return, device, Planes, NoLocal
  <2>5. CASE /\ pc' = "S_PARM" /\ local' = [NoLocal EXCEPT !.err = ~read]
             /\ known' = known \ {"set_frame_rate"}
    <3>1. DOMAIN local' = {"index", "found", "err"} /\ local'.err = ~read
      BY <2>5 DEF NoLocal
    <3>2. ~local'.err => dev.tells /\ buf_type \in dev.this
      BY <3>1 DEF Accepts
    <3>. QED  BY <2>1, <2>5, <3>1, <3>2 DEF device, Planes
  <2>. QED  BY <2>2, <2>3, <2>4, <2>5
<1>2. CASE SParm
  <2>1. pc = "S_PARM" /\ fd /\ "set_frame_rate" \notin known /\ UNCHANGED <<object, dev, present, others, wanted>>
    BY <1>2 DEF SParm
  <2>2. CASE Return("set_frame_rate", FALSE, {}) /\ UNCHANGED driver
    BY <2>1, <2>2 DEF Return, object, Planes, NoLocal
  <2>3. CASE /\ pc' = "G_PARM" /\ UNCHANGED <<known, local>>
             /\ \E rate : driver' = [driver EXCEPT !.rate = rate]
    <3>1. /\ DOMAIN driver' = {"fmt", "size", "rate"}
          /\ driver'.fmt = driver.fmt /\ driver'.size = driver.size
      BY <2>3
    <3>. QED  BY <2>1, <2>3, <3>1 DEF object, Planes
  <2>. QED  BY <1>2, <2>2, <2>3 DEF SParm
<1>3. CASE GParm
  <2>1. /\ pc = "G_PARM" /\ fd /\ UNCHANGED <<object, device, wanted>>
        /\ pc' = "idle" /\ local' = NoLocal /\ known' \subseteq known \cup {"set_frame_rate"}
    BY <1>3 DEF GParm, Return
  <2>2. present /\ "set_frame_rate" \in known' => Whole(driver.rate) = Whole(fps)
    BY <1>3, <2>1 DEF GParm, Return, Accepts, Works
  <2>. QED  BY <2>1, <2>2 DEF object, device, Planes, NoLocal
<1>. QED  BY <1>1, <1>2, <1>3

-----------------------------------------------------------------------------
\* The invariant holds in every state that is reached.
THEOREM Invariance == Spec => []IInv
<1>1. Init => IInv
  BY DEF Init, IInv, OfOpenDevice, InProgress, Enumerated, SetupHolds, NoSettings, NoLocal
<1>2. IInv /\ [Next]_vars => IInv'
  <2>. SUFFICES ASSUME IInv, [Next]_vars PROVE IInv'
    OBVIOUS
  <2>1. CASE Next
    BY <2>1, DeviceSteps, OthersStep, QueryStep, MatchFormatStep, EnumFmtStep, FormatSteps, RateSteps
    DEF Next
  <2>2. CASE UNCHANGED vars
    BY <2>2 DEF vars, object, device, IInv, OfOpenDevice, InProgress, Enumerated, SetupHolds, MatchHolds,
                FormatHolds, RateHolds, Planes
  <2>. QED  BY <2>1, <2>2
<1>. QED  BY <1>1, <1>2, PTL DEF Spec

\* Whatever devices there are and whatever other programs do: what a successful call
\* has told holds until it is set anew, of the format and its buffers' sizes and
\* planes, and of the rate.
THEOREM SetupCorrect == Spec => []SetupHolds
<1>1. IInv => SetupHolds
  BY DEF IInv
<1>. QED  BY <1>1, Invariance, PTL
================================================================================
