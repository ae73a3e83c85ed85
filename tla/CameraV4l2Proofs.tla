--------------------------- MODULE CameraV4l2Proofs ---------------------------
(***************************************************************************)
(* Proofs about CameraV4l2, for any number of buffers and planes, any lists*)
(* of modes and any driver: of mapped memory and descriptors the process   *)
(* loses only what could not be marked or released, no frame lies where the*)
(* program cannot reach it, and processor and driver take turns at the     *)
(* memory of a buffer.                                                     *)
(***************************************************************************)
EXTENDS CameraV4l2, FiniteSetTheorems, FunctionTheorems, TLAPS

\* The driver's side of the buffers that the object has.
Buffers == [memory |-> io_mode, count |-> buf_count]

\* The object has all buffers, and the driver has them too or, after a close, none.
Full ==
  /\ buf_count > 0 /\ plane_count > 0
  /\ Cells(buf_count) \subseteq buf_pointers
  /\ io_mode = "DMABUF" => Cells(buf_count) \subseteq buf_file_descriptors
  /\ driver \in {NoBuffers, Buffers}

Step == {"idle", "try", "acquire", "undo", "cancel"}

Types ==
  /\ fd \in BOOLEAN /\ present \in BOOLEAN /\ stream_on \in BOOLEAN /\ streaming \in BOOLEAN
  /\ needs_dma_sync \in BOOLEAN /\ dma_dev_fd \in BOOLEAN /\ allocated \in BOOLEAN
  /\ io_mode \in Mode \cup {"none"}
  /\ buf_count \in 0..MaxBufCount /\ plane_count \in 0..CAMERA_V4L2_MAX_PLANE_COUNT
  /\ driver \in [memory : Mode \cup {"none"}, count : 0..MaxBufCount]
  /\ pc \in Step /\ modes \in Seq(Mode) /\ (pc = "try" => modes # <<>>)

\* What the process has is no less than what the object remembers.
Counts ==
  /\ buf_pointers \subseteq Cell /\ buf_file_descriptors \subseteq Cell
  /\ mappings \in Nat /\ Cardinality(buf_pointers) <= mappings
  /\ unstored \in Nat /\ refused \in Nat
  /\ dmabufs \in Nat /\ Cardinality(buf_file_descriptors) + unstored <= dmabufs
  /\ heaps = IF dma_dev_fd THEN 1 ELSE 0

\* It is no more than was dropped or refused and, while there are buffers, what a
\* release in this mode would give back.
Mapped == Cardinality(buf_pointers \cap Cells(buf_count))
Described == Cardinality(buf_file_descriptors \cap Cells(buf_count))
Releasable ==
  IF io_mode = "MMAP" THEN Mapped
  ELSE IF io_mode = "DMABUF" THEN Mapped + Described + heaps ELSE 0

Loose == mappings + dmabufs + heaps <= unstored + refused
Bounded == mappings + dmabufs + heaps <= Releasable + unstored + refused

\* How far an allocation has come.
Allocating ==
  /\ pc # "idle" => /\ stream_on = FALSE /\ streaming = FALSE /\ plane_count > 0 /\ buf_count > 0
                    /\ allocated = FALSE
  /\ ~allocated => held = {} /\ (pc # "undo" => Loose)
  /\ pc = "acquire" => driver = Buffers
  /\ pc = "undo" => Bounded
  /\ allocated => Full /\ Bounded

\* A stream has buffers, and they are the driver's.
Stream ==
  /\ stream_on => pc = "idle" /\ allocated
  /\ streaming => stream_on /\ fd /\ present /\ driver = Buffers
  /\ queued \subseteq 0..(driver.count - 1) /\ filled \subseteq queued
  /\ held \subseteq 0..(buf_count - 1)

\* The bits say what the processor accesses: none of a buffer that the driver
\* has and all of one that the program has, save where the kernel refused.
Access ==
  /\ bracketed \subseteq dma_synced_bits
  /\ streaming /\ Synchronises /\ ~switched =>
       /\ \A i \in queued : CellsOf(i) \cap dma_synced_bits \subseteq unended
       /\ \A i \in held : CellsOf(i) \cap dma_synced_bits \subseteq bracketed \cup unended

IInv == Types /\ Counts /\ Allocating /\ Stream /\ Access

-----------------------------------------------------------------------------
(* How many cells there are: the loops visit them row by row.              *)

\* Division with remainder.
LEMMA Division ==
  ASSUME NEW p \in Nat, p > 0, NEW k \in Nat
  PROVE  /\ k \div p \in Nat /\ k % p \in 0..(p - 1)
         /\ k = ((k \div p) * p) + (k % p)
<1>1. k = (p * (k \div p)) + (k % p)
  OBVIOUS
<1>2. k \div p \in Int /\ k \div p >= 0
  OBVIOUS
<1>3. k % p \in Int /\ k % p >= 0 /\ k % p < p
  OBVIOUS
<1>4. p * (k \div p) = (k \div p) * p
  BY <1>2
<1>. QED  BY <1>1, <1>2, <1>3, <1>4

\* A row begins where the one before it has ended, or later.
LEMMA Rows ==
  ASSUME NEW p \in Nat, NEW a \in Nat, NEW b \in Nat, a < b
  PROVE  a * p + p <= b * p
<1>1. b = a + 1 + (b - a - 1) /\ b - a - 1 \in Nat
  OBVIOUS
<1>2. (a + 1 + (b - a - 1)) * p = a * p + p + (b - a - 1) * p
  OBVIOUS
<1>3. (b - a - 1) * p \in Nat
  BY <1>1
<1>4. a * p \in Nat
  OBVIOUS
<1>. QED  BY <1>1, <1>2, <1>3, <1>4

\* Two cells of the same place in the order are one.
LEMMA PlaceIsUnique ==
  ASSUME NEW p \in Nat, NEW a \in Nat, NEW b \in Nat, NEW x \in 1..p, NEW y \in 1..p,
         a * p + x = b * p + y
  PROVE  a = b /\ x = y
<1>1. a * p \in Nat /\ b * p \in Nat
  OBVIOUS
<1>2. ASSUME a < b PROVE FALSE
  <2>1. a * p + p <= b * p
    BY <1>2, Rows
  <2>. QED  BY <1>1, <2>1
<1>3. ASSUME b < a PROVE FALSE
  <2>1. b * p + p <= a * p
    BY <1>3, Rows
  <2>. QED  BY <1>1, <2>1
<1>4. a = b
  BY <1>2, <1>3
<1>. QED  BY <1>1, <1>4

\* The first n cells are n, and they are cells of the buffers asked for.
LEMMA FirstCellsCounted ==
  ASSUME plane_count \in 1..CAMERA_V4L2_MAX_PLANE_COUNT, NEW b \in 0..MaxBufCount,
         NEW n \in 0..(b * plane_count)
  PROVE  /\ FirstCells(n) \subseteq Cells(b)
         /\ IsFiniteSet(FirstCells(n)) /\ Cardinality(FirstCells(n)) = n
<1>. DEFINE p == plane_count
            row(k) == (k - 1) \div p
            column(k) == ((k - 1) % p) + 1
            f == [k \in 1..n |-> <<row(k), column(k)>>]
<1>1. p \in Nat /\ p > 0 /\ b \in Nat /\ b <= MaxBufCount /\ MaxBufCount \in Nat
      /\ CAMERA_V4L2_MAX_PLANE_COUNT \in Nat /\ p <= CAMERA_V4L2_MAX_PLANE_COUNT
      /\ b * p \in Nat /\ n \in Nat /\ n <= b * p
  BY CameraAssumption
<1>2. ASSUME NEW k \in 1..n
      PROVE  /\ row(k) \in Nat /\ column(k) \in 1..p /\ k = row(k) * p + column(k)
             /\ row(k) < b
  <2>1. row(k) \in Nat /\ (k - 1) % p \in 0..(p - 1) /\ k - 1 = (row(k) * p) + ((k - 1) % p)
    <3>1. k - 1 \in Nat
      BY <1>1
    <3>. QED  BY <1>1, <3>1, Division
  <2>2. row(k) * p \in Nat
    BY <1>1, <2>1
  <2>3. column(k) \in 1..p /\ k = row(k) * p + column(k)
    BY <1>1, <2>1, <2>2
  <2>4. row(k) < b
    <3>1. SUFFICES ASSUME ~(row(k) < b)
                   PROVE  FALSE
      OBVIOUS
    <3>2. b * p <= row(k) * p
      <4>1. CASE b = row(k)
        BY <4>1, <2>2
      <4>2. CASE b < row(k)
        <5>1. b * p + p <= row(k) * p
          BY <4>2, <1>1, <2>1, Rows
        <5>. QED  BY <5>1, <1>1, <2>2
      <4>. QED  BY <3>1, <4>1, <4>2, <2>1, <1>1
    <3>. QED  BY <3>2, <2>2, <2>3, <1>1
  <2>. QED  BY <2>1, <2>3, <2>4
<1>3. FirstCells(n) \subseteq Cells(b)
  <2>1. SUFFICES ASSUME NEW c \in Index \X (1..CAMERA_V4L2_MAX_PLANE_COUNT),
                        c[2] <= p, c[1] * p + c[2] <= n
                 PROVE  c[1] < b
    BY DEF FirstCells, Cells, Cell
  <2>2. c[1] \in Nat /\ c[2] \in Nat /\ c[2] > 0
    BY <1>1 DEF Index
  <2>3. c[1] * p \in Nat
    BY <1>1, <2>2
  <2>4. ASSUME b <= c[1]
        PROVE  FALSE
    <3>1. b * p <= c[1] * p
      <4>1. CASE b = c[1]
        BY <4>1, <2>3
      <4>2. CASE b < c[1]
        <5>1. b * p + p <= c[1] * p
          BY <4>2, <1>1, <2>2, Rows
        <5>. QED  BY <5>1, <1>1, <2>3
      <4>. QED  BY <2>4, <4>1, <4>2, <2>2, <1>1
    <3>. QED  BY <3>1, <2>1, <2>2, <2>3, <1>1
  <2>. QED  BY <2>4, <2>2, <1>1
<1>4. \A k \in 1..n : f[k] \in FirstCells(n)
  <2>1. TAKE k \in 1..n
  <2>2. row(k) \in Nat /\ column(k) \in 1..p /\ k = row(k) * p + column(k) /\ row(k) < b
    BY <1>2
  <2>3. row(k) \in 0..(MaxBufCount - 1) /\ row(k) < MaxBufCount
        /\ column(k) \in 1..CAMERA_V4L2_MAX_PLANE_COUNT /\ column(k) <= p
    BY <2>2, <1>1
  <2>4. f[k] = <<row(k), column(k)>>
    OBVIOUS
  <2>5. row(k) * p + column(k) <= n
    BY <2>2
  <2>. HIDE DEF row, column, f
  <2>. QED  BY <2>3, <2>4, <2>5 DEF FirstCells, Cells, Cell, Index
<1>5. f \in Injection(1..n, FirstCells(n))
  <2>1. \A j, k \in 1..n : f[j] = f[k] => j = k
    <3>1. SUFFICES ASSUME NEW j \in 1..n, NEW k \in 1..n, row(j) = row(k),
                          column(j) = column(k)
                   PROVE  j = k
      OBVIOUS
    <3>. HIDE DEF row, column
    <3>. QED  BY <1>2, <3>1
  <2>2. f \in [1..n -> FirstCells(n)]
    BY <1>4
  <2>. QED  BY <2>1, <2>2 DEF Injection, IsInjective
<1>6. \A c \in FirstCells(n) : \E k \in 1..n : f[k] = c
  <2>1. SUFFICES ASSUME NEW c \in Index \X (1..CAMERA_V4L2_MAX_PLANE_COUNT),
                        c[2] <= p, c[1] * p + c[2] <= n
                 PROVE  \E k \in 1..n : f[k] = c
    BY DEF FirstCells, Cells, Cell
  <2>2. c[1] \in Nat /\ c[2] \in 1..p /\ c = <<c[1], c[2]>>
    BY <1>1, <2>1 DEF Index
  <2>3. c[1] * p \in Nat
    BY <1>1, <2>2
  <2>. DEFINE k == c[1] * p + c[2]
  <2>4. k \in 1..n
    BY <1>1, <2>1, <2>2, <2>3
  <2>5. row(k) \in Nat /\ column(k) \in 1..p /\ c[1] * p + c[2] = row(k) * p + column(k)
    BY <1>2, <2>4
  <2>. HIDE DEF row, column
  <2>6. c[1] = row(k) /\ c[2] = column(k)
    BY <1>1, <2>2, <2>5, PlaceIsUnique
  <2>. QED  BY <2>2, <2>4, <2>6
<1>7. ExistsBijection(1..n, FirstCells(n))
  BY <1>5, <1>6 DEF Injection, ExistsBijection, Bijection, Surjection
<1>8. IsFiniteSet(1..n) /\ Cardinality(1..n) = n
  BY <1>1, FS_Interval
<1>. QED  BY <1>3, <1>7, <1>8, FS_Bijection

\* All cells of the first b buffers.
LEMMA CellsCounted ==
  ASSUME plane_count \in 1..CAMERA_V4L2_MAX_PLANE_COUNT, NEW b \in 0..MaxBufCount
  PROVE  /\ IsFiniteSet(Cells(b)) /\ Cardinality(Cells(b)) = b * plane_count
         /\ FirstCells(b * plane_count) = Cells(b)
<1>. DEFINE p == plane_count
<1>1. p \in Nat /\ p > 0 /\ b \in Nat /\ b * p \in Nat /\ MaxBufCount \in Nat
  BY CameraAssumption
<1>2. Cells(b) \subseteq FirstCells(b * p)
  <2>1. SUFFICES ASSUME NEW c \in Index \X (1..CAMERA_V4L2_MAX_PLANE_COUNT), c[2] <= p, c[1] < b
                 PROVE  c[1] < MaxBufCount /\ c[1] * p + c[2] <= b * p
    BY DEF FirstCells, Cells, Cell
  <2>2. c[1] \in Nat /\ c[2] \in Nat
    BY <1>1, CameraAssumption DEF Index
  <2>3. c[1] * p + p <= b * p /\ c[1] * p \in Nat
    BY <1>1, <2>1, <2>2, Rows
  <2>. QED  BY <1>1, <2>1, <2>2, <2>3
<1>3. b * p \in 0..(b * p)
  BY <1>1
<1>. QED  BY <1>2, <1>3, FirstCellsCounted

-----------------------------------------------------------------------------
(* Types.                                                                  *)

\* There are finitely many cells, and buffer i of the first b has its own.
LEMMA CellsFinite ==
  /\ \A S : S \subseteq Cell => IsFiniteSet(S)
  /\ \A b \in Int : Cells(b) \subseteq Cell
  /\ \A b \in Int, i \in Int : b <= MaxBufCount /\ i < b => CellsOf(i) \subseteq Cells(b)
<1>1. MaxBufCount \in Nat /\ CAMERA_V4L2_MAX_PLANE_COUNT \in Nat
  BY CameraAssumption
<1>2. IsFiniteSet(Index) /\ IsFiniteSet(1..CAMERA_V4L2_MAX_PLANE_COUNT)
  BY <1>1, FS_Interval DEF Index
<1>3. IsFiniteSet(Cell)
  BY <1>2, FS_Product DEF Cell
<1>4. \A S : S \subseteq Cell => IsFiniteSet(S)
  BY <1>3, FS_Subset
<1>. QED  BY <1>1, <1>4 DEF Cells, CellsOf, Cell, Index

\* An allocation asks for a number of buffers that the object has room for.
LEMMA RequestedCountType ==
  ASSUME NEW n \in 0..(MaxBufCount + 1)
  PROVE  RequestedCount(n) \in 1..MaxBufCount
BY CameraAssumption DEF RequestedCount

\* The lists of modes shrink.
LEMMA ModesType ==
  ASSUME modes \in Seq(Mode), modes # <<>>
  PROVE  Head(modes) \in Mode /\ Tail(modes) \in Seq(Mode)
OBVIOUS

LEMMA TypesInit == Init => Types
<1>1. SUFFICES ASSUME Init
               PROVE  Types
  OBVIOUS
<1>2. 0 \in 0..MaxBufCount /\ 0 \in 0..CAMERA_V4L2_MAX_PLANE_COUNT
  BY CameraAssumption
<1>3. driver \in [memory : Mode \cup {"none"}, count : 0..MaxBufCount]
  BY <1>1, <1>2 DEF Init, NoBuffers
<1>4. modes = <<>> /\ <<>> \in Seq(Mode)
  BY <1>1 DEF Init
<1>. QED  BY <1>1, <1>2, <1>3, <1>4 DEF Init, Types, Step

LEMMA TypesStep ==
  ASSUME Types, [Next]_vars
  PROVE  Types'
<1>. USE DEF object, memory, access, queue, program, Step
<1>m. MaxBufCount \in Nat /\ MaxBufCount >= 2
  BY CameraAssumption
<1>d. NoBuffers \in [memory : Mode \cup {"none"}, count : 0..MaxBufCount]
  BY <1>m DEF NoBuffers
<1>e. <<>> \in Seq(Mode)
  OBVIOUS
<1>1. CASE Open \/ Unplug
  BY <1>1 DEF Types, Open, Unplug, Idle, Works
<1>11. CASE SetSizeAndFormat
  <2>1. plane_count' \in 0..CAMERA_V4L2_MAX_PLANE_COUNT
    BY <1>11, CameraAssumption DEF SetSizeAndFormat, Types
  <2>. QED  BY <1>11, <2>1 DEF SetSizeAndFormat, Types
<1>2. CASE Close
  BY <1>2, <1>d DEF Types, Close, Idle, Works
<1>3. CASE CallAlloc
  <2>1. buf_count' \in 0..MaxBufCount
    BY <1>3, <1>m, RequestedCountType DEF CallAlloc
  <2>2. modes' \in Seq(Mode) /\ pc' \in Step /\ (pc' = "try" => modes' # <<>>)
    BY <1>3, CameraAssumption DEF CallAlloc, Types, Idle
  <2>3. driver' \in [memory : Mode \cup {"none"}, count : 0..MaxBufCount] /\ streaming' \in BOOLEAN
    BY <1>3, <1>d DEF CallAlloc, Types, Reqbufs, NoBuffers
  <2>. QED  BY <1>3, <2>1, <2>2, <2>3 DEF CallAlloc, Types
<1>4. CASE TryMode
  <2>1. Head(modes) \in Mode /\ Tail(modes) \in Seq(Mode)
    BY <1>4, ModesType DEF TryMode, Types
  <2>2. io_mode' \in Mode /\ modes' \in Seq(Mode)
    BY <1>4, <2>1 DEF TryMode
  <2>3. buf_count' \in 0..MaxBufCount
    BY <1>4, <1>m DEF TryMode, Types
  <2>4. driver' \in [memory : Mode \cup {"none"}, count : 0..MaxBufCount] /\ streaming' \in BOOLEAN
    BY <1>4, <1>d, <1>m, <2>2 DEF TryMode, Types, Reqbufs, NoBuffers
  <2>5. pc' \in Step /\ (pc' = "try" => modes' # <<>>)
    BY <1>4 DEF TryMode, NextMode
  <2>. QED  BY <1>4, <2>2, <2>3, <2>4, <2>5 DEF TryMode, Types
<1>5. CASE mmap_buffers \/ camera_v4l2_alloc_user_buffers \/ camera_v4l2_acquire_dma_buffers
  <2>1. modes' \in {modes, <<>>} /\ pc' \in Step /\ pc' # "try" /\ allocated' \in BOOLEAN
        /\ dma_dev_fd' \in BOOLEAN
    BY <1>5 DEF mmap_buffers, camera_v4l2_alloc_user_buffers, camera_v4l2_acquire_dma_buffers,
                Acquired, Types
  <2>2. UNCHANGED <<object, queue, present>>
    BY <1>5 DEF mmap_buffers, camera_v4l2_alloc_user_buffers, camera_v4l2_acquire_dma_buffers
  <2>. QED  BY <1>e, <2>1, <2>2 DEF Types
<1>6. CASE Undo \/ Free
  <2>1. dma_dev_fd' \in BOOLEAN
    BY <1>6 DEF Types, Undo, Free, Release, camera_v4l2_release_dma_buffers_if_any
  <2>2. UNCHANGED <<object, queue, present, modes>> /\ pc' \in Step /\ pc' # "try"
        /\ allocated' \in BOOLEAN
    BY <1>6 DEF Types, Undo, Free, Idle
  <2>. QED  BY <2>1, <2>2 DEF Types
<1>7. CASE Cancel
  <2>1. modes' \in Seq(Mode) /\ pc' \in Step /\ (pc' = "try" => modes' # <<>>)
    <3>1. modes' \in {<<>>, modes}
      BY <1>7 DEF Cancel
    <3>2. pc' = "idle" \/ (pc' = "try" /\ modes # <<>>)
      BY <1>7 DEF Cancel, NextMode
    <3>3. pc' = "try" => modes' = modes
      BY <1>7 DEF Cancel
    <3>4. <<>> \in Seq(Mode) /\ modes \in Seq(Mode)
      BY DEF Types
    <3>. QED  BY <3>1, <3>2, <3>3, <3>4
  <2>2. driver' \in [memory : Mode \cup {"none"}, count : 0..MaxBufCount] /\ streaming' \in BOOLEAN
    BY <1>7, <1>d DEF Cancel, Types, Reqbufs, NoBuffers
  <2>. QED  BY <1>7, <2>1, <2>2 DEF Cancel, Types
<1>8. CASE StartCapture
  BY <1>8 DEF Types, StartCapture, Idle
<1>9. CASE StopCapture \/ Fill \/ Fetch \/ Enqueue
  BY <1>9 DEF Types, StopCapture, Fill, Fetch, Enqueue, Idle
<1>10. CASE UNCHANGED vars
  BY <1>10 DEF Types, vars
<1>. QED  BY <1>1, <1>2, <1>3, <1>4, <1>5, <1>6, <1>7, <1>8, <1>9, <1>10, <1>11 DEF Next

-----------------------------------------------------------------------------
(* What the process has.                                                   *)

\* What is taken out of a finite set, and what is put into it.
LEMMA Sizes ==
  ASSUME NEW S, IsFiniteSet(S), NEW T, IsFiniteSet(T)
  PROVE  /\ Cardinality(S) \in Nat /\ Cardinality(T) \in Nat
         /\ T \subseteq S => Cardinality(S \ T) = Cardinality(S) - Cardinality(T)
         /\ T \subseteq S => Cardinality(T) <= Cardinality(S)
         /\ Cardinality(S \cup T) <= Cardinality(S) + Cardinality(T)
         /\ Cardinality(S \cup T) \in Nat
<1>1. Cardinality(S) \in Nat /\ Cardinality(T) \in Nat
  BY FS_CardinalityType
<1>2. IsFiniteSet(S \cup T) /\ IsFiniteSet(S \cap T)
      /\ Cardinality(S \cup T) = Cardinality(S) + Cardinality(T) - Cardinality(S \cap T)
  BY FS_Union, FS_Intersection
<1>3. Cardinality(S \cap T) \in Nat /\ Cardinality(S \cup T) \in Nat
  BY <1>2, FS_CardinalityType
<1>4. Cardinality(S \ T) = Cardinality(S) - Cardinality(S \cap T)
  BY FS_Difference
<1>5. T \subseteq S => S \cap T = T
  OBVIOUS
<1>6. T \subseteq S => Cardinality(T) <= Cardinality(S)
  BY FS_Subset
<1>. QED  BY <1>1, <1>2, <1>3, <1>4, <1>5, <1>6

\* The object's cells and those that its loops reach.
LEMMA Remembered ==
  ASSUME Types, Counts
  PROVE  /\ \A S : S \subseteq Cell => IsFiniteSet(S) /\ Cardinality(S) \in Nat
         /\ Cells(buf_count) \subseteq Cell
         /\ Mapped \in Nat /\ Mapped <= mappings
         /\ Described \in Nat /\ Described + unstored <= dmabufs
         /\ heaps \in 0..1 /\ Releasable \in Nat /\ Releasable <= Mapped + Described + heaps
<1>1. buf_count \in Int
  BY CameraAssumption DEF Types
<1>2. \A S : S \subseteq Cell => IsFiniteSet(S) /\ Cardinality(S) \in Nat
  BY CellsFinite, FS_CardinalityType
<1>3. Cells(buf_count) \subseteq Cell
  BY <1>1, CellsFinite
<1>4. /\ buf_pointers \subseteq Cell /\ buf_file_descriptors \subseteq Cell
      /\ mappings \in Nat /\ Cardinality(buf_pointers) <= mappings
      /\ unstored \in Nat /\ dmabufs \in Nat
      /\ Cardinality(buf_file_descriptors) + unstored <= dmabufs
      /\ heaps \in 0..1
  BY DEF Counts
<1>5. Mapped \in Nat /\ Mapped <= Cardinality(buf_pointers) /\ Cardinality(buf_pointers) \in Nat
  <2>1. buf_pointers \cap Cells(buf_count) \subseteq buf_pointers /\ IsFiniteSet(buf_pointers)
    BY <1>2, <1>4
  <2>2. Cardinality(buf_pointers \cap Cells(buf_count)) <= Cardinality(buf_pointers)
        /\ IsFiniteSet(buf_pointers \cap Cells(buf_count))
    BY <2>1, FS_Subset
  <2>. QED  BY <2>1, <2>2, FS_CardinalityType DEF Mapped
<1>6. Described \in Nat /\ Described <= Cardinality(buf_file_descriptors)
      /\ Cardinality(buf_file_descriptors) \in Nat
  <2>1. buf_file_descriptors \cap Cells(buf_count) \subseteq buf_file_descriptors
        /\ IsFiniteSet(buf_file_descriptors)
    BY <1>2, <1>4
  <2>2. /\ Cardinality(buf_file_descriptors \cap Cells(buf_count))
             <= Cardinality(buf_file_descriptors)
        /\ IsFiniteSet(buf_file_descriptors \cap Cells(buf_count))
    BY <2>1, FS_Subset
  <2>. QED  BY <2>1, <2>2, FS_CardinalityType DEF Described
<1>7. Releasable \in Nat /\ Releasable <= Mapped + Described + heaps
  BY <1>4, <1>5, <1>6 DEF Releasable
<1>. QED  BY <1>2, <1>3, <1>4, <1>5, <1>6, <1>7

\* What is loose is within bounds.
LEMMA LooseIsBounded ==
  ASSUME Types, Counts, Loose
  PROVE  Bounded
<1>1. Releasable \in Nat /\ mappings \in Nat /\ dmabufs \in Nat /\ heaps \in Nat
      /\ unstored \in Nat /\ refused \in Nat
  BY Remembered DEF Counts
<1>. QED  BY <1>1 DEF Loose, Bounded

LEMMA CountsKept ==
  ASSUME Counts, UNCHANGED <<memory, losses>>
  PROVE  Counts' /\ (Loose => Loose')
BY DEF Counts, memory, losses, Loose

LEMMA BoundedKept ==
  ASSUME Bounded, UNCHANGED <<memory, losses, buf_count, plane_count, io_mode>>
  PROVE  Bounded'
BY DEF Bounded, Releasable, Mapped, Described, Cells, memory, losses

\* Unmapping or closing all of a set of cells that is remembered, but for those refused.
LEMMA GiveBack ==
  ASSUME NEW all, NEW mine, NEW kept \in SUBSET mine, mine \subseteq all, IsFiniteSet(all)
  PROVE  /\ Cardinality(mine \ kept) = Cardinality(mine) - Cardinality(kept)
         /\ Cardinality(all \ (mine \ kept)) = Cardinality(all) - Cardinality(mine \ kept)
         /\ Cardinality(mine \ kept) <= Cardinality(mine)
         /\ Cardinality(mine \ kept) \in Nat /\ Cardinality(kept) \in Nat
         /\ Cardinality(mine) \in Nat /\ Cardinality(all) \in Nat
<1>1. IsFiniteSet(mine)
  BY FS_Subset
<1>2. IsFiniteSet(kept)
  BY <1>1, FS_Subset
<1>3. mine \ kept \subseteq all /\ mine \ kept \subseteq mine
  OBVIOUS
<1>4. IsFiniteSet(mine \ kept)
  BY <1>1, <1>3, FS_Subset
<1>5. Cardinality(mine \ kept) = Cardinality(mine) - Cardinality(kept)
  BY <1>1, <1>2, Sizes
<1>6. Cardinality(all \ (mine \ kept)) = Cardinality(all) - Cardinality(mine \ kept)
  BY <1>3, <1>4, Sizes
<1>. QED  BY <1>1, <1>2, <1>3, <1>4, <1>5, <1>6, FS_CardinalityType, FS_Subset

\* Releasing the buffers leaves what is refused, whatever there was.
LEMMA ReleaseLoosens ==
  ASSUME Types, Counts, Bounded, Release, UNCHANGED unstored
  PROVE  Counts' /\ Loose'
<1>1. /\ \A S : S \subseteq Cell => IsFiniteSet(S) /\ Cardinality(S) \in Nat
      /\ Cells(buf_count) \subseteq Cell
      /\ Mapped \in Nat /\ Mapped <= mappings
      /\ Described \in Nat /\ Described + unstored <= dmabufs
      /\ heaps \in 0..1
  BY Remembered
<1>2. /\ mappings \in Nat /\ dmabufs \in Nat /\ unstored \in Nat /\ refused \in Nat
      /\ buf_pointers \subseteq Cell /\ buf_file_descriptors \subseteq Cell
      /\ Cardinality(buf_pointers) <= mappings
      /\ Cardinality(buf_file_descriptors) + unstored <= dmabufs
      /\ heaps = IF dma_dev_fd THEN 1 ELSE 0
  BY DEF Counts
<1>3. ASSUME NEW kept \in SUBSET (buf_pointers \cap Cells(buf_count)), munmap_buffers_if_any(kept)
      PROVE  /\ buf_pointers' \subseteq Cell /\ mappings' \in Nat
             /\ Cardinality(buf_pointers') <= mappings'
             /\ mappings' = mappings - Mapped + Cardinality(kept) /\ Cardinality(kept) \in Nat
  <2>. DEFINE mine == buf_pointers \cap Cells(buf_count)
  <2>1. IsFiniteSet(buf_pointers) /\ mine \subseteq buf_pointers /\ kept \in SUBSET mine
    BY <1>1, <1>2, <1>3
  <2>2. buf_pointers' = buf_pointers \ (mine \ kept)
        /\ mappings' = mappings - Cardinality(mine \ kept) /\ Cardinality(mine) = Mapped
    BY <1>3 DEF munmap_buffers_if_any, Mapped
  <2>. HIDE DEF mine
  <2>3. /\ Cardinality(mine \ kept) = Cardinality(mine) - Cardinality(kept)
        /\ Cardinality(buf_pointers \ (mine \ kept))
             = Cardinality(buf_pointers) - Cardinality(mine \ kept)
        /\ Cardinality(mine \ kept) <= Cardinality(mine)
        /\ Cardinality(mine \ kept) \in Nat /\ Cardinality(kept) \in Nat
        /\ Cardinality(mine) \in Nat /\ Cardinality(buf_pointers) \in Nat
    BY <2>1, GiveBack
  <2>4. buf_pointers' \subseteq Cell
    BY <1>2, <2>2
  <2>. QED  BY <1>1, <1>2, <2>2, <2>3, <2>4
<1>4. ASSUME NEW open \in SUBSET (buf_file_descriptors \cap Cells(buf_count)),
             buf_file_descriptors' =
               buf_file_descriptors \ ((buf_file_descriptors \cap Cells(buf_count)) \ open),
             dmabufs' =
               dmabufs - Cardinality((buf_file_descriptors \cap Cells(buf_count)) \ open)
      PROVE  /\ buf_file_descriptors' \subseteq Cell /\ dmabufs' \in Nat
             /\ Cardinality(buf_file_descriptors') + unstored <= dmabufs'
             /\ dmabufs' = dmabufs - Described + Cardinality(open) /\ Cardinality(open) \in Nat
  <2>. DEFINE mine == buf_file_descriptors \cap Cells(buf_count)
  <2>1. IsFiniteSet(buf_file_descriptors) /\ mine \subseteq buf_file_descriptors
        /\ open \in SUBSET mine
    BY <1>1, <1>2, <1>4
  <2>2. buf_file_descriptors' = buf_file_descriptors \ (mine \ open)
        /\ dmabufs' = dmabufs - Cardinality(mine \ open) /\ Cardinality(mine) = Described
    BY <1>4 DEF Described
  <2>. HIDE DEF mine
  <2>3. /\ Cardinality(mine \ open) = Cardinality(mine) - Cardinality(open)
        /\ Cardinality(buf_file_descriptors \ (mine \ open))
             = Cardinality(buf_file_descriptors) - Cardinality(mine \ open)
        /\ Cardinality(mine \ open) <= Cardinality(mine)
        /\ Cardinality(mine \ open) \in Nat /\ Cardinality(open) \in Nat
        /\ Cardinality(mine) \in Nat /\ Cardinality(buf_file_descriptors) \in Nat
    BY <2>1, GiveBack
  <2>4. buf_file_descriptors' \subseteq Cell
    BY <1>2, <2>2
  <2>. QED  BY <1>1, <1>2, <2>2, <2>3, <2>4
<1>5. CASE io_mode = "MMAP"
  <2>1. PICK kept \in SUBSET (buf_pointers \cap Cells(buf_count)) :
          munmap_buffers_if_any(kept) /\ refused' = refused + Cardinality(kept)
    BY <1>5 DEF Release, Refuse
  <2>2. UNCHANGED <<buf_file_descriptors, dmabufs, dma_dev_fd, heaps>>
    BY <1>5 DEF Release
  <2>3. /\ buf_pointers' \subseteq Cell /\ mappings' \in Nat
        /\ Cardinality(buf_pointers') <= mappings'
        /\ mappings' = mappings - Mapped + Cardinality(kept) /\ Cardinality(kept) \in Nat
    BY <1>3, <2>1
  <2>4. mappings + dmabufs + heaps <= Mapped + unstored + refused
    BY <1>5 DEF Bounded, Releasable
  <2>5. Loose'
    BY <1>1, <1>2, <2>1, <2>2, <2>3, <2>4 DEF Loose
  <2>6. Counts'
    BY <1>2, <2>1, <2>2, <2>3 DEF Counts
  <2>. QED  BY <2>5, <2>6
<1>6. CASE io_mode = "DMABUF"
  <2>1. PICK kept \in SUBSET (buf_pointers \cap Cells(buf_count)),
             open \in SUBSET (buf_file_descriptors \cap Cells(buf_count)), heap \in BOOLEAN :
          /\ camera_v4l2_release_dma_buffers_if_any(kept, open, heap)
          /\ heap => dma_dev_fd
          /\ refused' = refused + (Cardinality(kept) + Cardinality(open) + IF heap THEN 1 ELSE 0)
    BY <1>6 DEF Release, Refuse
  <2>2. munmap_buffers_if_any(kept)
    BY <2>1 DEF camera_v4l2_release_dma_buffers_if_any
  <2>3. /\ buf_file_descriptors' =
             buf_file_descriptors \ ((buf_file_descriptors \cap Cells(buf_count)) \ open)
        /\ dmabufs' = dmabufs - Cardinality((buf_file_descriptors \cap Cells(buf_count)) \ open)
    BY <2>1 DEF camera_v4l2_release_dma_buffers_if_any
  <2>4. dma_dev_fd' = heap /\ heaps' = IF heap THEN 1 ELSE 0
    BY <1>2, <2>1 DEF camera_v4l2_release_dma_buffers_if_any, Types
  <2>5. /\ buf_pointers' \subseteq Cell /\ mappings' \in Nat
        /\ Cardinality(buf_pointers') <= mappings'
        /\ mappings' = mappings - Mapped + Cardinality(kept) /\ Cardinality(kept) \in Nat
    BY <1>3, <2>2
  <2>6. /\ buf_file_descriptors' \subseteq Cell /\ dmabufs' \in Nat
        /\ Cardinality(buf_file_descriptors') + unstored <= dmabufs'
        /\ dmabufs' = dmabufs - Described + Cardinality(open) /\ Cardinality(open) \in Nat
    BY <1>4, <2>3
  <2>7. mappings + dmabufs + heaps <= Mapped + Described + heaps + unstored + refused
    BY <1>6 DEF Bounded, Releasable
  <2>8. refused' = refused + Cardinality(kept) + Cardinality(open) + heaps'
    BY <1>2, <2>1, <2>4, <2>5, <2>6
  <2>9. Loose'
    BY <1>1, <1>2, <2>4, <2>5, <2>6, <2>7, <2>8 DEF Loose
  <2>10. Counts'
    BY <1>2, <2>4, <2>5, <2>6, <2>8 DEF Counts
  <2>. QED  BY <2>9, <2>10
<1>7. CASE io_mode \notin {"MMAP", "DMABUF"}
  <2>1. UNCHANGED <<memory, losses>>
    BY <1>7 DEF Release, losses
  <2>2. Loose
    BY <1>2, <1>7 DEF Bounded, Releasable, Loose
  <2>. QED  BY <2>1, <2>2, CountsKept
<1>. QED  BY <1>5, <1>6, <1>7

\* Acquiring the first n cells.
LEMMA MapCells ==
  ASSUME Types, plane_count > 0, NEW n \in 0..Cardinality(Cells(buf_count))
  PROVE  /\ FirstCells(n) \subseteq Cells(buf_count) /\ Cardinality(FirstCells(n)) = n
         /\ n \in Nat /\ Cardinality(Cells(buf_count)) \in Nat
         /\ n = Cardinality(Cells(buf_count)) => FirstCells(n) = Cells(buf_count)
<1>1. plane_count \in 1..CAMERA_V4L2_MAX_PLANE_COUNT /\ buf_count \in 0..MaxBufCount
  BY CameraAssumption DEF Types
<1>2. Cardinality(Cells(buf_count)) = buf_count * plane_count
      /\ FirstCells(buf_count * plane_count) = Cells(buf_count)
  BY <1>1, CellsCounted
<1>3. n \in 0..(buf_count * plane_count)
  BY <1>2
<1>4. FirstCells(n) \subseteq Cells(buf_count) /\ Cardinality(FirstCells(n)) = n
  BY <1>1, <1>3, FirstCellsCounted
<1>6. buf_count * plane_count \in Nat
  BY <1>1, CameraAssumption
<1>7. n \in Nat
  BY <1>3, <1>6
<1>. QED  BY <1>2, <1>4, <1>6, <1>7

\* With n more cells, n at least are within reach, and no more than n were added.
LEMMA MoreCells ==
  ASSUME Types, plane_count > 0, NEW n \in 0..Cardinality(Cells(buf_count)),
         NEW S, S \subseteq Cell
  PROVE  /\ S \cup FirstCells(n) \subseteq Cell
         /\ Cardinality(S \cup FirstCells(n)) <= Cardinality(S) + n
         /\ n <= Cardinality((S \cup FirstCells(n)) \cap Cells(buf_count))
         /\ Cardinality(S) \in Nat /\ Cardinality(S \cup FirstCells(n)) \in Nat
         /\ Cardinality((S \cup FirstCells(n)) \cap Cells(buf_count)) \in Nat
<1>1. FirstCells(n) \subseteq Cells(buf_count) /\ Cardinality(FirstCells(n)) = n
  BY MapCells
<1>2. Cells(buf_count) \subseteq Cell
  BY CellsFinite, CameraAssumption DEF Types
<1>3. \A T : T \subseteq Cell => IsFiniteSet(T) /\ Cardinality(T) \in Nat
  BY CellsFinite, FS_CardinalityType
<1>. DEFINE both == (S \cup FirstCells(n)) \cap Cells(buf_count)
<1>4. FirstCells(n) \subseteq both /\ both \subseteq Cell
  BY <1>1, <1>2
<1>5. IsFiniteSet(both) /\ Cardinality(both) \in Nat
  BY <1>3, <1>4
<1>6. Cardinality(FirstCells(n)) <= Cardinality(both)
  BY <1>4, <1>5, FS_Subset
<1>7. IsFiniteSet(S) /\ IsFiniteSet(FirstCells(n)) /\ S \cup FirstCells(n) \subseteq Cell
  BY <1>1, <1>2, <1>3
<1>8. Cardinality(S \cup FirstCells(n)) <= Cardinality(S) + Cardinality(FirstCells(n))
      /\ Cardinality(S) \in Nat /\ Cardinality(S \cup FirstCells(n)) \in Nat
  BY <1>7, Sizes
<1>. QED  BY <1>1, <1>5, <1>6, <1>7, <1>8

\* What mmap_buffers() maps, it would unmap.
LEMMA MmapBounded ==
  ASSUME Types, Counts, Loose, mmap_buffers, plane_count > 0
  PROVE  Counts' /\ Bounded'
<1>1. PICK n \in 0..Cardinality(Cells(buf_count)) :
             buf_pointers' = buf_pointers \cup FirstCells(n) /\ mappings' = mappings + n
  BY DEF mmap_buffers
<1>2. UNCHANGED <<buf_count, plane_count, io_mode, buf_file_descriptors, dma_dev_fd, dmabufs, heaps,
                  unstored, refused>> /\ io_mode = "MMAP"
  BY DEF mmap_buffers, object, losses
<1>3. /\ buf_pointers' \subseteq Cell
      /\ Cardinality(buf_pointers') <= Cardinality(buf_pointers) + n
      /\ n <= Cardinality(buf_pointers' \cap Cells(buf_count))
      /\ Cardinality(buf_pointers) \in Nat /\ Cardinality(buf_pointers') \in Nat
      /\ Cardinality(buf_pointers' \cap Cells(buf_count)) \in Nat
  BY <1>1, MoreCells DEF Counts
<1>4. n \in Nat
  BY MapCells
<1>5. Counts'
  BY <1>1, <1>2, <1>3, <1>4 DEF Counts
<1>6. Releasable' = Cardinality(buf_pointers' \cap Cells(buf_count))
  BY <1>2 DEF Releasable, Mapped, Cells
<1>7. heaps \in Nat
  BY DEF Counts
<1>8. Bounded'
  BY <1>1, <1>2, <1>3, <1>4, <1>6, <1>7 DEF Bounded, Loose, Counts
<1>. QED  BY <1>5, <1>8

\* What camera_v4l2_acquire_dma_buffers() acquires, it would release, but for the
\* descriptor that it has not stored.
LEMMA AcquireBounded ==
  ASSUME Types, Counts, Loose, camera_v4l2_acquire_dma_buffers, plane_count > 0
  PROVE  Counts' /\ Bounded' /\ (pc' = "cancel" => Loose')
<1>1. UNCHANGED <<buf_count, plane_count, io_mode, refused>> /\ io_mode = "DMABUF"
  BY DEF camera_v4l2_acquire_dma_buffers, object
<1>2. CASE pc' = "cancel"
  <2>1. UNCHANGED <<memory, losses>>
    BY <1>1, <1>2 DEF camera_v4l2_acquire_dma_buffers, Acquired, losses
  <2>2. Bounded'
    BY <1>1, <2>1, LooseIsBounded, BoundedKept
  <2>. QED  BY <2>1, <2>2, CountsKept
<1>3. CASE pc' # "cancel"
  <2>1. PICK n \in 0..Cardinality(Cells(buf_count)), d \in 0..1, u \in 0..1 :
               /\ d + u <= 1 /\ n + d + u <= Cardinality(Cells(buf_count))
               /\ buf_pointers' = buf_pointers \cup FirstCells(n)
               /\ mappings' = mappings + n
               /\ buf_file_descriptors' = buf_file_descriptors \cup FirstCells(n + d)
               /\ dmabufs' = dmabufs + n + d + u
               /\ unstored' = unstored + u
    BY <1>3 DEF camera_v4l2_acquire_dma_buffers
  <2>2. dma_dev_fd = FALSE /\ dma_dev_fd' = TRUE /\ heaps' = heaps + 1
    BY <1>3 DEF camera_v4l2_acquire_dma_buffers, Types
  <2>3. n \in Nat /\ d \in Nat /\ u \in Nat /\ Cardinality(Cells(buf_count)) \in Nat
    BY MapCells
  <2>4. n + d \in 0..Cardinality(Cells(buf_count))
    BY <2>1, <2>3
  <2>5. /\ buf_pointers' \subseteq Cell
        /\ Cardinality(buf_pointers') <= Cardinality(buf_pointers) + n
        /\ n <= Cardinality(buf_pointers' \cap Cells(buf_count))
        /\ Cardinality(buf_pointers) \in Nat /\ Cardinality(buf_pointers') \in Nat
        /\ Cardinality(buf_pointers' \cap Cells(buf_count)) \in Nat
    BY <2>1, MoreCells DEF Counts
  <2>6. /\ buf_file_descriptors' \subseteq Cell
        /\ Cardinality(buf_file_descriptors') <= Cardinality(buf_file_descriptors) + (n + d)
        /\ n + d <= Cardinality(buf_file_descriptors' \cap Cells(buf_count))
        /\ Cardinality(buf_file_descriptors) \in Nat /\ Cardinality(buf_file_descriptors') \in Nat
        /\ Cardinality(buf_file_descriptors' \cap Cells(buf_count)) \in Nat
    BY <2>1, <2>4, MoreCells DEF Counts
  <2>7. heaps = 0 /\ heaps' = 1
    BY <2>2 DEF Counts
  <2>8. /\ mappings \in Nat /\ dmabufs \in Nat /\ unstored \in Nat /\ refused \in Nat
        /\ Cardinality(buf_pointers) <= mappings
        /\ Cardinality(buf_file_descriptors) + unstored <= dmabufs
    BY DEF Counts
  <2>9. Counts'
    BY <1>1, <2>1, <2>2, <2>3, <2>5, <2>6, <2>7, <2>8 DEF Counts
  <2>10. Releasable' = Cardinality(buf_pointers' \cap Cells(buf_count))
                       + Cardinality(buf_file_descriptors' \cap Cells(buf_count)) + 1
    BY <1>1, <2>7 DEF Releasable, Mapped, Described, Cells
  <2>11. Bounded'
    BY <1>1, <2>1, <2>3, <2>5, <2>6, <2>7, <2>8, <2>10 DEF Bounded, Loose
  <2>. QED  BY <1>3, <2>9, <2>11
<1>. QED  BY <1>2, <1>3

LEMMA CountsStep ==
  ASSUME Types, Counts, Allocating, [Next]_vars
  PROVE  Counts'
<1>2. CASE mmap_buffers
  BY <1>2, MmapBounded DEF mmap_buffers, Allocating
<1>3. CASE camera_v4l2_acquire_dma_buffers
  BY <1>3, AcquireBounded DEF camera_v4l2_acquire_dma_buffers, Allocating
<1>4. CASE Undo
  <2>1. Bounded /\ Release /\ UNCHANGED unstored
    BY <1>4 DEF Undo, Allocating
  <2>. QED  BY <2>1, ReleaseLoosens
<1>5. CASE Free
  <2>1. Bounded
    BY <1>5, LooseIsBounded DEF Free, Idle, Allocating
  <2>. QED  BY <1>5, <2>1, ReleaseLoosens DEF Free
<1>6. CASE Open \/ Close \/ Unplug \/ camera_v4l2_alloc_user_buffers \/ Cancel \/ StartCapture
           \/ StopCapture \/ Fill \/ Fetch \/ Enqueue \/ UNCHANGED vars
           \/ SetSizeAndFormat \/ CallAlloc \/ TryMode
  <2>1. UNCHANGED <<memory, losses>>
    BY <1>6 DEF Open, Close, Unplug, camera_v4l2_alloc_user_buffers, Cancel, StartCapture,
                StopCapture, Fill, Fetch, Enqueue, vars, SetSizeAndFormat, CallAlloc, TryMode
  <2>. QED  BY <2>1, CountsKept
<1>. QED  BY <1>2, <1>3, <1>4, <1>5, <1>6 DEF Next

-----------------------------------------------------------------------------
(* How far an allocation has come.                                         *)

LEMMA FullKept ==
  ASSUME Full, UNCHANGED <<memory, buf_count, plane_count, io_mode>>,
         driver' \in {driver, NoBuffers}
  PROVE  Full'
BY DEF Full, memory, Buffers, Cells

\* A step that leaves the buffers as they are.
LEMMA AllocatingKept ==
  ASSUME Allocating, UNCHANGED <<pc, allocated, memory, losses, buf_count, plane_count, io_mode>>,
         driver' \in {driver, NoBuffers}, pc = "acquire" => driver' = driver,
         pc # "idle" => UNCHANGED <<stream_on, streaming>>,
         ~allocated => held' = {}, Counts
  PROVE  Allocating'
<1>1. Full => Full'
  BY FullKept
<1>2. (Loose => Loose') /\ (Bounded => Bounded')
  BY CountsKept, BoundedKept
<1>3. Buffers' = Buffers
  BY DEF Buffers
<1>4. streaming = FALSE /\ pc # "idle" => streaming' = FALSE
  OBVIOUS
<1>. QED  BY <1>1, <1>2, <1>3, <1>4 DEF Allocating

\* A step of an allocation, or of the program that has no buffers, which acquires nothing.
LEMMA AllocatingLoose ==
  ASSUME Counts, Loose, UNCHANGED <<memory, losses>>, allocated' = FALSE, held' = {},
         pc' # "undo", pc' = "acquire" => driver' = Buffers',
         pc' # "idle" => /\ stream_on' = FALSE /\ streaming' = FALSE
                         /\ plane_count' > 0 /\ buf_count' > 0
  PROVE  Allocating'
BY CountsKept DEF Allocating

LEMMA AllocatingStep ==
  ASSUME Types, Counts, Allocating, Stream, [Next]_vars
  PROVE  Allocating'
<1>. USE DEF Idle
<1>1. CASE Open
  <2>1. UNCHANGED <<memory, losses, buf_count, plane_count, io_mode, held, pc, allocated, stream_on,
                    streaming>> /\ driver' = driver
    BY <1>1 DEF Open, queue, program
  <2>. QED  BY <2>1, AllocatingKept DEF Allocating
<1>2. CASE Close
  <2>1. UNCHANGED <<memory, losses, buf_count, plane_count, io_mode, pc, allocated>>
        /\ driver' \in {driver, NoBuffers} /\ pc = "idle" /\ held' \in {held, {}}
    BY <1>2 DEF Close, program
  <2>2. ~allocated => held' = {}
    BY <2>1 DEF Allocating
  <2>. QED  BY <2>1, <2>2, AllocatingKept
<1>3. CASE Unplug
  <2>1. UNCHANGED <<memory, losses, object, held, driver, pc, allocated>>
    BY <1>3 DEF Unplug, program
  <2>2. streaming' = FALSE
    BY <1>3 DEF Unplug
  <2>3. pc # "idle" => UNCHANGED <<stream_on, streaming>>
    BY <2>1, <2>2 DEF Allocating, object
  <2>4. ~allocated => held' = {}
    BY <2>1 DEF Allocating
  <2>. QED  BY <2>1, <2>3, <2>4, AllocatingKept DEF object
<1>4. CASE SetSizeAndFormat
  <2>1. allocated = FALSE /\ Loose /\ held = {} /\ pc = "idle"
    BY <1>4 DEF SetSizeAndFormat, MayFormat, Allocating, Types
  <2>2. UNCHANGED <<memory, losses, held, pc, allocated>>
    BY <1>4 DEF SetSizeAndFormat, program
  <2>. QED  BY <2>1, <2>2, AllocatingLoose
<1>5. CASE CallAlloc
  <2>1. allocated = FALSE /\ Loose /\ held = {} /\ pc = "idle" /\ plane_count > 0 /\ stream_on = FALSE
        /\ streaming = FALSE
    BY <1>5 DEF CallAlloc, MayAlloc, Allocating, Types, Stream
  <2>2. UNCHANGED <<memory, losses, held, allocated, plane_count, stream_on, streaming>>
        /\ pc' \in {"idle", "try"}
    BY <1>5, <2>1 DEF CallAlloc, Reqbufs, queue
  <2>3. buf_count' > 0
    BY <1>5, RequestedCountType, CameraAssumption DEF CallAlloc
  <2>. QED  BY <2>1, <2>2, <2>3, AllocatingLoose
<1>6. CASE TryMode
  <2>1. /\ Loose /\ plane_count > 0 /\ buf_count > 0 /\ stream_on = FALSE /\ streaming = FALSE
        /\ allocated = FALSE /\ held = {}
    BY <1>6 DEF TryMode, Allocating
  <2>2. /\ UNCHANGED <<memory, losses, held, allocated, plane_count, stream_on, streaming>>
        /\ pc' \in {"idle", "try", "acquire"}
    BY <1>6, <2>1 DEF TryMode, Reqbufs, queue, NextMode
  <2>3. buf_count' > 0 /\ (pc' = "acquire" => driver' = Buffers')
    <3>1. \/ buf_count' = buf_count /\ pc' # "acquire"
          \/ \E n \in 1..MaxBufCount : /\ driver' = [memory |-> io_mode', count |-> n]
                                       /\ buf_count' = n
      BY <1>6 DEF TryMode, Reqbufs, NextMode
    <3>2. \A n \in 1..MaxBufCount : n > 0
      BY CameraAssumption
    <3>. QED  BY <2>1, <3>1, <3>2 DEF Buffers
  <2>. QED  BY <2>1, <2>2, <2>3, AllocatingLoose
<1>7. CASE mmap_buffers
  <2>1. PICK n \in 0..Cardinality(Cells(buf_count)) :
               buf_pointers' = buf_pointers \cup FirstCells(n) /\ Acquired(n)
    BY <1>7 DEF mmap_buffers
  <2>2. /\ Loose /\ plane_count > 0 /\ buf_count > 0 /\ stream_on = FALSE /\ streaming = FALSE
        /\ driver = Buffers /\ held = {}
    BY <1>7 DEF mmap_buffers, Allocating
  <2>3. UNCHANGED <<object, queue, held>> /\ io_mode = "MMAP"
    BY <1>7 DEF mmap_buffers
  <2>4. Buffers' = Buffers /\ Cells(buf_count)' = Cells(buf_count)
    BY <2>3 DEF Buffers, Cells, object
  <2>5. Bounded'
    BY <1>7, <2>2, MmapBounded
  <2>6. CASE n = Cardinality(Cells(buf_count))
    <3>1. Cells(buf_count) \subseteq buf_pointers'
      BY <2>1, <2>2, <2>6, MapCells
    <3>2. Full'
      BY <2>2, <2>3, <2>4, <3>1 DEF Full, object, queue
    <3>3. pc' = "idle" /\ allocated' = TRUE
      BY <2>1, <2>6 DEF Acquired
    <3>. QED  BY <2>5, <3>2, <3>3 DEF Allocating
  <2>7. CASE n # Cardinality(Cells(buf_count))
    <3>1. pc' = "undo" /\ allocated' = FALSE
      BY <2>1, <2>7 DEF Acquired
    <3>. QED  BY <2>2, <2>3, <2>5, <3>1 DEF Allocating, object, queue
  <2>. QED  BY <2>6, <2>7
<1>8. CASE camera_v4l2_alloc_user_buffers
  <2>1. /\ Loose /\ plane_count > 0 /\ buf_count > 0 /\ stream_on = FALSE /\ streaming = FALSE
        /\ allocated = FALSE /\ held = {}
    BY <1>8 DEF camera_v4l2_alloc_user_buffers, Allocating
  <2>2. UNCHANGED <<object, memory, losses, queue, held, allocated>> /\ pc' = "cancel"
    BY <1>8 DEF camera_v4l2_alloc_user_buffers
  <2>. QED  BY <2>1, <2>2, AllocatingLoose DEF object, queue
<1>9. CASE camera_v4l2_acquire_dma_buffers
  <2>1. /\ Loose /\ plane_count > 0 /\ buf_count > 0 /\ stream_on = FALSE /\ streaming = FALSE
        /\ driver = Buffers /\ held = {} /\ allocated = FALSE
    BY <1>9 DEF camera_v4l2_acquire_dma_buffers, Allocating
  <2>2. UNCHANGED <<object, queue, held>> /\ io_mode = "DMABUF"
    BY <1>9 DEF camera_v4l2_acquire_dma_buffers
  <2>3. Buffers' = Buffers /\ Cells(buf_count)' = Cells(buf_count)
    BY <2>2 DEF Buffers, Cells, object
  <2>b. Bounded' /\ (pc' = "cancel" => Loose')
    BY <1>9, <2>1, AcquireBounded
  <2>4. CASE pc' = "cancel" /\ allocated' = allocated
    BY <2>1, <2>2, <2>b, <2>4 DEF Allocating, object, queue
  <2>5. ASSUME NEW n \in 0..Cardinality(Cells(buf_count)), NEW d \in 0..1, NEW u \in 0..1,
               n + d + u <= Cardinality(Cells(buf_count)),
               buf_pointers' = buf_pointers \cup FirstCells(n),
               buf_file_descriptors' = buf_file_descriptors \cup FirstCells(n + d),
               Acquired(n)
        PROVE  Allocating'
    <3>1. CASE n = Cardinality(Cells(buf_count))
      <4>2. n \in Nat
        BY <2>1, MapCells
      <4>3. d = 0 /\ n + d = n
        BY <2>5, <3>1, <4>2
      <4>4. Cells(buf_count) \subseteq buf_pointers' /\ Cells(buf_count) \subseteq buf_file_descriptors'
        BY <2>1, <2>5, <3>1, <4>3, MapCells
      <4>6. Full'
        BY <2>1, <2>2, <2>3, <4>4 DEF Full, object, queue
      <4>7. pc' = "idle" /\ allocated' = TRUE
        BY <2>5, <3>1 DEF Acquired
      <4>. QED  BY <2>b, <4>6, <4>7 DEF Allocating
    <3>2. CASE n # Cardinality(Cells(buf_count))
      <4>1. pc' = "undo" /\ allocated' = FALSE
        BY <2>5, <3>2 DEF Acquired
      <4>. QED  BY <2>1, <2>2, <2>b, <4>1 DEF Allocating, object, queue
    <3>. QED  BY <3>1, <3>2
  <2>. QED  BY <1>9, <2>4, <2>5 DEF camera_v4l2_acquire_dma_buffers
<1>10. CASE Undo
  <2>1. UNCHANGED <<object, held, queue, allocated, unstored>> /\ Release /\ pc' = "cancel"
    BY <1>10 DEF Undo
  <2>2. /\ plane_count > 0 /\ buf_count > 0 /\ stream_on = FALSE /\ streaming = FALSE
        /\ allocated = FALSE /\ held = {} /\ Bounded
    BY <1>10 DEF Undo, Allocating
  <2>3. Loose'
    BY <2>1, <2>2, ReleaseLoosens
  <2>. QED  BY <2>1, <2>2, <2>3 DEF Allocating, object, queue
<1>11. CASE Cancel
  <2>1. /\ Loose /\ plane_count > 0 /\ buf_count > 0 /\ stream_on = FALSE /\ streaming = FALSE
        /\ allocated = FALSE /\ held = {}
    BY <1>11 DEF Cancel, Allocating
  <2>2. UNCHANGED <<object, memory, losses, held, allocated>> /\ streaming' = streaming
        /\ pc' \in {"idle", "try"}
    BY <1>11 DEF Cancel, Reqbufs, queue, NextMode
  <2>. QED  BY <2>1, <2>2, AllocatingLoose DEF object
<1>12. CASE Free
  <2>1. UNCHANGED <<unstored, pc>> /\ held' = {} /\ Release /\ pc = "idle" /\ allocated' = FALSE
    BY <1>12 DEF Free
  <2>2. Bounded
    BY <2>1, LooseIsBounded DEF Allocating
  <2>3. Loose'
    BY <2>1, <2>2, ReleaseLoosens
  <2>. QED  BY <2>1, <2>3 DEF Allocating
<1>13. CASE StartCapture
  <2>1. UNCHANGED <<memory, losses, buf_count, plane_count, io_mode, driver, pc, allocated>>
        /\ pc = "idle" /\ allocated
    BY <1>13 DEF StartCapture, MayStart, program
  <2>. QED  BY <2>1, AllocatingKept
<1>14. CASE StopCapture
  <2>1. UNCHANGED <<memory, losses, buf_count, plane_count, io_mode, driver, pc, allocated>>
        /\ pc = "idle" /\ held' = {}
    BY <1>14 DEF StopCapture, program
  <2>. QED  BY <2>1, AllocatingKept
<1>15. CASE Fill
  <2>1. UNCHANGED <<memory, losses, object, driver, held, program>> /\ UNCHANGED streaming
    BY <1>15 DEF Fill
  <2>. QED  BY <2>1, AllocatingKept DEF program, object, Allocating
<1>16. CASE Fetch \/ Enqueue
  <2>1. pc = "idle" /\ allocated
    BY <1>16 DEF Fetch, Enqueue, Stream
  <2>2. UNCHANGED <<memory, losses, object, driver, program>>
    BY <1>16 DEF Fetch, Enqueue
  <2>. QED  BY <2>1, <2>2, AllocatingKept DEF program, object
<1>17. CASE UNCHANGED vars
  BY <1>17, AllocatingKept DEF vars, object, queue, program, Allocating
<1>. QED  BY <1>1, <1>2, <1>3, <1>4, <1>5, <1>6, <1>7, <1>8, <1>9, <1>10, <1>11, <1>12, <1>13,
             <1>14, <1>15, <1>16, <1>17 DEF Next

-----------------------------------------------------------------------------
(* The stream and its buffers.                                             *)

\* A step that leaves the object's buffers and the driver's as they are.
LEMMA StreamKept ==
  ASSUME Stream,
         UNCHANGED <<pc, allocated, buf_count, io_mode, fd, present, stream_on, driver, streaming>>,
         queued' \subseteq 0..(driver.count - 1), filled' \subseteq queued',
         held' \subseteq 0..(buf_count - 1)
  PROVE  Stream'
BY DEF Stream, Buffers

\* Requested buffers are not queued yet.
LEMMA QueueOfReqbufs ==
  ASSUME Stream, NEW mode, NEW n, UNCHANGED queue \/ Reqbufs(mode, n)
  PROVE  queued' \subseteq 0..(driver'.count - 1) /\ filled' \subseteq queued'
<1>1. CASE UNCHANGED queue
  BY <1>1 DEF queue, Stream
<1>2. CASE Reqbufs(mode, n)
  BY <1>2 DEF Reqbufs
<1>. QED  BY <1>1, <1>2

\* The buffers of an object that the driver has buffers for are the driver's.
LEMMA BuffersOfDriver ==
  ASSUME Types, Full, driver.count >= buf_count
  PROVE  driver = Buffers
BY CameraAssumption DEF Types, Full, NoBuffers

LEMMA StreamStep ==
  ASSUME Types, Allocating, Stream, [Next]_vars
  PROVE  Stream'
<1>. USE DEF Idle
<1>1. CASE Open
  BY <1>1 DEF Open, Stream, queue, Types, program
<1>2. CASE Close
  <2>1. (stream_on' => stream_on) /\ streaming' = FALSE /\ held' \subseteq held
    BY <1>2 DEF Close
  <2>2. UNCHANGED <<pc, allocated, buf_count>>
    BY <1>2 DEF Close, program
  <2>3. \/ queued' = {} /\ filled' = {}
        \/ UNCHANGED <<queued, filled, driver>>
    BY <1>2 DEF Close
  <2>. QED  BY <2>1, <2>2, <2>3 DEF Stream
<1>3. CASE Unplug
  BY <1>3 DEF Unplug, Stream, object, program
<1>4. CASE SetSizeAndFormat \/ CallAlloc
  <2>1. allocated = FALSE /\ stream_on = FALSE /\ streaming = FALSE /\ held = {}
    BY <1>4 DEF SetSizeAndFormat, MayFormat, CallAlloc, MayAlloc, Stream, Types, Allocating
  <2>3. stream_on' = FALSE /\ streaming' = FALSE /\ held' = {}
    BY <1>4, <2>1 DEF SetSizeAndFormat, CallAlloc, queue, Reqbufs
  <2>4. UNCHANGED queue \/ Reqbufs("none", 0)
    BY <1>4 DEF SetSizeAndFormat, CallAlloc
  <2>. QED  BY <2>3, <2>4, QueueOfReqbufs DEF Stream
<1>5. CASE TryMode \/ Cancel
  <2>1. stream_on = FALSE /\ streaming = FALSE /\ held = {}
    BY <1>5 DEF TryMode, Cancel, Allocating
  <2>2. stream_on' = FALSE /\ streaming' = FALSE /\ held' = {}
    BY <1>5, <2>1 DEF TryMode, Cancel, queue, Reqbufs, object
  <2>3. UNCHANGED queue \/ \E mode, n : Reqbufs(mode, n)
    BY <1>5 DEF TryMode, Cancel
  <2>. QED  BY <2>2, <2>3, QueueOfReqbufs DEF Stream
<1>6. CASE mmap_buffers \/ camera_v4l2_alloc_user_buffers \/ camera_v4l2_acquire_dma_buffers \/ Undo
  <2>1. stream_on = FALSE /\ streaming = FALSE /\ held = {}
    BY <1>6 DEF mmap_buffers, camera_v4l2_alloc_user_buffers, camera_v4l2_acquire_dma_buffers,
                Undo, Allocating
  <2>2. UNCHANGED <<object, queue, held>>
    BY <1>6 DEF mmap_buffers, camera_v4l2_alloc_user_buffers, camera_v4l2_acquire_dma_buffers, Undo
  <2>. QED  BY <2>1, <2>2 DEF Stream, object, queue
<1>7. CASE Free
  <2>1. stream_on = FALSE /\ streaming = FALSE
    BY <1>7 DEF Free, MayFree, Stream, Types
  <2>2. UNCHANGED <<object, queue>> /\ held' = {}
    BY <1>7 DEF Free
  <2>. QED  BY <2>1, <2>2 DEF Stream, object, queue
<1>8. CASE StartCapture
  <2>1. UNCHANGED <<buf_count, io_mode, fd, present, driver, filled, pc, allocated>>
        /\ pc = "idle" /\ allocated
    BY <1>8 DEF StartCapture, MayStart, program
  <2>2. Full
    BY <2>1 DEF Allocating
  <2>3. Buffers' = Buffers
    BY <2>1 DEF Buffers
  <2>4. CASE UNCHANGED <<stream_on, streaming, queued, held>>
    BY <2>1, <2>3, <2>4 DEF Stream
  <2>5. ASSUME NEW n \in 0..buf_count, NEW ok \in BOOLEAN,
               ok => n = buf_count /\ Works, n > 0 => n <= driver.count,
               queued' = queued \cup 0..(n - 1), held' = held \ queued',
               stream_on' = ok, streaming' = ok
        PROVE  Stream'
    <3>1. buf_count \in Nat /\ buf_count > 0 /\ n \in Nat /\ driver.count \in Nat
      BY <2>2, CameraAssumption DEF Types, Full
    <3>2. 0..(n - 1) \subseteq 0..(driver.count - 1)
      BY <2>5, <3>1
    <3>3. ok => fd' /\ present' /\ driver' = Buffers'
      BY <2>1, <2>2, <2>3, <2>5, <3>1, BuffersOfDriver DEF Works
    <3>. QED  BY <2>1, <2>5, <3>2, <3>3 DEF Stream
  <2>. QED  BY <1>8, <2>4, <2>5 DEF StartCapture
<1>9. CASE StopCapture
  <2>1. stream_on' = FALSE /\ streaming' = FALSE /\ queued' = {} /\ filled' = {} /\ held' = {}
    BY <1>9 DEF StopCapture
  <2>. QED  BY <2>1 DEF Stream
<1>10. CASE Fill
  BY <1>10, StreamKept DEF Fill, Stream, object, program
<1>11. CASE Fetch
  <2>1. PICK i \in filled : /\ queued' = queued \ {i} /\ filled' = filled \ {i}
                            /\ held' = held \cup {i}
    BY <1>11 DEF Fetch
  <2>2. UNCHANGED <<memory, object, driver, streaming, present, program>> /\ stream_on = TRUE
    BY <1>11 DEF Fetch, Types
  <2>3. driver.count <= buf_count
    BY <2>2, CameraAssumption DEF Stream, Allocating, Full, Buffers, NoBuffers, Types
  <2>4. i \in 0..(buf_count - 1)
    BY <2>1, <2>3, CameraAssumption DEF Stream, Types
  <2>5. queued' \subseteq 0..(driver.count - 1) /\ filled' \subseteq queued'
        /\ held' \subseteq 0..(buf_count - 1)
    BY <2>1, <2>4 DEF Stream
  <2>. QED  BY <2>2, <2>5, StreamKept DEF object, program
<1>12. CASE Enqueue
  <2>1. UNCHANGED <<memory, object, driver, filled, streaming, present, program>>
    BY <1>12 DEF Enqueue
  <2>2. \/ UNCHANGED <<queued, held>>
        \/ \E i \in held : /\ i < driver.count
                           /\ queued' = queued \cup {i} /\ held' = held \ {i}
    BY <1>12 DEF Enqueue, queue
  <2>3. \A i \in held : i < driver.count => i \in 0..(driver.count - 1)
    BY CameraAssumption DEF Stream, Types
  <2>4. queued' \subseteq 0..(driver.count - 1) /\ filled' \subseteq queued'
        /\ held' \subseteq 0..(buf_count - 1)
    BY <2>1, <2>2, <2>3 DEF Stream
  <2>. QED  BY <2>1, <2>4, StreamKept DEF object, program
<1>13. CASE UNCHANGED vars
  BY <1>13, StreamKept DEF vars, object, queue, program, Stream
<1>. QED  BY <1>1, <1>2, <1>3, <1>4, <1>5, <1>6, <1>7, <1>8, <1>9, <1>10, <1>11, <1>12, <1>13
          DEF Next

-----------------------------------------------------------------------------
(* Taking turns at the memory.                                             *)

\* A step that ends no access but with the buffers, and leaves no stream.
LEMMA AccessQuiet ==
  ASSUME Access, bracketed' \subseteq bracketed, UNCHANGED dma_synced_bits, streaming' = FALSE
  PROVE  Access'
BY DEF Access

LEMMA AccessKept ==
  ASSUME Access, UNCHANGED <<access, plane_count, streaming, queued, held, io_mode, needs_dma_sync, switched>>
  PROVE  Access'
BY DEF Access, access, Synchronises, CellsOf, Cells

\* A cell belongs to one buffer.
LEMMA CellOfOne ==
  ASSUME NEW i, NEW j, i # j
  PROVE  CellsOf(i) \cap CellsOf(j) = {}
BY DEF CellsOf

\* end_access(): of these buffers no bit is left but those of the cells that the
\* kernel refused, and nothing changes for the others.
LEMMA EndAccess ==
  ASSUME Access, NEW buffers, end_access(buffers)
  PROVE  /\ bracketed' \subseteq dma_synced_bits'
         /\ \A i \in buffers : CellsOf(i) \cap dma_synced_bits' \subseteq unended'
         /\ \A i : i \notin buffers =>
              /\ CellsOf(i) \cap dma_synced_bits' = CellsOf(i) \cap dma_synced_bits
              /\ CellsOf(i) \cap bracketed' = CellsOf(i) \cap bracketed
              /\ CellsOf(i) \cap unended' = CellsOf(i) \cap unended
<1>. DEFINE all == UNION {CellsOf(i) : i \in buffers}
<1>1. PICK failed : /\ failed \in SUBSET UNION {Pending(i, FALSE) : i \in buffers}
                    /\ dma_synced_bits' = dma_synced_bits \ (all \ failed)
                    /\ bracketed' = bracketed \ (all \ failed)
                    /\ unended' = (unended \ (all \ failed)) \cup failed
  BY DEF end_access
<1>2. failed \subseteq all
  <2>1. \A i \in buffers : Pending(i, FALSE) \subseteq CellsOf(i)
    BY DEF Pending
  <2>2. ASSUME NEW c \in failed
        PROVE  c \in all
    <3>1. PICK i \in buffers : c \in Pending(i, FALSE)
      BY <1>1
    <3>2. c \in CellsOf(i)
      BY <2>1, <3>1
    <3>. QED  BY <3>2
  <2>. QED  BY <2>2
<1>3. bracketed' \subseteq dma_synced_bits'
  BY <1>1 DEF Access
<1>4. ASSUME NEW i \in buffers
      PROVE  CellsOf(i) \cap dma_synced_bits' \subseteq unended'
  <2>1. CellsOf(i) \subseteq all
    OBVIOUS
  <2>. HIDE DEF all
  <2>. QED  BY <1>1, <2>1
<1>5. ASSUME NEW i, i \notin buffers
      PROVE  /\ CellsOf(i) \cap dma_synced_bits' = CellsOf(i) \cap dma_synced_bits
             /\ CellsOf(i) \cap bracketed' = CellsOf(i) \cap bracketed
             /\ CellsOf(i) \cap unended' = CellsOf(i) \cap unended
  <2>1. \A j \in buffers : CellsOf(i) \cap CellsOf(j) = {}
    BY <1>5, CellOfOne
  <2>2. CellsOf(i) \cap all = {}
    BY <2>1
  <2>. HIDE DEF all
  <2>. QED  BY <1>1, <1>2, <2>2
<1>. QED  BY <1>3, <1>4, <1>5

\* begin_access(): every cell of the buffer that has a descriptor and whose bit
\* gets set is one whose access has begun, and nothing changes for the others.
LEMMA BeginAccess ==
  ASSUME Access, NEW i, begin_access(i), CellsOf(i) \subseteq buf_file_descriptors
  PROVE  /\ bracketed' \subseteq dma_synced_bits'
         /\ CellsOf(i) \cap dma_synced_bits' \subseteq dma_synced_bits \cup bracketed'
         /\ bracketed \subseteq bracketed' /\ unended' = unended
         /\ \A j : j # i => /\ CellsOf(j) \cap dma_synced_bits' = CellsOf(j) \cap dma_synced_bits
<1>1. PICK failed \in SUBSET Pending(i, TRUE) :
        /\ dma_synced_bits' = dma_synced_bits \cup (CellsOf(i) \ failed)
        /\ bracketed' = bracketed \cup (Pending(i, TRUE) \ failed)
        /\ unended' = unended
  BY DEF begin_access
<1>2. Pending(i, TRUE) \subseteq CellsOf(i)
  BY DEF Pending
<1>3. \A c \in CellsOf(i) : c \in dma_synced_bits \/ c \in Pending(i, TRUE)
  BY DEF Pending
<1>4. \A j : j # i => CellsOf(j) \cap CellsOf(i) = {}
  BY CellOfOne
<1>. QED  BY <1>1, <1>2, <1>3, <1>4 DEF Access

LEMMA AccessStep ==
  ASSUME Types, Allocating, Stream, Access, [Next]_vars
  PROVE  Access'
<1>. USE DEF Idle
<1>1. CASE Open
  BY <1>1, AccessKept DEF Open, access, queue
<1>2. CASE Close \/ Unplug
  BY <1>2, AccessQuiet DEF Close, Unplug, access
<1>3. CASE SetSizeAndFormat \/ CallAlloc
  <2>2. streaming = FALSE
    BY <1>3 DEF SetSizeAndFormat, MayFormat, CallAlloc, MayAlloc, Stream, Types
  <2>3. streaming' = FALSE /\ UNCHANGED access
    BY <1>3, <2>2 DEF SetSizeAndFormat, CallAlloc, queue, Reqbufs
  <2>. QED  BY <2>3, AccessQuiet DEF access
<1>4. CASE TryMode \/ Cancel \/ mmap_buffers \/ camera_v4l2_alloc_user_buffers
           \/ camera_v4l2_acquire_dma_buffers
  <2>1. streaming = FALSE
    BY <1>4 DEF TryMode, Cancel, mmap_buffers, camera_v4l2_alloc_user_buffers,
                camera_v4l2_acquire_dma_buffers, Allocating
  <2>2. streaming' = FALSE /\ UNCHANGED dma_synced_bits /\ bracketed' \subseteq bracketed
    BY <1>4, <2>1 DEF TryMode, Cancel, mmap_buffers, camera_v4l2_alloc_user_buffers,
                      camera_v4l2_acquire_dma_buffers, queue, Reqbufs, access
  <2>. QED  BY <2>2, AccessQuiet
<1>5. CASE Undo \/ Free
  <2>1. streaming' = FALSE
    BY <1>5 DEF Undo, Free, MayFree, Allocating, Stream, Types, queue
  <2>2. bracketed' \subseteq bracketed /\ UNCHANGED dma_synced_bits
    BY <1>5 DEF Undo, Free, Release, camera_v4l2_release_dma_buffers_if_any
  <2>. QED  BY <2>1, <2>2, AccessQuiet
<1>6. CASE StartCapture
  <2>1. UNCHANGED <<plane_count, io_mode, buf_count, driver>> /\ Full
    BY <1>6 DEF StartCapture, MayStart, Allocating
  <2>2. ASSUME NEW sync \in BOOLEAN, needs_dma_sync' = sync,
               switched' = (switched \/ (streaming /\ sync # needs_dma_sync)),
               UNCHANGED <<streaming, queued, held, access>>
        PROVE  Access'
    <3>1. CASE streaming /\ sync # needs_dma_sync
      <4>1. switched' /\ UNCHANGED access
        BY <2>2, <3>1
      <4>. QED  BY <4>1 DEF Access, access
    <3>2. CASE sync = needs_dma_sync
      <4>1. switched' = (switched \/ FALSE)
        BY <2>2, <3>2
      <4>2. UNCHANGED <<streaming, queued, held, io_mode, needs_dma_sync, access, plane_count>>
        BY <2>1, <2>2, <3>2
      <4>. QED  BY <4>1, <4>2 DEF Access, access, Synchronises, CellsOf, Cells
    <3>3. CASE streaming = FALSE
      BY <2>2, <3>3, AccessQuiet DEF access
    <3>. QED  BY <3>1, <3>2, <3>3 DEF Types
  <2>3. ASSUME NEW sync \in BOOLEAN, NEW n \in 0..buf_count, NEW ok \in BOOLEAN,
               needs_dma_sync' = sync, ok => n = buf_count,
               n > 0 => n <= driver.count,
               queued' = queued \cup 0..(n - 1), held' = held \ queued', streaming' = ok,
               IF io_mode = "DMABUF" /\ sync
               THEN end_access(0..(IF n = buf_count THEN n - 1 ELSE n)) ELSE UNCHANGED access
        PROVE  Access'
    <3>1. CASE io_mode = "DMABUF" /\ sync
      <4>. DEFINE tried == 0..(IF n = buf_count THEN n - 1 ELSE n)
      <4>1. end_access(tried)
        BY <2>3, <3>1
      <4>. HIDE DEF tried
      <4>2. /\ bracketed' \subseteq dma_synced_bits'
            /\ \A i \in tried : CellsOf(i) \cap dma_synced_bits' \subseteq unended'
        BY <4>1, EndAccess
      <4>3. CASE ~ok
        BY <2>3, <4>2, <4>3 DEF Access
      <4>4. CASE ok
        <5>2. n = buf_count /\ n \in Nat /\ n > 0 /\ n <= driver.count
          BY <2>1, <2>3, <4>4, CameraAssumption DEF Full, Types
        <5>3. driver.count = buf_count
          BY <2>1, <5>2, BuffersOfDriver DEF Buffers
        <5>4. tried = 0..(buf_count - 1)
          BY <5>2 DEF tried
        <5>5. queued' \subseteq tried /\ held' = {}
          BY <2>3, <5>2, <5>3, <5>4 DEF Stream
        <5>6. \A i : CellsOf(i)' = CellsOf(i)
          BY <2>1 DEF CellsOf, Cells
        <5>. QED  BY <4>2, <5>5, <5>6 DEF Access
      <4>. QED  BY <4>3, <4>4
    <3>2. CASE ~(io_mode = "DMABUF" /\ sync)
      <4>1. ~Synchronises'
        BY <2>1, <2>3, <3>2 DEF Synchronises
      <4>2. UNCHANGED access
        BY <2>3, <3>2
      <4>. QED  BY <4>1, <4>2 DEF Access, access
    <3>. QED  BY <3>1, <3>2
  <2>4. PICK sync \in BOOLEAN :
         /\ needs_dma_sync' = sync
         /\ \/ /\ switched' = (switched \/ (streaming /\ sync # needs_dma_sync))
               /\ UNCHANGED <<streaming, queued, held, access>>
            \/ \E n \in 0..buf_count, ok \in BOOLEAN :
                 /\ ok => n = buf_count
                 /\ n > 0 => n <= driver.count
                 /\ queued' = queued \cup 0..(n - 1) /\ held' = held \ queued'
                 /\ streaming' = ok
                 /\ IF io_mode = "DMABUF" /\ sync
                    THEN end_access(0..(IF n = buf_count THEN n - 1 ELSE n))
                    ELSE UNCHANGED access
    BY <1>6 DEF StartCapture
  <2>. QED  BY <2>2, <2>3, <2>4
<1>7. CASE StopCapture
  BY <1>7, AccessQuiet DEF StopCapture, access
<1>8. CASE Fill
  BY <1>8, AccessKept DEF Fill, object
<1>9. CASE Fetch
  <2>1. PICK i \in filled : /\ queued' = queued \ {i} /\ held' = held \cup {i}
                            /\ IF Synchronises THEN begin_access(i) ELSE UNCHANGED access
    BY <1>9 DEF Fetch
  <2>2. UNCHANGED <<memory, object, streaming, switched>> /\ stream_on
    BY <1>9 DEF Fetch
  <2>3. \A j : CellsOf(j)' = CellsOf(j)
    BY <2>2 DEF CellsOf, Cells, object
  <2>4. CASE ~Synchronises
    <3>1. UNCHANGED access /\ ~Synchronises'
      BY <2>1, <2>2, <2>4 DEF Synchronises, object
    <3>. QED  BY <3>1 DEF Access, access
  <2>5. CASE Synchronises
    <3>1. i \in queued /\ begin_access(i) /\ Cells(buf_count) \subseteq buf_file_descriptors
      BY <2>1, <2>2, <2>5 DEF Stream, Allocating, Full, Synchronises
    <3>2. driver.count <= buf_count
      BY <2>2, CameraAssumption DEF Stream, Allocating, Full, Buffers, NoBuffers, Types
    <3>3. i \in Int /\ buf_count \in Int /\ i < buf_count /\ buf_count <= MaxBufCount
      BY <3>1, <3>2, CameraAssumption DEF Stream, Types
    <3>4. CellsOf(i) \subseteq buf_file_descriptors
      BY <3>1, <3>3, CellsFinite
    <3>5. /\ bracketed' \subseteq dma_synced_bits'
          /\ CellsOf(i) \cap dma_synced_bits' \subseteq dma_synced_bits \cup bracketed'
          /\ bracketed \subseteq bracketed' /\ unended' = unended
          /\ \A j : j # i => /\ CellsOf(j) \cap dma_synced_bits' = CellsOf(j) \cap dma_synced_bits
      BY <3>1, <3>4, BeginAccess
    <3>6. CASE ~streaming \/ switched
      BY <2>2, <3>5, <3>6 DEF Access
    <3>7. CASE streaming /\ ~switched
      <4>1. ASSUME NEW j \in queued'
            PROVE  CellsOf(j) \cap dma_synced_bits' \subseteq unended'
        <5>1. j # i /\ j \in queued
          BY <2>1
        <5>2. CellsOf(j) \cap dma_synced_bits \subseteq unended
          BY <2>5, <3>7, <5>1 DEF Access
        <5>. QED  BY <3>5, <5>1, <5>2
      <4>2. ASSUME NEW j \in held'
            PROVE  CellsOf(j) \cap dma_synced_bits' \subseteq bracketed' \cup unended'
        <5>1. CASE j = i
          <6>1. CellsOf(i) \cap dma_synced_bits \subseteq unended
            BY <2>5, <3>1, <3>7 DEF Access
          <6>. QED  BY <3>5, <5>1, <6>1
        <5>2. CASE j # i
          <6>1. j \in held
            BY <2>1, <5>2
          <6>2. CellsOf(j) \cap dma_synced_bits \subseteq bracketed \cup unended
            BY <2>5, <3>7, <6>1 DEF Access
          <6>. QED  BY <3>5, <5>2, <6>2
        <5>. QED  BY <5>1, <5>2
      <4>. QED  BY <2>3, <3>5, <4>1, <4>2 DEF Access
    <3>. QED  BY <3>6, <3>7
  <2>. QED  BY <2>4, <2>5
<1>10. CASE Enqueue
  <2>1. PICK i \in held :
          /\ IF Synchronises THEN end_access({i}) ELSE UNCHANGED access
          /\ \/ UNCHANGED <<queued, held>>
             \/ queued' = queued \cup {i} /\ held' = held \ {i}
    BY <1>10, Zenon DEF Enqueue, queue
  <2>2. UNCHANGED <<memory, object, streaming, switched>> /\ stream_on
    BY <1>10 DEF Enqueue
  <2>3. \A j : CellsOf(j)' = CellsOf(j)
    BY <2>2 DEF CellsOf, Cells, object
  <2>4. CASE ~Synchronises
    <3>1. UNCHANGED access /\ ~Synchronises'
      BY <2>1, <2>2, <2>4 DEF Synchronises, object
    <3>. QED  BY <3>1 DEF Access, access
  <2>5. CASE Synchronises
    <3>1. end_access({i})
      BY <2>1, <2>5
    <3>2. /\ bracketed' \subseteq dma_synced_bits'
          /\ CellsOf(i) \cap dma_synced_bits' \subseteq unended'
          /\ \A j : j # i =>
              /\ CellsOf(j) \cap dma_synced_bits' = CellsOf(j) \cap dma_synced_bits
              /\ CellsOf(j) \cap bracketed' = CellsOf(j) \cap bracketed
              /\ CellsOf(j) \cap unended' = CellsOf(j) \cap unended
      BY <3>1, EndAccess
    <3>3. CASE ~streaming \/ switched
      BY <2>2, <3>2, <3>3 DEF Access
    <3>4. CASE streaming /\ ~switched
      <4>1. ASSUME NEW j \in queued'
            PROVE  CellsOf(j) \cap dma_synced_bits' \subseteq unended'
        <5>1. CASE j = i
          BY <3>2, <5>1
        <5>2. CASE j # i
          <6>1. j \in queued
            BY <2>1, <5>2
          <6>2. CellsOf(j) \cap dma_synced_bits \subseteq unended
            BY <2>5, <3>4, <6>1 DEF Access
          <6>. QED  BY <3>2, <5>2, <6>2
        <5>. QED  BY <5>1, <5>2
      <4>2. ASSUME NEW j \in held'
            PROVE  CellsOf(j) \cap dma_synced_bits' \subseteq bracketed' \cup unended'
        <5>1. CASE j = i
          BY <3>2, <5>1
        <5>2. CASE j # i
          <6>1. j \in held
            BY <2>1
          <6>2. CellsOf(j) \cap dma_synced_bits \subseteq bracketed \cup unended
            BY <2>5, <3>4, <6>1 DEF Access
          <6>. QED  BY <3>2, <5>2, <6>2
        <5>. QED  BY <5>1, <5>2
      <4>. QED  BY <2>3, <3>2, <4>1, <4>2 DEF Access
    <3>. QED  BY <3>3, <3>4
  <2>. QED  BY <2>4, <2>5
<1>11. CASE UNCHANGED vars
  BY <1>11, AccessKept DEF vars, object, queue
<1>. QED  BY <1>1, <1>2, <1>3, <1>4, <1>5, <1>6, <1>7, <1>8, <1>9, <1>10, <1>11 DEF Next

-----------------------------------------------------------------------------
(* What holds of every run.                                                *)

\* The invariant that carries the properties: types, what the process has, how
\* far an allocation has come, the stream and the accesses to its memory.
THEOREM Invariance == Spec => []IInv
<1>1. Init => IInv
  <2>1. SUFFICES ASSUME Init
                 PROVE  IInv
    OBVIOUS
  <2>2. Types
    BY <2>1, TypesInit
  <2>3. Counts /\ Loose
    BY <2>1, FS_EmptySet DEF Init, Counts, Loose
  <2>4. Allocating
    BY <2>1, <2>3 DEF Init, Allocating
  <2>5. Stream
    BY <2>1 DEF Init, Stream
  <2>6. Access
    BY <2>1 DEF Init, Access
  <2>. QED  BY <2>2, <2>3, <2>4, <2>5, <2>6 DEF IInv
<1>2. IInv /\ [Next]_vars => IInv'
  BY TypesStep, CountsStep, AllocatingStep, StreamStep, AccessStep DEF IInv
<1>. QED  BY <1>1, <1>2, PTL DEF Spec

\* Wherever an allocation fails, the device is pulled out or the object is closed and opened
\* again, the process has of mappings and descriptors what the object remembers, and
\* nothing when there are no buffers; but for the descriptors that could not be marked and
\* what the kernel has refused to release.
THEOREM LossesAreKnown == Spec => []OnlyRefusedIsLost
<1>1. ASSUME IInv
      PROVE  OnlyRefusedIsLost
  <2>1. /\ Mapped \in Nat /\ Mapped <= mappings
        /\ Described \in Nat /\ Described + unstored <= dmabufs
        /\ heaps \in 0..1 /\ Releasable \in Nat /\ Releasable <= Mapped + Described + heaps
    BY <1>1, Remembered DEF IInv
  <2>2. /\ mappings \in Nat /\ dmabufs \in Nat /\ unstored \in Nat /\ refused \in Nat
        /\ heaps = IF dma_dev_fd THEN 1 ELSE 0
    BY <1>1 DEF IInv, Counts
  <2>3. Known = Mapped + Described + heaps
    BY <2>2 DEF Known, Mapped, Described
  <2>4. Bounded
    BY <1>1, LooseIsBounded DEF IInv, Allocating
  <2>5. mappings + dmabufs + heaps <= Known + unstored + refused
    BY <2>1, <2>2, <2>3, <2>4 DEF Bounded
  <2>6. Idle /\ ~allocated => mappings + dmabufs + heaps <= unstored + refused
    BY <1>1 DEF IInv, Allocating, Loose, Idle
  <2>. QED  BY <2>1, <2>2, <2>5, <2>6 DEF OnlyRefusedIsLost, Mapped, Described
<1>. QED  BY <1>1, Invariance, PTL

\* Whatever the driver may fill, and whatever the program has of a running
\* stream, lies in memory of the object.
THEOREM FramesAreReachable == Spec => []FramesHaveMemory
<1>1. ASSUME IInv
      PROVE  FramesHaveMemory
  <2>1. SUFFICES ASSUME streaming
                 PROVE  FramesHaveMemory
    BY DEF FramesHaveMemory
  <2>2. /\ Full /\ driver = Buffers /\ stream_on
        /\ queued \subseteq 0..(driver.count - 1) /\ held \subseteq 0..(buf_count - 1)
    BY <1>1, <2>1 DEF IInv, Stream, Allocating
  <2>3. buf_count \in Int /\ buf_count <= MaxBufCount /\ driver.count = buf_count
        /\ driver.memory = io_mode
    BY <1>1, <2>2, CameraAssumption DEF IInv, Types, Buffers
  <2>4. ASSUME NEW i \in queued \cup held
        PROVE  CellsOf(i) \subseteq buf_pointers
    <3>1. i \in Int /\ i < buf_count
      BY <2>2, <2>3
    <3>. QED  BY <2>2, <2>3, <3>1, CellsFinite DEF Full
  <2>. QED  BY <2>1, <2>2, <2>3, <2>4 DEF FramesHaveMemory
<1>. QED  BY <1>1, Invariance, PTL

\* While a camera streams into DMA buffers with synchronisation, processor and
\* driver take turns at their memory and the bits say whose turn it is, until a start
\* that is refused replaces needs_dma_sync.
THEOREM AccessIsSynchronised == Spec => []SyncedAccess
<1>1. IInv => SyncedAccess
  BY DEF IInv, Access, SyncedAccess
<1>. QED  BY <1>1, Invariance, PTL
=============================================================================
