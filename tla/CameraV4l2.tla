------------------------------ MODULE CameraV4l2 ------------------------------
(***************************************************************************)
(* camera_v4l2.c: a camera object and its buffers, whose memory is mapped  *)
(* from the driver (MMAP) or taken from a DMA heap (DMABUF), and which go  *)
(* back and forth between driver and program while the camera streams.     *)
(* Every system call may fail, and the device may be pulled out.  The      *)
(* driver behaves as the videobuf2 queue of Linux does.  Of the format only*)
(* the number of planes matters here; CameraSetup has the rest.  What      *)
(* munmap() or close() refuses stays mapped or open, as the code takes it. *)
(***************************************************************************)
EXTENDS Integers, Sequences, FiniteSets

CONSTANTS
  MaxBufCount,  \* CAMERA_V4L2_MAX_BUF_COUNT
  CAMERA_V4L2_MAX_PLANE_COUNT,
  Candidates,   \* the lists of I/O modes given to alloc_buffers()
  Supported,    \* the modes that the driver says it supports
  MaxFailures   \* bound on failures of enable_close_on_exec_feature() for a buffer, of
                \* munmap() and close(), and on cells whose access could not be ended

Mode == {"MMAP", "USERPTR", "DMABUF"}
Index == 0..(MaxBufCount - 1)
Cell == Index \X (1..CAMERA_V4L2_MAX_PLANE_COUNT)

ASSUME CameraAssumption ==
  /\ MaxBufCount \in Nat /\ MaxBufCount >= 2 /\ CAMERA_V4L2_MAX_PLANE_COUNT \in Nat \ {0}
  /\ Candidates \subseteq Seq(Mode) \ {<<>>} /\ Supported \subseteq Mode
  /\ MaxFailures \in Nat

VARIABLES
  fd,                    \* the device is open
  stream_on,
  io_mode,
  buf_count,
  plane_count,
  buf_pointers,          \* the cells whose pointer is not null
  buf_file_descriptors,  \* the cells whose descriptor is not -1
  dma_dev_fd,            \* the DMA heap is open
  needs_dma_sync,
  dma_synced_bits,       \* the cells whose bit is set
  present,    \* the device that was opened is still plugged in
  driver,     \* the memory and number of the driver's buffers
  queued,     \* the buffers that the driver has
  filled,     \* those of them that hold a frame
  streaming,
  mappings,   \* number of mappings that the process has
  dmabufs,    \* number of its DMA buffers' descriptors
  heaps,      \* number of its descriptors of the DMA heap
  bracketed,  \* the cells whose access by the processor has begun
  held,       \* the buffers that the program has fetched from the stream and not given back
  pc,         \* "idle", or the step of alloc_buffers()
  modes,      \* the modes that it has yet to try
  allocated,  \* the program has buffers: an allocation succeeded, and no free since
  unended,    \* history: the cells whose access could not be ended
  switched,   \* history: needs_dma_sync was replaced in the stream that is on
  unstored,   \* history: how many descriptors of buffers were dropped unstored
  refused     \* history: how often munmap() or close() has failed

object  == <<fd, stream_on, io_mode, buf_count, plane_count, needs_dma_sync>>
memory  == <<buf_pointers, buf_file_descriptors, dma_dev_fd, mappings, dmabufs, heaps>>
losses  == <<unstored, refused>>
access  == <<dma_synced_bits, bracketed, unended>>
queue   == <<driver, queued, filled, streaming>>
program == <<pc, modes, allocated>>
vars    == <<object, memory, losses, access, queue, present, held, program, switched>>

NoBuffers == [memory |-> "none", count |-> 0]

Init ==
  /\ fd = FALSE /\ stream_on = FALSE /\ io_mode = "none" /\ buf_count = 0 /\ plane_count = 0
  /\ needs_dma_sync = FALSE /\ dma_synced_bits = {} /\ bracketed = {} /\ unended = {}
  /\ buf_pointers = {} /\ buf_file_descriptors = {} /\ dma_dev_fd = FALSE
  /\ mappings = 0 /\ dmabufs = 0 /\ heaps = 0
  /\ present = FALSE /\ driver = NoBuffers /\ queued = {} /\ filled = {}
  /\ streaming = FALSE /\ held = {}
  /\ pc = "idle" /\ modes = <<>> /\ allocated = FALSE
  /\ switched = FALSE /\ unstored = 0 /\ refused = 0

Idle == pc = "idle"

\* An ioctl() of the device may succeed only while the device is there.
Works == fd /\ present

\* The cells of the buffers 0 .. n-1, and the first n cells as the loops visit
\* them.
Cells(n) == {c \in Cell : c[1] < n /\ c[2] <= plane_count}
FirstCells(n) == {c \in Cells(MaxBufCount) : c[1] * plane_count + c[2] <= n}
CellsOf(i) == {c \in Cells(MaxBufCount) : c[1] = i}

-----------------------------------------------------------------------------
(* Opening, closing and pulling out the device.                            *)

Open ==
  /\ Idle /\ ~fd
  /\ \E ok \in BOOLEAN : fd' = ok /\ present' = ok
  /\ UNCHANGED <<stream_on, io_mode, buf_count, plane_count, needs_dma_sync, memory, losses, access,
                 queue, held, program, switched>>

\* The stream that the object believes to be on is turned off first, which
\* fails if the device is gone; whether it succeeds is not looked at.  The
\* driver gives up all its buffers, unless close() fails.
Close ==
  /\ Idle /\ fd
  /\ stream_on' = (stream_on /\ ~Works) /\ streaming' = FALSE
  /\ \/ /\ fd' = FALSE /\ present' = FALSE
        /\ driver' = NoBuffers /\ queued' = {} /\ filled' = {}
     \/ /\ UNCHANGED <<fd, present, driver>>
        /\ IF stream_on /\ Works THEN queued' = {} /\ filled' = {} ELSE UNCHANGED <<queued, filled>>
  /\ held' = (IF stream_on' THEN held ELSE {}) /\ switched' = FALSE
  /\ UNCHANGED <<io_mode, buf_count, plane_count, needs_dma_sync, memory, losses, access, program>>

Unplug ==
  /\ Works /\ present' = FALSE
  /\ queued' = {} /\ filled' = {} /\ streaming' = FALSE /\ switched' = FALSE
  /\ UNCHANGED <<object, memory, losses, access, driver, held, program>>

\* The program sets no other format while it has buffers of the old one: those of
\* planes that the new one lacks would be out of reach.
MayFormat == ~allocated

\* The number of planes is that of the driver's format once it has been read back,
\* also when it is not the format that was asked for.  Buffers make the driver refuse.
SetSizeAndFormat ==
  /\ MayFormat /\ Idle /\ Works /\ driver.count = 0
  /\ plane_count' \in 1..CAMERA_V4L2_MAX_PLANE_COUNT
  /\ UNCHANGED <<fd, stream_on, io_mode, buf_count, needs_dma_sync, memory, losses, access, queue,
                 present, held, program, switched>>

-----------------------------------------------------------------------------
(* Allocating and freeing buffers.                                         *)

\* VIDIOC_REQBUFS takes all buffers back and makes new ones.
Reqbufs(mode, n) ==
  /\ Works /\ ~streaming
  /\ driver' = [memory |-> mode, count |-> n]
  /\ queued' = {} /\ filled' = {} /\ UNCHANGED streaming

RequestedCount(n) == IF n > MaxBufCount THEN MaxBufCount ELSE IF n = 0 THEN 2 ELSE n

\* The program sets a format before it allocates buffers, and frees those that it
\* has before it allocates others.
MayAlloc == ~allocated /\ ~stream_on /\ plane_count > 0

CallAlloc ==
  /\ MayAlloc /\ Idle
  /\ \E n \in 0..(MaxBufCount + 1) : buf_count' = RequestedCount(n)
  /\ \/ UNCHANGED <<pc, queue, modes>>
     \/ /\ Reqbufs("none", 0) /\ pc' = "try"
        /\ \E list \in Candidates : modes' = list
  /\ UNCHANGED <<fd, stream_on, io_mode, plane_count, needs_dma_sync, memory, losses, access, present,
                 held, allocated, switched>>

\* The loop goes on with the next mode, or ends with the error of this one.
NextMode(left) == pc' = IF left = <<>> THEN "idle" ELSE "try"

\* A mode that the driver does not support or cannot give buffers for, or
\* buffers as many as the driver likes, whose memory is acquired next.
TryMode ==
  /\ pc = "try"
  /\ io_mode' = Head(modes) /\ modes' = Tail(modes)
  /\ \/ NextMode(Tail(modes)) /\ UNCHANGED <<buf_count, queue>>
     \/ /\ io_mode' \in Supported /\ Reqbufs("none", 0)
        /\ NextMode(Tail(modes)) /\ UNCHANGED buf_count
     \/ /\ io_mode' \in Supported
        /\ \E n \in 1..MaxBufCount : Reqbufs(io_mode', n) /\ buf_count' = n
        /\ pc' = "acquire"
  /\ UNCHANGED <<fd, stream_on, plane_count, needs_dma_sync, memory, losses, access, present, held,
                 allocated, switched>>

\* Mutant: the error of a cell in the middle is forgotten.
AcquiredAnyway(n) == pc' = "idle" /\ allocated' = TRUE /\ modes' = <<>>

Acquired(n) ==
  LET all == n = Cardinality(Cells(buf_count)) IN
  /\ pc' = (IF all THEN "idle" ELSE "undo") /\ allocated' = all
  /\ modes' = IF all THEN <<>> ELSE modes

\* Cells that an earlier release has left there are written over.
mmap_buffers ==
  /\ pc = "acquire" /\ io_mode = "MMAP"
  /\ \E n \in 0..Cardinality(Cells(buf_count)) :
       /\ buf_pointers' = buf_pointers \cup FirstCells(n)
       /\ mappings' = mappings + n
       /\ Acquired(n)
  /\ UNCHANGED <<object, buf_file_descriptors, dma_dev_fd, dmabufs, heaps, losses, access, queue,
                 present, held, switched>>

\* No I/O with the program's own memory, unless the function is replaced.
camera_v4l2_alloc_user_buffers ==
  /\ pc = "acquire" /\ io_mode = "USERPTR" /\ pc' = "cancel"
  /\ UNCHANGED <<object, memory, losses, access, queue, present, held, modes, allocated, switched>>

\* The heap cannot be opened, or is still open, or the first n cells are allocated and
\* mapped.  Of a cell that fails, the descriptor is there if its mapping failed (d = 1);
\* if FD_CLOEXEC could not be set for it, it is open and not stored (u = 1).
camera_v4l2_acquire_dma_buffers ==
  /\ pc = "acquire" /\ io_mode = "DMABUF"
  /\ \/ /\ pc' = "cancel"
        /\ UNCHANGED <<memory, unstored, bracketed, modes, allocated>>
     \/ /\ ~dma_dev_fd /\ dma_dev_fd' = TRUE /\ heaps' = heaps + 1
        /\ \E n \in 0..Cardinality(Cells(buf_count)), d \in 0..1, u \in 0..1 :
             /\ d + u <= 1 /\ n + d + u <= Cardinality(Cells(buf_count))
             /\ buf_pointers' = buf_pointers \cup FirstCells(n)
             /\ mappings' = mappings + n
             /\ buf_file_descriptors' = buf_file_descriptors \cup FirstCells(n + d)
             /\ bracketed' = bracketed \ FirstCells(n + d)
             /\ dmabufs' = dmabufs + n + d + u
             /\ unstored' = unstored + u /\ unstored' + refused <= MaxFailures
             /\ Acquired(n)
  /\ UNCHANGED <<object, refused, dma_synced_bits, unended, queue, present, held, switched>>

\* Mutant: the loop stops one buffer short.
UnmapSomeOnly(kept) ==
  LET mapped == (buf_pointers \cap Cells(buf_count - 1)) \ kept IN
  buf_pointers' = buf_pointers \ mapped /\ mappings' = mappings - Cardinality(mapped)

\* munmap() fails for the cells "kept", and close() below for the cells "open" and, if
\* "heap", for the DMA heap: the object keeps all of these.
munmap_buffers_if_any(kept) ==
  LET mapped == (buf_pointers \cap Cells(buf_count)) \ kept IN
  buf_pointers' = buf_pointers \ mapped /\ mappings' = mappings - Cardinality(mapped)

camera_v4l2_release_dma_buffers_if_any(kept, open, heap) ==
  LET closed == (buf_file_descriptors \cap Cells(buf_count)) \ open IN
  /\ munmap_buffers_if_any(kept)
  /\ buf_file_descriptors' = buf_file_descriptors \ closed
  /\ dmabufs' = dmabufs - Cardinality(closed) /\ bracketed' = bracketed \ closed
  /\ dma_dev_fd' = (dma_dev_fd /\ heap)
  /\ heaps' = IF dma_dev_fd /\ ~heap THEN heaps - 1 ELSE heaps

Refuse(n) == refused' = refused + n /\ unstored + refused' <= MaxFailures

Release ==
  \/ /\ io_mode = "MMAP"
     /\ \E kept \in SUBSET (buf_pointers \cap Cells(buf_count)) :
          munmap_buffers_if_any(kept) /\ Refuse(Cardinality(kept))
     /\ UNCHANGED <<buf_file_descriptors, dmabufs, bracketed, dma_dev_fd, heaps>>
  \/ /\ io_mode = "DMABUF"
     /\ \E kept \in SUBSET (buf_pointers \cap Cells(buf_count)),
           open \in SUBSET (buf_file_descriptors \cap Cells(buf_count)), heap \in BOOLEAN :
          /\ camera_v4l2_release_dma_buffers_if_any(kept, open, heap)
          /\ heap => dma_dev_fd
          /\ Refuse(Cardinality(kept) + Cardinality(open) + IF heap THEN 1 ELSE 0)
  \/ io_mode \notin {"MMAP", "DMABUF"} /\ UNCHANGED <<memory, bracketed, refused>>

\* The next mode is tried whatever the release has left.
Undo ==
  /\ pc = "undo" /\ Release /\ pc' = "cancel"
  /\ UNCHANGED <<object, unstored, dma_synced_bits, unended, queue, present, held, modes, allocated,
                 switched>>

Cancel ==
  /\ pc = "cancel"
  /\ \/ pc' = "idle" /\ UNCHANGED queue
     \/ Reqbufs("none", 0) /\ NextMode(modes)
  /\ modes' = IF pc' = "idle" THEN <<>> ELSE modes
  /\ UNCHANGED <<object, memory, losses, access, present, held, allocated, switched>>

\* The program frees no buffers of a running stream.
MayFree == ~stream_on

\* The program gives up the frames that it has with the buffers.  It may call again if
\* something could not be released.
Free ==
  /\ MayFree /\ Idle /\ Release /\ held' = {} /\ allocated' = FALSE
  /\ UNCHANGED <<object, unstored, dma_synced_bits, unended, queue, present, pc, modes, switched>>

-----------------------------------------------------------------------------
(* Streaming.                                                              *)

\* sync_dma_buffers(): of the cells of buffer i whose bit says that there is
\* something to do and that have a descriptor, the ioctl() of some may fail.
Pending(i, start) ==
  {c \in CellsOf(i) \cap buf_file_descriptors : (c \in dma_synced_bits) # start}

begin_access(i) ==
  \E failed \in SUBSET Pending(i, TRUE) :
    /\ dma_synced_bits' = dma_synced_bits \cup (CellsOf(i) \ failed)
    /\ bracketed' = bracketed \cup (Pending(i, TRUE) \ failed)
    /\ UNCHANGED unended

\* Mutant: the bit stays set, so that the next access does not begin.
EndKeepingBit(buffers) ==
  /\ bracketed' = bracketed \ UNION {CellsOf(i) : i \in buffers}
  /\ UNCHANGED <<dma_synced_bits, unended>>

end_access(buffers) ==
  \E failed \in SUBSET UNION {Pending(i, FALSE) : i \in buffers} :
    LET ended == (UNION {CellsOf(i) : i \in buffers}) \ failed IN
    /\ dma_synced_bits' = dma_synced_bits \ ended
    /\ bracketed' = bracketed \ ended
    /\ unended' = (unended \ ended) \cup failed
    /\ failed # {} => Cardinality(unended') + unstored + refused <= MaxFailures

Synchronises == io_mode = "DMABUF" /\ needs_dma_sync

\* The program starts the capture of buffers that it has.
MayStart == allocated

\* needs_dma_sync is stored first, also by a start that is refused.  Every buffer is
\* enqueued, in order, up to one that is refused: all of them if the device is gone, or
\* one that the driver has already.  Those enqueued before stay with the driver, as all
\* do if the stream cannot be turned on.
StartCapture ==
  /\ Idle /\ MayStart
  /\ \E sync \in BOOLEAN :
       /\ needs_dma_sync' = sync
       /\ \/ /\ stream_on /\ switched' = (switched \/ (streaming /\ sync # needs_dma_sync))
             /\ UNCHANGED <<stream_on, streaming, queued, held, access>>
          \/ \E n \in 0..buf_count, ok \in BOOLEAN :
               LET tried == 0..(IF n = buf_count THEN n - 1 ELSE n) IN
               /\ ~stream_on /\ (ok => n = buf_count /\ Works)
               /\ n > 0 => Works /\ n <= driver.count /\ queued \cap 0..(n - 1) = {}
               /\ queued' = queued \cup 0..(n - 1) /\ held' = held \ queued'
               /\ stream_on' = ok /\ streaming' = ok /\ switched' = FALSE
               /\ IF io_mode = "DMABUF" /\ sync THEN end_access(tried) ELSE UNCHANGED access
  /\ UNCHANGED <<fd, io_mode, buf_count, plane_count, memory, losses, driver, filled, present, program>>

\* STREAMOFF gives all buffers back; it fails only if the device is gone.
StopCapture ==
  /\ Idle /\ stream_on /\ Works
  /\ stream_on' = FALSE /\ streaming' = FALSE /\ queued' = {} /\ filled' = {}
  /\ held' = {} /\ switched' = FALSE
  /\ UNCHANGED <<fd, io_mode, buf_count, plane_count, needs_dma_sync, memory, losses, access, driver,
                 present, program>>

\* The driver fills the buffers that it has while it streams.
Fill ==
  /\ streaming
  /\ \E i \in queued \ filled : filled' = filled \cup {i}
  /\ UNCHANGED <<object, memory, losses, access, driver, queued, streaming, present, held, program,
                 switched>>

\* A fetch that fails changes nothing that is kept here.
Fetch ==
  /\ Idle /\ stream_on /\ Works
  /\ \E i \in filled :
       /\ queued' = queued \ {i} /\ filled' = filled \ {i} /\ held' = held \cup {i}
       /\ IF Synchronises THEN begin_access(i) ELSE UNCHANGED access
  /\ UNCHANGED <<object, memory, losses, driver, streaming, present, program, switched>>

\* The program gives back a frame that it has fetched; the access is ended
\* whether or not the driver then takes the buffer.
Enqueue ==
  /\ Idle /\ stream_on
  /\ \E i \in held :
       /\ IF Synchronises THEN end_access({i}) ELSE UNCHANGED access
       /\ \/ UNCHANGED <<queued, held>>
          \/ /\ Works /\ i < driver.count
             /\ queued' = queued \cup {i} /\ held' = held \ {i}
  /\ UNCHANGED <<object, memory, losses, driver, filled, streaming, present, program, switched>>

Next ==
  \/ Open \/ Close \/ Unplug \/ SetSizeAndFormat
  \/ CallAlloc \/ TryMode \/ mmap_buffers \/ camera_v4l2_alloc_user_buffers
  \/ camera_v4l2_acquire_dma_buffers \/ Undo \/ Cancel \/ Free
  \/ StartCapture \/ StopCapture \/ Fill \/ Fetch \/ Enqueue

Spec == Init /\ [][Next]_vars

-----------------------------------------------------------------------------
\* What the object knows of mappings and descriptors, within its loops over buf_count.
Known ==
  Cardinality(buf_pointers \cap Cells(buf_count))
    + Cardinality(buf_file_descriptors \cap Cells(buf_count)) + IF dma_dev_fd THEN 1 ELSE 0

\* What the process has of mappings and descriptors is what the object knows, and when
\* the program has no buffers it is nothing, wherever an allocation fails; except for a
\* descriptor for each failure of enable_close_on_exec_feature(), which is always lost,
\* and for as many mappings or descriptors as munmap() or close() has refused to release.
OnlyRefusedIsLost ==
  /\ Cardinality(buf_pointers \cap Cells(buf_count)) <= mappings
  /\ Cardinality(buf_file_descriptors \cap Cells(buf_count)) + unstored <= dmabufs
  /\ heaps = IF dma_dev_fd THEN 1 ELSE 0
  /\ mappings + dmabufs + heaps <= Known + unstored + refused
  /\ Idle /\ ~allocated => mappings + dmabufs + heaps <= unstored + refused

\* Every buffer that the driver may fill, and every frame that the program has
\* of a running stream, lies in memory that the program can reach.
FramesHaveMemory ==
  /\ \A i \in (IF streaming THEN queued \cup held ELSE {}) : CellsOf(i) \subseteq buf_pointers
  /\ streaming => stream_on /\ driver.memory = io_mode /\ driver.count = buf_count

\* While a camera streams into DMA buffers with synchronisation, the driver has
\* no buffer that the processor is accessing, the program has none that it is
\* not, and the object's bits say which are accessed; except where the kernel
\* refused to begin or to end an access, and after a start that was refused has
\* replaced needs_dma_sync in the running stream.
SyncedAccess ==
  streaming /\ Synchronises /\ ~switched =>
    /\ \A i \in queued : CellsOf(i) \cap bracketed \subseteq unended
    /\ \A i \in held : CellsOf(i) \cap dma_synced_bits \subseteq bracketed \cup unended
    /\ bracketed \subseteq dma_synced_bits
=============================================================================
