--------------------------- MODULE RingFIFOBuffer ---------------------------
(***************************************************************************)
(* RingFIFOBuffer.cpp: the ring of variable-length frames between the      *)
(* receiver and the parser (RingBufferPtr0) and between the parser and the *)
(* inserter (RingBufferPtr1).                                              *)
(*                                                                         *)
(* Every index and every byte count of the code is a multiple of 64, so    *)
(* the model counts in lines of 64 bytes.  A frame takes a length field of *)
(* 4 bytes and its payload, rounded up to whole lines, and never wraps: if *)
(* it does not fit before the end of the array, a zero length is written   *)
(* there and the frame starts at line 0.                                   *)
(*                                                                         *)
(* The counters of ringbuffer_t that no code path reads (max_frames,       *)
(* max_bytes, min_capacity) are kept in marks; NumberOfProcessedFrames and *)
(* SlipCounter wrap at CounterModulus.  commit_index is always 0 and is    *)
(* left out.                                                               *)
(***************************************************************************)
EXTENDS Integers, Sequences

CONSTANTS
  BufferLines,     \* size of the array, in lines (32768 in the program)
  Frames,          \* what callers store: records with a length in bytes
  LowWater,        \* GetCapacity counts a slip below this (16384 bytes)
  CounterModulus   \* width of the two event counters

Next64Aligned(x) == ((x + 63) \div 64) * 64

LinesOf(len) == Next64Aligned(len + 4) \div 64
Lines(f)     == LinesOf(f.len)

ASSUME BufferAssumption ==
  /\ BufferLines \in Nat \ {0}
  /\ CounterModulus \in Nat \ {0}
  /\ LowWater \in Nat

\* The largest frame, __DATA_BUFFER_SIZE__ bytes, takes less than half of a
\* ring of __RING_BUFFER_SIZE__ = 128 * __DATA_BUFFER_SIZE__ bytes.
ASSUME FramesAssumption ==
  \A f \in Frames : f.len \in Nat \ {0} /\ 2 * Lines(f) <= BufferLines

VARIABLES
  buffer_size,           \* 0 once uninitialized
  write_index, read_index,
  NumberOfStoredBytes,   \* in lines
  FramesStored,
  marks,                 \* max_frames, max_bytes, min_capacity, processed
  SlipCounter,
  ptr,                   \* the array: what each line holds
  ringbufsnap,           \* the fields saved by Snap, or NoSnap
  out,                   \* answer of the last Write or Read
  layout                 \* auxiliary: the stored frames, oldest first, each
                         \* with the distance of its first line from read_index

indices == <<write_index, read_index, NumberOfStoredBytes, FramesStored>>
vars == <<buffer_size, indices, marks, SlipCounter, ptr, ringbufsnap, out, layout>>

NoSnap  == [snap |-> "none"]
NoFrame == [got |-> "nothing"]
Torn    == [got |-> "torn"]

(***************************************************************************)
(* A line holds the part-th line of a frame, whose length field is in part *)
(* 0, or is zeroed: never written, or the mark of a skip.  What a zeroed   *)
(* line holds beyond the length field is never read.                       *)
(***************************************************************************)
Zero       == [len |-> 0, frame |-> NoFrame, part |-> 0]
Part(f, k) == [len |-> f.len, frame |-> f, part |-> k]

\* memcpy of the payload found at line first: a stored frame if the lines
\* hold it from its first part to its last, else bytes of several frames.
Copied(first, len) ==
  IF \E f \in Frames :
       /\ f.len = len
       /\ first + Lines(f) <= buffer_size
       /\ \A k \in 0 .. Lines(f) - 1 : ptr[first + k] = Part(f, k)
    THEN ptr[first].frame
    ELSE Torn

Wrap(i) == IF i >= buffer_size THEN 0 ELSE i

-----------------------------------------------------------------------------
(* The auxiliary layout: where stored frames lie, counted from read_index. *)

End(l, i)   == l[i].off + Lines(l[i].frame)
UsedBy(l)   == IF l = <<>> THEN 0 ELSE End(l, Len(l))
Used        == UsedBy(layout)
At(r, size, off) == IF r + off < size THEN r + off ELSE r + off - size
LineAt(off) == At(read_index, buffer_size, off)

-----------------------------------------------------------------------------
Empty == [max_frames |-> 0, max_bytes |-> 0, min_capacity |-> 0, processed |-> 0]

Init ==
  /\ buffer_size = BufferLines
  /\ write_index = 0 /\ read_index = 0
  /\ NumberOfStoredBytes = 0 /\ FramesStored = 0
  /\ marks = [Empty EXCEPT !.min_capacity = BufferLines]
  /\ SlipCounter = 0
  /\ ptr = [i \in 0 .. BufferLines - 1 |-> Zero]
  /\ ringbufsnap = NoSnap
  /\ out = <<"none", NoFrame>>
  /\ layout = <<>>

Initialize ==
  /\ buffer_size' = BufferLines
  /\ write_index' = 0 /\ read_index' = 0
  /\ NumberOfStoredBytes' = 0 /\ FramesStored' = 0
  /\ marks' = [Empty EXCEPT !.min_capacity = BufferLines]
  /\ SlipCounter' = 0
  /\ ptr' = [i \in 0 .. BufferLines - 1 |-> Zero]
  /\ ringbufsnap' = NoSnap
  /\ layout' = <<>>
  /\ out' = out

Uninitialize ==
  /\ buffer_size' = 0
  /\ write_index' = 0 /\ read_index' = 0
  /\ NumberOfStoredBytes' = 0 /\ FramesStored' = 0
  /\ marks' = Empty
  /\ ptr' = [i \in 0 .. BufferLines - 1 |-> Zero]
  /\ ringbufsnap' = NoSnap
  /\ layout' = <<>>
  /\ UNCHANGED <<SlipCounter, out>>

-----------------------------------------------------------------------------
first_run == buffer_size - write_index
capacity  == buffer_size - NumberOfStoredBytes

\* The mutants of this module are slips that this code invites; each breaks
\* a property of a run (PROJECT.json says which).
AcceptsAnyTail(n)     == first_run >= n \/ capacity >= n + first_run
AcceptsWithoutSkip(n) == capacity >= n

Accepts(n) ==
  \/ first_run >= n /\ capacity >= n
  \/ first_run <  n /\ capacity >= n + first_run

\* Lines given up at the end of the array so that n lines are contiguous.
Skipped(n) == IF first_run < n THEN first_run ELSE 0

ChargedFrameOnly(n) == n
Charged(n) == n + Skipped(n)

HigherOf(a, b) == IF a >= b THEN a ELSE b
LowerOf(a, b)  == IF a <= b THEN a ELSE b

RaiseMarksTooEarly(n) ==
  [ max_frames   |-> HigherOf(marks.max_frames, FramesStored),
    max_bytes    |-> HigherOf(marks.max_bytes, NumberOfStoredBytes),
    min_capacity |-> LowerOf(marks.min_capacity, capacity),
    processed    |-> (marks.processed + 1) % CounterModulus ]

RaiseMarks(n) ==
  [ max_frames   |-> HigherOf(marks.max_frames, FramesStored + 1),
    max_bytes    |-> HigherOf(marks.max_bytes, NumberOfStoredBytes + Charged(n)),
    min_capacity |-> LowerOf(marks.min_capacity, capacity - n),
    processed    |-> (marks.processed + 1) % CounterModulus ]

Write(f) ==
  LET n     == Lines(f)
      start == IF Skipped(n) > 0 THEN 0 ELSE write_index
  IN
  /\ Accepts(n)
  /\ ptr' = [i \in DOMAIN ptr |->
               IF i \in start .. start + n - 1 THEN Part(f, i - start)
               ELSE IF Skipped(n) > 0 /\ i = write_index THEN Zero
               ELSE ptr[i]]
  /\ write_index' = Wrap(start + n)
  /\ NumberOfStoredBytes' = NumberOfStoredBytes + Charged(n)
  /\ FramesStored' = FramesStored + 1
  /\ marks' = RaiseMarks(n)
  /\ out' = <<"accepted", f>>
  /\ layout' = Append(layout, [off |-> Used + Skipped(n), frame |-> f])
  /\ UNCHANGED <<buffer_size, read_index, SlipCounter, ringbufsnap>>

WriteRefused(f) ==
  /\ ~Accepts(Lines(f))
  /\ out' = <<"refused", f>>
  /\ UNCHANGED <<buffer_size, indices, marks, SlipCounter, ptr, ringbufsnap, layout>>

-----------------------------------------------------------------------------
AtSkip == ptr[read_index].len = 0

ReadStartNoJump == read_index
ReadStart == IF AtSkip THEN 0 ELSE read_index
ReadLen   == ptr[ReadStart].len

\* A skipped tail is given back to the byte count, but then the lines of the
\* frame behind it are not.
ReadReleases == IF AtSkip THEN buffer_size - read_index ELSE LinesOf(ReadLen)

RemainingNoReset == NumberOfStoredBytes - ReadReleases
Remaining ==
  IF FramesStored = 1 THEN 0 ELSE NumberOfStoredBytes - ReadReleases

\* The callers of Discard never read between Snap and Discard: a snapshot
\* older than a Read is dead and is forgotten here.
Read ==
  /\ FramesStored > 0
  /\ FramesStored' = FramesStored - 1
  /\ NumberOfStoredBytes' = Remaining
  /\ read_index' = Wrap(ReadStart + LinesOf(ReadLen))
  /\ out' = <<"read", Copied(ReadStart, ReadLen)>>
  /\ ringbufsnap' = NoSnap
  /\ layout' = [i \in 1 .. Len(layout) - 1 |->
                  [layout[i + 1] EXCEPT !.off = @ - End(layout, 1)]]
  /\ UNCHANGED <<buffer_size, write_index, marks, SlipCounter, ptr>>

ReadNothing ==
  /\ FramesStored = 0
  /\ out' = <<"read", NoFrame>>
  /\ ringbufsnap' = NoSnap
  /\ UNCHANGED <<buffer_size, indices, marks, SlipCounter, ptr, layout>>

-----------------------------------------------------------------------------
Snap ==
  /\ ringbufsnap' = [ snap |-> "at", buffer_size |-> buffer_size,
                      write_index |-> write_index, read_index |-> read_index,
                      NumberOfStoredBytes |-> NumberOfStoredBytes,
                      FramesStored |-> FramesStored, marks |-> marks ]
  /\ UNCHANGED <<buffer_size, indices, marks, SlipCounter, ptr, out, layout>>

Discard ==
  /\ ringbufsnap # NoSnap
  /\ buffer_size' = ringbufsnap.buffer_size
  /\ write_index' = ringbufsnap.write_index
  /\ read_index' = ringbufsnap.read_index
  /\ NumberOfStoredBytes' = ringbufsnap.NumberOfStoredBytes
  /\ FramesStored' = ringbufsnap.FramesStored
  /\ marks' = ringbufsnap.marks
  /\ layout' = SubSeq(layout, 1, ringbufsnap.FramesStored)
  /\ UNCHANGED <<SlipCounter, ptr, ringbufsnap, out>>

GetCapacity ==
  /\ capacity < LowWater
  /\ SlipCounter' = (SlipCounter + 1) % CounterModulus
  /\ UNCHANGED <<buffer_size, indices, marks, ptr, ringbufsnap, out, layout>>

Next ==
  \/ \E f \in Frames : Write(f) \/ WriteRefused(f)
  \/ Read \/ ReadNothing
  \/ Snap \/ Discard
  \/ GetCapacity
  \/ Initialize \/ Uninitialize

Spec == Init /\ [][Next]_vars

-----------------------------------------------------------------------------
SnapRecord ==
  [ snap : {"at"}, buffer_size : {0, BufferLines}, write_index : Nat,
    read_index : Nat, NumberOfStoredBytes : Nat, FramesStored : Nat,
    marks : [max_frames : Nat, max_bytes : Nat, min_capacity : Nat, processed : Nat] ]

\* Every field has the type of its declaration, no count is negative.
TypeOK ==
  /\ buffer_size \in {0, BufferLines}
  /\ write_index \in Nat /\ read_index \in Nat
  /\ NumberOfStoredBytes \in 0 .. buffer_size
  /\ FramesStored \in Nat
  /\ marks \in [max_frames : Nat, max_bytes : Nat, min_capacity : Nat, processed : Nat]
  /\ SlipCounter \in 0 .. CounterModulus - 1
  /\ ptr \in [0 .. BufferLines - 1 ->
                {Zero} \cup { Part(f, k) : f \in Frames, k \in 0 .. BufferLines }]
  /\ ringbufsnap \in {NoSnap} \cup SnapRecord
  /\ layout \in Seq([off : Nat, frame : Frames])

-----------------------------------------------------------------------------
(* The invariant that makes the ring correct, in terms of layout.           *)

\* Distance at which frame i would start if nothing had been skipped for it.
Expected(l, i) == IF i = 1 THEN 0 ELSE End(l, i - 1)

IndicesOK ==
  /\ IF buffer_size = 0 THEN read_index = 0 ELSE read_index < buffer_size
  /\ write_index = IF buffer_size = 0 THEN 0 ELSE LineAt(Used)

OrderedOK ==
  \A i, j \in 1 .. Len(layout) : i < j => End(layout, i) <= layout[j].off

\* A frame follows its predecessor, or a zeroed line sends the reader to line 0.
SkipsOK ==
  \A i \in 1 .. Len(layout) :
    LET e == Expected(layout, i) IN
    \/ layout[i].off = e
    \/ /\ layout[i].off > e
       /\ LineAt(layout[i].off) = 0
       /\ ptr[LineAt(e)] = Zero

\* The state that Discard would restore.
SnapOK ==
  ringbufsnap # NoSnap =>
    LET s == ringbufsnap
        u == IF s.FramesStored = 0 THEN 0 ELSE End(layout, s.FramesStored)
    IN /\ s.buffer_size = buffer_size
       /\ s.read_index = read_index
       /\ s.FramesStored <= Len(layout)
       /\ s.write_index = IF buffer_size = 0 THEN 0 ELSE LineAt(u)
       /\ u <= s.NumberOfStoredBytes
       /\ s.NumberOfStoredBytes <= buffer_size
       /\ s.FramesStored = 0 => s.NumberOfStoredBytes = 0

-----------------------------------------------------------------------------
Frame(i) == layout[i].frame
First(i) == LineAt(layout[i].off)

\* No write runs over a frame that was not read yet: every stored frame is
\* whole, in contiguous lines, until Read copies it out -- across skips,
\* wrapped indices and rolled back writes.
StoredFramesIntact ==
  /\ Len(layout) = FramesStored
  /\ \A i \in 1 .. Len(layout) :
       /\ First(i) + Lines(Frame(i)) <= buffer_size
       /\ \A k \in 0 .. Lines(Frame(i)) - 1 : ptr[First(i) + k] = Part(Frame(i), k)

\* NumberOfStoredBytes, from which Write and GetCapacity judge the room
\* left, never undercounts the lines that hold unread frames and skips, and
\* is back to 0 when the last frame is read (main_test.cpp:435).
NeverUndercounts ==
  /\ Used <= NumberOfStoredBytes
  /\ NumberOfStoredBytes <= buffer_size
  /\ FramesStored = 0 => NumberOfStoredBytes = 0

\* An empty ring takes any frame, wherever its indices stand: the parser and
\* the receiver repeat a refused Write until it is accepted.
EmptyAcceptsAll ==
  buffer_size > 0 /\ FramesStored = 0 => \A f \in Frames : Accepts(Lines(f))

\* Enough room for n more lines in frames of at most longest lines each, in
\* whatever order they come: either they fit before the end of the array, or
\* there are lines to spare for the one skip that they may cause.
Room(n, longest) ==
  \/ capacity >= n + longest - 1
  \/ capacity >= n /\ first_run >= n

\* The high-water marks cover the present state, also after Discard put back
\* the marks of the snapshot.
MarksCoverState ==
  /\ marks.max_frames >= FramesStored
  /\ marks.max_bytes >= NumberOfStoredBytes
  /\ marks.min_capacity + marks.max_bytes >= buffer_size

IsOpen == buffer_size > 0
StoredFrames == [i \in 1 .. Len(layout) |-> layout[i].frame]
SavedLength ==
  IF ringbufsnap = NoSnap THEN NoSnap
    ELSE [snap |-> "at", length |-> ringbufsnap.FramesStored]

\* The ring implements the queue: Read returns the frame written first of
\* those unread and returns it whole, Discard removes exactly the frames
\* written since Snap, and a Write is refused only if frames are stored.
Queue == INSTANCE FrameQueue WITH
           open <- IsOpen, queue <- StoredFrames, saved <- SavedLength

ImplementsQueue == Queue!Spec

IInv ==
  /\ TypeOK
  /\ IndicesOK
  /\ OrderedOK
  /\ SkipsOK
  /\ StoredFramesIntact
  /\ NeverUndercounts
  /\ SnapOK

=============================================================================
