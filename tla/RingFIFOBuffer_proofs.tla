----------------------- MODULE RingFIFOBuffer_proofs -----------------------
(***************************************************************************)
(* Proofs about RingFIFOBuffer, for every size of the ring and every set   *)
(* of frames of which each takes at most half of it.                       *)
(***************************************************************************)
EXTENDS RingFIFOBuffer, SequenceTheorems, TLAPS

-----------------------------------------------------------------------------
(* Arithmetic of lines.                                                     *)

\* A frame takes at least one line and at most half of the ring.
LEMMA LinesPositive ==
  ASSUME NEW f \in Frames
  PROVE  /\ f.len \in Nat \ {0}
         /\ Lines(f) \in Nat \ {0}
         /\ 2 * Lines(f) <= BufferLines
         /\ LinesOf(f.len) = Lines(f)
<1>1. f.len \in Nat \ {0} /\ 2 * Lines(f) <= BufferLines
  BY FramesAssumption
<1>2. Lines(f) \in Nat \ {0}
  BY <1>1 DEF Lines, LinesOf, Next64Aligned
<1>3. QED
  BY <1>1, <1>2 DEF Lines

\* An offset of less than a whole turn lands on a line of the array.
LEMMA AtRange ==
  ASSUME NEW size \in Nat, NEW r \in 0 .. size - 1, NEW off \in 0 .. size
  PROVE  At(r, size, off) \in 0 .. size - 1
BY DEF At

\* Two offsets of one turn share no line.
LEMMA AtInjective ==
  ASSUME NEW size \in Nat, NEW r \in 0 .. size - 1,
         NEW a \in 0 .. size - 1, NEW b \in 0 .. size - 1,
         At(r, size, a) = At(r, size, b)
  PROVE  a = b
BY DEF At

\* Inside a run that does not pass the end of the array, offsets and lines
\* advance together.
LEMMA AtRun ==
  ASSUME NEW size \in Nat, NEW r \in 0 .. size - 1, NEW off \in Nat,
         NEW n \in Nat, At(r, size, off) + n <= size,
         NEW k \in 0 .. n - 1
  PROVE  At(r, size, off + k) = At(r, size, off) + k
BY DEF At

\* The line after a run, wrapped as the code wraps its indices.
LEMMA AtEnd ==
  ASSUME NEW size \in Nat, NEW r \in 0 .. size - 1, NEW off \in Nat,
         NEW n \in Nat, At(r, size, off) + n <= size, off + n <= size
  PROVE  At(r, size, off + n)
           = IF At(r, size, off) + n >= size THEN 0 ELSE At(r, size, off) + n
BY DEF At

\* Moving the origin of the offsets moves no line.
LEMMA AtShift ==
  ASSUME NEW size \in Nat, NEW r \in 0 .. size - 1, NEW d \in 0 .. size,
         NEW off \in d .. size
  PROVE  At(At(r, size, d), size, off - d) = At(r, size, off)
BY DEF At

-----------------------------------------------------------------------------
(* What the invariant says of a layout.                                     *)

\* The type of the stored frames, in the form the provers need.
LEMMA LayoutFacts ==
  ASSUME IInv
  PROVE  /\ \A i \in 1 .. Len(layout) :
              /\ layout[i].off \in Nat /\ layout[i].frame \in Frames
              /\ End(layout, i) \in Nat /\ layout[i].off < End(layout, i)
              /\ End(layout, i) <= Used
              /\ Expected(layout, i) \in Nat
              /\ Expected(layout, i) <= layout[i].off
         /\ Used \in 0 .. buffer_size
         /\ Len(layout) = FramesStored /\ FramesStored \in Nat
         /\ layout \in Seq([off : Nat, frame : Frames])
         /\ buffer_size \in Nat
<1>1. /\ layout \in Seq([off : Nat, frame : Frames]) /\ Len(layout) \in Nat
      /\ buffer_size \in Nat /\ NumberOfStoredBytes \in Nat
      /\ Len(layout) = FramesStored /\ FramesStored \in Nat
  BY BufferAssumption DEF IInv, TypeOK, StoredFramesIntact
<1>2. ASSUME NEW i \in 1 .. Len(layout)
      PROVE  /\ layout[i].off \in Nat /\ layout[i].frame \in Frames
             /\ End(layout, i) \in Nat /\ layout[i].off < End(layout, i)
  <2>1. layout[i] \in [off : Nat, frame : Frames]
    BY <1>1, ElementOfSeq
  <2>2. Lines(layout[i].frame) \in Nat \ {0}
    BY <2>1, LinesPositive
  <2>3. QED
    BY <2>1, <2>2 DEF End
<1>3. ASSUME NEW i \in 1 .. Len(layout)
      PROVE  End(layout, i) <= Used
  <2>1. layout # <<>>
    BY <1>1
  <2>2. CASE i = Len(layout)
    BY <2>1, <2>2, <1>2 DEF Used, UsedBy
  <2>3. CASE i < Len(layout)
    <3>1. End(layout, i) <= layout[Len(layout)].off
      BY <2>3, <1>1 DEF IInv, OrderedOK
    <3>2. layout[Len(layout)].off < End(layout, Len(layout))
      BY <2>3, <1>1, <1>2
    <3>3. /\ layout[Len(layout)].off \in Nat
          /\ End(layout, Len(layout)) \in Nat /\ End(layout, i) \in Nat
      BY <2>3, <1>1, <1>2
    <3>4. QED
      BY <2>1, <3>1, <3>2, <3>3 DEF Used, UsedBy
  <2>4. QED
    BY <2>2, <2>3, <1>1
<1>4. ASSUME NEW i \in 1 .. Len(layout)
      PROVE  Expected(layout, i) \in Nat /\ Expected(layout, i) <= layout[i].off
  <2>1. Expected(layout, i) \in Nat
    BY <1>1, <1>2 DEF Expected
  <2>2. QED
    BY <2>1, <1>2 DEF IInv, SkipsOK
<1>5. Used \in 0 .. buffer_size
  <2>1. Used \in Nat
    BY <1>1, <1>2 DEF Used, UsedBy
  <2>2. Used <= NumberOfStoredBytes /\ NumberOfStoredBytes <= buffer_size
    BY DEF IInv, NeverUndercounts
  <2>3. QED
    BY <1>1, <2>1, <2>2
<1>6. QED
  BY <1>1, <1>2, <1>3, <1>4, <1>5

-----------------------------------------------------------------------------
(* Write.                                                                   *)

\* Where an accepted frame goes: behind the stored frames, in free lines.
LEMMA WritePlace ==
  ASSUME IInv, NEW f \in Frames, Accepts(Lines(f)),
         NEW n, n = Lines(f), NEW s, s = Skipped(n),
         NEW start, start = IF s > 0 THEN 0 ELSE write_index
  PROVE  /\ buffer_size = BufferLines /\ BufferLines \in Nat \ {0}
         /\ read_index \in 0 .. BufferLines - 1
         /\ write_index \in 0 .. BufferLines - 1
         /\ write_index = At(read_index, BufferLines, Used)
         /\ n \in Nat \ {0} /\ s \in Nat
         /\ NumberOfStoredBytes + n + s <= BufferLines
         /\ Used + n + s <= BufferLines
         /\ At(read_index, BufferLines, Used + s) = start
         /\ start \in Nat /\ start + n <= BufferLines
<1>1. /\ n \in Nat \ {0} /\ BufferLines \in Nat \ {0}
      /\ write_index \in Nat /\ read_index \in Nat
      /\ buffer_size \in {0, BufferLines} /\ NumberOfStoredBytes \in 0 .. buffer_size
  BY LinesPositive, BufferAssumption DEF IInv, TypeOK
<1>2. buffer_size = BufferLines
  BY <1>1 DEF Accepts, first_run, capacity, IInv, IndicesOK
<1>3. read_index \in 0 .. BufferLines - 1
  BY <1>1, <1>2 DEF IInv, IndicesOK
<1>4. Used \in 0 .. BufferLines /\ Used <= NumberOfStoredBytes
  BY <1>2, LayoutFacts DEF IInv, NeverUndercounts
<1>5. write_index = At(read_index, BufferLines, Used)
  BY <1>1, <1>2 DEF IInv, IndicesOK, LineAt
<1>6. write_index \in 0 .. BufferLines - 1
  BY <1>1, <1>3, <1>4, <1>5, AtRange
<1>7. s \in Nat /\ NumberOfStoredBytes + n + s <= BufferLines
  BY <1>1, <1>2, <1>6 DEF Skipped, Accepts, first_run, capacity
<1>8. Used + n + s <= BufferLines
  BY <1>1, <1>4, <1>7
<1>9. s = IF BufferLines - write_index < n THEN BufferLines - write_index ELSE 0
  BY <1>2 DEF Skipped, first_run
<1>10. /\ At(read_index, BufferLines, Used + s) = start
       /\ start \in Nat /\ start + n <= BufferLines
  BY <1>1, <1>3, <1>4, <1>5, <1>6, <1>8, <1>9 DEF At
<1>11. QED
  BY <1>1, <1>2, <1>3, <1>5, <1>6, <1>7, <1>8, <1>10

\* The lines of the frames stored before a Write are not touched by it.
LEMMA WriteTouchesFreeLines ==
  ASSUME IInv, NEW f \in Frames, Write(f), NEW off \in 0 .. Used - 1
  PROVE  ptr'[LineAt(off)] = ptr[LineAt(off)]
<1> DEFINE n == Lines(f)
           s == Skipped(n)
           start == IF s > 0 THEN 0 ELSE write_index
           u == Used
<1>1. /\ buffer_size = BufferLines /\ BufferLines \in Nat \ {0}
      /\ read_index \in 0 .. BufferLines - 1
      /\ write_index = At(read_index, BufferLines, u)
      /\ n \in Nat \ {0} /\ s \in Nat
      /\ u + n + s <= BufferLines
      /\ At(read_index, BufferLines, u + s) = start
      /\ start \in Nat /\ start + n <= BufferLines
  BY WritePlace DEF Write
<1>2. u \in 0 .. BufferLines /\ off \in 0 .. u - 1
  BY <1>1, LayoutFacts
<1> HIDE DEF u, n, s, start
<1>3. LineAt(off) = At(read_index, BufferLines, off)
  BY <1>1 DEF LineAt
<1>4. LineAt(off) \in 0 .. BufferLines - 1
  BY <1>1, <1>2, <1>3 DEF At
<1>5. LineAt(off) # write_index
  BY <1>1, <1>2, <1>3 DEF At
<1>6. LineAt(off) \notin start .. start + n - 1
  BY <1>1, <1>2, <1>3 DEF At
<1>7. DOMAIN ptr = 0 .. BufferLines - 1
  BY DEF IInv, TypeOK
<1>8. ptr' = [i \in DOMAIN ptr |->
               IF i \in start .. start + n - 1 THEN Part(f, i - start)
               ELSE IF s > 0 /\ i = write_index THEN Zero
               ELSE ptr[i]]
  BY DEF Write, n, s, start
<1>9. QED
  BY <1>4, <1>5, <1>6, <1>7, <1>8

\* The layout after a Write: the old one and the new frame at its end.
LEMMA WriteLayout ==
  ASSUME IInv, NEW f \in Frames, Write(f)
  PROVE  /\ layout' \in Seq([off : Nat, frame : Frames])
         /\ Len(layout') = Len(layout) + 1
         /\ \A i \in 1 .. Len(layout) :
              layout'[i] = layout[i] /\ End(layout', i) = End(layout, i)
         /\ layout'[Len(layout) + 1] = [off |-> Used + Skipped(Lines(f)), frame |-> f]
         /\ End(layout', Len(layout) + 1) = Used + Skipped(Lines(f)) + Lines(f)
         /\ Used' = Used + Skipped(Lines(f)) + Lines(f)
<1> DEFINE new == [off |-> Used + Skipped(Lines(f)), frame |-> f]
<1>1. Used \in Nat /\ Skipped(Lines(f)) \in Nat /\ Lines(f) \in Nat
  BY WritePlace, LayoutFacts DEF Write
<1>2. new \in [off : Nat, frame : Frames]
  BY <1>1
<1>3. layout \in Seq([off : Nat, frame : Frames])
  BY LayoutFacts
<1>4. layout' = Append(layout, new)
  BY DEF Write
<1>5. /\ layout' \in Seq([off : Nat, frame : Frames])
      /\ Len(layout') = Len(layout) + 1
      /\ \A i \in 1 .. Len(layout) : layout'[i] = layout[i]
      /\ layout'[Len(layout) + 1] = new
  BY <1>2, <1>3, <1>4, AppendProperties
<1>6. Len(layout) \in Nat
  BY <1>3
<1>7. \A i \in 1 .. Len(layout) : End(layout', i) = End(layout, i)
  BY <1>5 DEF End
<1>8. End(layout', Len(layout) + 1) = Used + Skipped(Lines(f)) + Lines(f)
  BY <1>5 DEF End
<1>9. Used' = End(layout', Len(layout) + 1)
  <2>1. layout' # <<>>
    BY <1>5, <1>6
  <2>2. QED
    BY <2>1, <1>5 DEF Used, UsedBy, End
<1>10. QED
  BY <1>5, <1>7, <1>8, <1>9

\* Write stores behind the last frame, in lines that hold no unread one.
LEMMA WriteStep ==
  ASSUME IInv, NEW f \in Frames, Write(f)
  PROVE  IInv'
<1> DEFINE n == Lines(f)
           s == Skipped(n)
           start == IF s > 0 THEN 0 ELSE write_index
           u == Used
           L == Len(layout)
<1>1. /\ buffer_size = BufferLines /\ BufferLines \in Nat \ {0}
      /\ read_index \in 0 .. BufferLines - 1
      /\ write_index \in 0 .. BufferLines - 1
      /\ write_index = At(read_index, BufferLines, u)
      /\ n \in Nat \ {0} /\ s \in Nat
      /\ NumberOfStoredBytes + n + s <= BufferLines
      /\ u + n + s <= BufferLines
      /\ At(read_index, BufferLines, u + s) = start
      /\ start \in Nat /\ start + n <= BufferLines
  BY WritePlace DEF Write
<1>2. /\ u \in 0 .. BufferLines /\ L \in Nat /\ L = FramesStored
      /\ NumberOfStoredBytes \in Nat /\ u <= NumberOfStoredBytes
  <2>1. u \in 0 .. buffer_size /\ L \in Nat /\ L = FramesStored
    BY LayoutFacts
  <2>2. NumberOfStoredBytes \in 0 .. buffer_size /\ u <= NumberOfStoredBytes
    BY DEF IInv, NeverUndercounts, TypeOK
  <2> HIDE DEF u, L
  <2>3. QED
    BY <1>1, <2>1, <2>2
<1>3. /\ layout' \in Seq([off : Nat, frame : Frames])
      /\ Len(layout') = L + 1
      /\ \A i \in 1 .. L : layout'[i] = layout[i] /\ End(layout', i) = End(layout, i)
      /\ layout'[L + 1] = [off |-> u + s, frame |-> f]
      /\ End(layout', L + 1) = u + s + n
      /\ Used' = u + s + n
  BY WriteLayout
<1>4. /\ buffer_size' = BufferLines /\ read_index' = read_index
      /\ write_index' = Wrap(start + n)
      /\ NumberOfStoredBytes' = NumberOfStoredBytes + n + s
      /\ FramesStored' = FramesStored + 1
      /\ SlipCounter' = SlipCounter /\ ringbufsnap' = ringbufsnap
      /\ marks' = RaiseMarks(n)
  <2>1. NumberOfStoredBytes' = NumberOfStoredBytes + Charged(n) /\ Charged(n) = n + s
    BY DEF Write, Charged
  <2>2. NumberOfStoredBytes' = NumberOfStoredBytes + n + s
    BY <1>1, <1>2, <2>1
  <2>3. QED
    BY <1>1, <2>2 DEF Write
<1>5. ptr' = [i \in 0 .. BufferLines - 1 |->
               IF i \in start .. start + n - 1 THEN Part(f, i - start)
               ELSE IF s > 0 /\ i = write_index THEN Zero
               ELSE ptr[i]]
  BY DEF Write, IInv, TypeOK
<1>6. ASSUME NEW off
      PROVE  LineAt(off)' = LineAt(off)
  BY <1>1, <1>4 DEF LineAt
<1>7. ASSUME NEW i \in 1 .. L
      PROVE  /\ layout[i].off \in Nat /\ layout[i].frame \in Frames
             /\ End(layout, i) \in Nat /\ layout[i].off < End(layout, i)
             /\ End(layout, i) <= u
             /\ Expected(layout, i) \in Nat
             /\ Expected(layout, i) <= layout[i].off
             /\ Lines(layout[i].frame) \in Nat
             /\ End(layout, i) = layout[i].off + Lines(layout[i].frame)
  BY LayoutFacts, LinesPositive DEF End
<1>8. ASSUME NEW off \in 0 .. u - 1
      PROVE  ptr'[LineAt(off)] = ptr[LineAt(off)]
  BY <1>8, WriteTouchesFreeLines
<1>9. TypeOK'
  <2>1. marks' \in [max_frames : Nat, max_bytes : Nat, min_capacity : Nat, processed : Nat]
    <3>1. marks \in [max_frames : Nat, max_bytes : Nat, min_capacity : Nat, processed : Nat]
      BY DEF IInv, TypeOK
    <3>2. /\ FramesStored + 1 \in Nat
          /\ NumberOfStoredBytes + Charged(n) \in Nat
          /\ capacity - n \in Nat
      <4>1. Charged(n) = n + s /\ capacity = BufferLines - NumberOfStoredBytes
        BY <1>1 DEF capacity, Charged
      <4> HIDE DEF n, s
      <4>2. QED
        BY <1>1, <1>2, <4>1
    <3>3. (marks.processed + 1) % CounterModulus \in Nat
      BY <3>1, BufferAssumption
    <3>4. QED
      BY <1>4, <3>1, <3>2, <3>3 DEF RaiseMarks, HigherOf, LowerOf
  <2>2. ptr' \in [0 .. BufferLines - 1 ->
                  {Zero} \cup { Part(g, k) : g \in Frames, k \in 0 .. BufferLines }]
    <3>1. ASSUME NEW i \in 0 .. BufferLines - 1, i \in start .. start + n - 1
          PROVE  i - start \in 0 .. BufferLines
      BY <1>1, <3>1
    <3>2. ptr \in [0 .. BufferLines - 1 ->
                  {Zero} \cup { Part(g, k) : g \in Frames, k \in 0 .. BufferLines }]
      BY DEF IInv, TypeOK
    <3> HIDE DEF n, s, start
    <3>3. QED
      BY <1>5, <3>1, <3>2
  <2>3. write_index' \in Nat
    BY <1>1, <1>4 DEF Wrap
  <2>4. ringbufsnap' \in {NoSnap} \cup SnapRecord
    BY <1>4 DEF IInv, TypeOK
  <2>5. SlipCounter' \in 0 .. CounterModulus - 1 /\ read_index' \in Nat
    BY <1>1, <1>4 DEF IInv, TypeOK
  <2>6. NumberOfStoredBytes' \in 0 .. buffer_size'
    <3>1. /\ NumberOfStoredBytes' = NumberOfStoredBytes + n + s
          /\ buffer_size' = BufferLines
      BY <1>4
    <3> HIDE DEF n, s
    <3>2. QED
      BY <1>1, <1>2, <3>1
  <2>7. FramesStored' \in Nat
    BY <1>2, <1>4
  <2>8. QED
    BY <1>3, <1>4, <2>1, <2>2, <2>3, <2>4, <2>5, <2>6, <2>7 DEF TypeOK
<1>10. IndicesOK'
  <2>1. write_index' = At(read_index, BufferLines, u + s + n)
    <3>1. write_index' = IF start + n >= BufferLines THEN 0 ELSE start + n
      BY <1>1, <1>4 DEF Wrap
    <3> HIDE DEF u, s, n, start
    <3>2. QED
      BY <1>1, <1>2, <3>1 DEF At
  <2>2. QED
    BY <1>1, <1>3, <1>4, <2>1 DEF IndicesOK, LineAt
<1>11. OrderedOK'
  <2> SUFFICES ASSUME NEW i \in 1 .. L + 1, NEW j \in 1 .. L + 1, i < j
               PROVE  End(layout', i) <= layout'[j].off
    BY <1>3 DEF OrderedOK, End
  <2>1. CASE j \in 1 .. L
    BY <1>2, <1>3, <2>1 DEF IInv, OrderedOK
  <2>2. CASE j = L + 1
    <3>1. i \in 1 .. L
      BY <1>2, <2>2
    <3>2. End(layout', i) = End(layout, i) /\ End(layout, i) <= u /\ End(layout, i) \in Nat
      BY <1>3, <1>7, <3>1
    <3>3. layout'[j].off = u + s
      BY <1>3, <2>2
    <3>4. QED
      BY <1>1, <1>2, <3>2, <3>3
  <2>3. QED
    BY <1>2, <2>1, <2>2
<1>12. SkipsOK'
  <2> SUFFICES ASSUME NEW i \in 1 .. L + 1
               PROVE  \/ layout'[i].off = Expected(layout', i)
                      \/ /\ layout'[i].off > Expected(layout', i)
                         /\ LineAt(layout'[i].off) = 0
                         /\ ptr'[LineAt(Expected(layout', i))] = Zero
    BY <1>3, <1>6 DEF SkipsOK, Expected, End, LineAt
  <2>1. CASE i \in 1 .. L
    <3>1. layout'[i] = layout[i] /\ Expected(layout', i) = Expected(layout, i)
      BY <1>2, <1>3, <2>1 DEF Expected
    <3>2. \/ layout[i].off = Expected(layout, i)
          \/ /\ layout[i].off > Expected(layout, i)
             /\ LineAt(layout[i].off) = 0
             /\ ptr[LineAt(Expected(layout, i))] = Zero
      BY <2>1 DEF IInv, SkipsOK
    <3>3. Expected(layout, i) \in 0 .. u - 1
      <4>1. /\ Expected(layout, i) \in Nat /\ layout[i].off \in Nat
            /\ End(layout, i) \in Nat
            /\ Expected(layout, i) <= layout[i].off
            /\ layout[i].off < End(layout, i) /\ End(layout, i) <= u
        BY <1>7, <2>1
      <4> HIDE DEF u
      <4>2. QED
        BY <1>2, <4>1
    <3>4. QED
      BY <1>8, <3>1, <3>2, <3>3
  <2>2. CASE i = L + 1
    <3>1. Expected(layout', i) = u
      <4>1. CASE L = 0
        BY <2>2, <4>1, <1>3, LayoutFacts DEF Expected, Used, UsedBy
      <4>2. CASE L # 0
        <5>1. layout # <<>> /\ L \in 1 .. L
          BY <1>2, <4>2
        <5>2. End(layout', L) = End(layout, L) /\ u = End(layout, L)
          BY <1>3, <5>1 DEF Used, UsedBy
        <5>3. QED
          BY <1>2, <2>2, <4>2, <5>2 DEF Expected
      <4>3. QED
        BY <4>1, <4>2
    <3>2. layout'[i].off = u + s
      BY <1>3, <2>2
    <3>3. CASE s = 0
      BY <1>1, <1>2, <3>1, <3>2, <3>3
    <3>4. CASE s > 0
      <4>1. LineAt(u + s) = 0 /\ LineAt(u) = write_index /\ start = 0
        BY <1>1, <3>4 DEF LineAt
      <4>2. write_index \notin start .. start + n - 1
        <5> HIDE DEF u, s, n, start
        <5>1. QED
          BY <1>1, <1>2, <3>4, <4>1 DEF At
      <4>3. ptr'[write_index] = Zero
        BY <1>1, <1>5, <3>4, <4>2
      <4>4. QED
        BY <1>1, <1>2, <3>1, <3>2, <3>4, <4>1, <4>3
    <3>5. QED
      BY <1>1, <3>3, <3>4
  <2>3. QED
    BY <1>2, <2>1, <2>2
<1>13. StoredFramesIntact'
  <2>1. Len(layout') = FramesStored'
    BY <1>2, <1>3, <1>4
  <2>2. ASSUME NEW i \in 1 .. L + 1
        PROVE  LET g == layout'[i].frame
                   l == LineAt(layout'[i].off)
               IN  /\ l + Lines(g) <= BufferLines
                   /\ \A k \in 0 .. Lines(g) - 1 : ptr'[l + k] = Part(g, k)
    <3>1. CASE i \in 1 .. L
      <4> DEFINE g == layout[i].frame
                 l == LineAt(layout[i].off)
      <4>1. layout'[i] = layout[i]
        BY <1>3, <3>1
      <4>2. /\ l + Lines(g) <= BufferLines
            /\ \A k \in 0 .. Lines(g) - 1 : ptr[l + k] = Part(g, k)
        BY <1>1, <3>1 DEF IInv, StoredFramesIntact, First, Frame
      <4>3. ASSUME NEW k \in 0 .. Lines(g) - 1
            PROVE  ptr'[l + k] = Part(g, k)
        <5>1. layout[i].off + k \in 0 .. u - 1
          BY <1>2, <1>7, <3>1
        <5>2. LineAt(layout[i].off + k) = l + k
          <6>1. l = At(read_index, BufferLines, layout[i].off)
            BY <1>1 DEF LineAt
          <6>2. Lines(g) \in Nat /\ layout[i].off \in Nat
            BY <1>7, <3>1
          <6>3. At(read_index, BufferLines, layout[i].off + k) = l + k
            BY <1>1, <4>2, <6>1, <6>2, AtRun
          <6>4. QED
            BY <1>1, <6>3 DEF LineAt
        <5>3. QED
          BY <1>8, <4>2, <5>1, <5>2
      <4>4. QED
        BY <4>1, <4>2, <4>3
    <3>2. CASE i = L + 1
      <4>1. layout'[i].frame = f /\ LineAt(layout'[i].off) = start
        BY <1>1, <1>3, <3>2 DEF LineAt
      <4>2. ASSUME NEW k \in 0 .. n - 1
            PROVE  ptr'[start + k] = Part(f, k)
        <5>1. PICK j \in 0 .. BufferLines - 1 : j = start + k
          BY <1>1
        <5>2. j \in start .. start + n - 1 /\ j - start = k
          BY <1>1, <5>1
        <5>3. ptr'[j] = Part(f, j - start)
          <6> HIDE DEF start, n, s
          <6>1. QED
            BY <1>5, <5>2
        <5>4. QED
          BY <5>1, <5>2, <5>3
      <4>3. QED
        BY <1>1, <4>1, <4>2
    <3>3. QED
      BY <1>2, <3>1, <3>2
  <2>3. QED
    BY <1>3, <1>4, <1>6, <2>1, <2>2 DEF StoredFramesIntact, First, Frame, LineAt
<1>14. NeverUndercounts'
  <2>1. Used' <= NumberOfStoredBytes' /\ NumberOfStoredBytes' <= buffer_size'
    <3>1. /\ Used' = u + s + n /\ NumberOfStoredBytes' = NumberOfStoredBytes + n + s
          /\ buffer_size' = BufferLines
      BY <1>3, <1>4
    <3> HIDE DEF u, s, n
    <3>2. QED
      BY <1>1, <1>2, <3>1
  <2>2. FramesStored' # 0
    BY <1>2, <1>4
  <2>3. QED
    BY <2>1, <2>2 DEF NeverUndercounts
<1>15. SnapOK'
  <2> SUFFICES ASSUME ringbufsnap # NoSnap
               PROVE  SnapOK'
    BY <1>4 DEF SnapOK
  <2> DEFINE r == ringbufsnap
  <2>1. /\ r.buffer_size = buffer_size /\ r.read_index = read_index
        /\ r.FramesStored <= L /\ r.FramesStored \in Nat
    BY DEF IInv, SnapOK, TypeOK, SnapRecord
  <2>2. r.FramesStored # 0 => End(layout', r.FramesStored) = End(layout, r.FramesStored)
    BY <1>2, <1>3, <2>1
  <2>3. LET v == IF r.FramesStored = 0 THEN 0 ELSE End(layout, r.FramesStored)
        IN  /\ r.write_index = LineAt(v)
            /\ v <= r.NumberOfStoredBytes
            /\ r.NumberOfStoredBytes <= buffer_size
            /\ r.FramesStored = 0 => r.NumberOfStoredBytes = 0
    BY <1>1 DEF IInv, SnapOK
  <2>4. /\ buffer_size' = buffer_size /\ read_index' = read_index
        /\ r.FramesStored <= Len(layout')
    <3>1. buffer_size' = buffer_size /\ read_index' = read_index
      BY <1>1, <1>4
    <3>2. Len(layout') = L + 1 /\ L \in Nat
      BY <1>2, <1>3
    <3> HIDE DEF L, r
    <3>3. QED
      BY <2>1, <3>1, <3>2
  <2>5. QED
    BY <1>1, <1>4, <1>6, <2>1, <2>2, <2>3, <2>4 DEF SnapOK
<1>16. QED
  BY <1>9, <1>10, <1>11, <1>12, <1>13, <1>14, <1>15 DEF IInv

-----------------------------------------------------------------------------
(* Read.                                                                    *)

\* Read finds the oldest frame, behind a skip or not, and reads it whole.
LEMMA ReadFindsOldest ==
  ASSUME IInv, FramesStored > 0
  PROVE  /\ buffer_size = BufferLines /\ BufferLines \in Nat \ {0}
         /\ read_index \in 0 .. BufferLines - 1
         /\ 1 \in 1 .. Len(layout)
         /\ ReadStart = LineAt(layout[1].off)
         /\ ReadLen = layout[1].frame.len
         /\ LinesOf(ReadLen) = Lines(layout[1].frame)
         /\ ReadStart \in 0 .. BufferLines - 1
         /\ ReadStart + Lines(layout[1].frame) <= BufferLines
         /\ Lines(layout[1].frame) \in Nat \ {0}
         /\ ReadReleases \in 1 .. End(layout, 1)
         /\ Copied(ReadStart, ReadLen) = layout[1].frame
<1> DEFINE g == layout[1].frame
           o == layout[1].off
<1>1. /\ Len(layout) = FramesStored /\ 1 \in 1 .. Len(layout)
      /\ o \in Nat /\ g \in Frames
      /\ End(layout, 1) <= Used /\ Used \in 0 .. buffer_size /\ buffer_size \in Nat
  BY LayoutFacts
<1>2. /\ Lines(g) \in Nat \ {0} /\ g.len \in Nat \ {0} /\ LinesOf(g.len) = Lines(g)
  BY <1>1, LinesPositive
<1>3. End(layout, 1) = o + Lines(g)
  BY DEF End
<1>4. buffer_size = BufferLines /\ BufferLines \in Nat \ {0}
  <2>1. buffer_size \in {0, BufferLines}
    BY DEF IInv, TypeOK
  <2>2. Used > 0
    <3> HIDE DEF g, o
    <3>1. QED
      BY <1>1, <1>2, <1>3
  <2>3. QED
    BY <1>1, <2>1, <2>2, BufferAssumption
<1>5. read_index \in 0 .. BufferLines - 1
  BY <1>4 DEF IInv, IndicesOK, TypeOK
<1>6. /\ LineAt(o) + Lines(g) <= BufferLines
      /\ \A k \in 0 .. Lines(g) - 1 : ptr[LineAt(o) + k] = Part(g, k)
  BY <1>1, <1>4 DEF IInv, StoredFramesIntact, First, Frame
<1>7. LineAt(o) \in 0 .. BufferLines - 1
  <2> HIDE DEF o, g
  <2>1. QED
    BY <1>1, <1>2, <1>3, <1>4, <1>5 DEF LineAt, At
<1>8. ptr[LineAt(o)] = Part(g, 0)
  <2>1. 0 \in 0 .. Lines(g) - 1 /\ LineAt(o) + 0 = LineAt(o)
    BY <1>2, <1>7
  <2>2. QED
    BY <1>6, <2>1
<1>9. ReadStart = LineAt(o) /\ (IF o = 0 THEN ~AtSkip ELSE AtSkip)
  <2>1. LineAt(0) = read_index
    BY <1>4, <1>5 DEF LineAt, At
  <2>2. Expected(layout, 1) = 0
    BY DEF Expected
  <2>3. CASE o = 0
    BY <1>2, <1>8, <2>1, <2>3 DEF ReadStart, AtSkip, Part
  <2>4. CASE o # 0
    <3>1. LineAt(o) = 0 /\ ptr[read_index] = Zero
      BY <1>1, <2>1, <2>2, <2>4 DEF IInv, SkipsOK
    <3>2. QED
      BY <2>4, <3>1 DEF ReadStart, AtSkip, Zero
  <2>5. QED
    BY <2>3, <2>4
<1>10. ReadLen = g.len
  BY <1>8, <1>9 DEF ReadLen, Part
<1>11. ReadReleases \in 1 .. End(layout, 1)
  <2>1. CASE o = 0
    BY <1>2, <1>3, <1>9, <1>10, <2>1 DEF ReadReleases
  <2>2. CASE o # 0
    <3>1. LineAt(o) = 0
      BY <1>1, <2>2 DEF IInv, SkipsOK, Expected
    <3>2. o >= BufferLines - read_index
      BY <1>1, <1>4, <1>5, <2>2, <3>1 DEF LineAt, At
    <3>3. ReadReleases = BufferLines - read_index
      BY <1>4, <1>9, <2>2 DEF ReadReleases
    <3>4. QED
      BY <1>1, <1>2, <1>3, <1>4, <1>5, <3>2, <3>3
  <2>3. QED
    BY <2>1, <2>2
<1>12. Copied(ReadStart, ReadLen) = g
  <2>1. /\ g \in Frames /\ g.len = ReadLen
        /\ ReadStart + Lines(g) <= buffer_size
        /\ \A k \in 0 .. Lines(g) - 1 : ptr[ReadStart + k] = Part(g, k)
    BY <1>1, <1>4, <1>6, <1>9, <1>10
  <2>2. Copied(ReadStart, ReadLen) = ptr[ReadStart].frame
    BY <2>1 DEF Copied
  <2>3. QED
    BY <1>8, <1>9, <2>2 DEF Part
<1>13. QED
  BY <1>1, <1>2, <1>4, <1>5, <1>6, <1>7, <1>9, <1>10, <1>11, <1>12

\* The layout after a Read: the others, counted from the new read_index.
LEMMA ReadLayout ==
  ASSUME IInv, Read
  PROVE  /\ layout' \in Seq([off : Nat, frame : Frames])
         /\ Len(layout') = Len(layout) - 1
         /\ \A i \in 1 .. Len(layout) - 1 :
              /\ layout'[i].frame = layout[i + 1].frame
              /\ layout'[i].off = layout[i + 1].off - End(layout, 1)
              /\ End(layout', i) = End(layout, i + 1) - End(layout, 1)
              /\ Expected(layout', i) = Expected(layout, i + 1) - End(layout, 1)
         /\ Used' = Used - End(layout, 1)
<1> DEFINE d == End(layout, 1)
           M == Len(layout) - 1
<1>1. /\ 1 \in 1 .. Len(layout) /\ M \in Nat /\ d \in Nat
      /\ layout \in Seq([off : Nat, frame : Frames])
  <2>1. FramesStored > 0
    BY DEF Read
  <2>2. QED
    BY <2>1, LayoutFacts
<1>2. layout' = [i \in 1 .. M |-> [layout[i + 1] EXCEPT !.off = @ - d]]
  BY DEF Read
<1>3. ASSUME NEW i \in 1 .. M
      PROVE  /\ i + 1 \in 1 .. Len(layout)
             /\ layout[i + 1] \in [off : Nat, frame : Frames]
             /\ d <= layout[i + 1].off
             /\ Lines(layout[i + 1].frame) \in Nat
  <2>1. i + 1 \in 1 .. Len(layout) /\ 1 < i + 1
    BY <1>1
  <2>2. layout[i + 1] \in [off : Nat, frame : Frames]
    BY <1>1, <2>1, ElementOfSeq
  <2>3. d <= layout[i + 1].off
    BY <1>1, <2>1 DEF IInv, OrderedOK
  <2>4. QED
    BY <2>1, <2>2, <2>3, LinesPositive
<1>4. ASSUME NEW i \in 1 .. M
      PROVE  /\ layout'[i] = [layout[i + 1] EXCEPT !.off = @ - d]
             /\ layout'[i].frame = layout[i + 1].frame
             /\ layout'[i].off = layout[i + 1].off - d
             /\ layout'[i] \in [off : Nat, frame : Frames]
  <2>1. /\ layout[i + 1] \in [off : Nat, frame : Frames]
        /\ layout[i + 1].off - d \in Nat
    BY <1>1, <1>3
  <2>2. layout'[i] = [layout[i + 1] EXCEPT !.off = @ - d]
    BY <1>2
  <2> HIDE DEF d, M
  <2>3. QED
    BY <2>1, <2>2
<1>5. layout' \in Seq([off : Nat, frame : Frames]) /\ Len(layout') = M
  <2>1. layout' = [i \in 1 .. M |-> layout'[i]]
    BY <1>2
  <2>2. \A i \in 1 .. M : layout'[i] \in [off : Nat, frame : Frames]
    BY <1>4
  <2> HIDE DEF M
  <2>3. layout' \in Seq([off : Nat, frame : Frames])
    BY <1>1, <2>1, <2>2
  <2>4. QED
    BY <1>1, <2>1, <2>3
<1>6. ASSUME NEW i \in 1 .. M
      PROVE  End(layout', i) = End(layout, i + 1) - d
  <2>1. End(layout', i) = layout'[i].off + Lines(layout'[i].frame)
    BY DEF End
  <2>2. End(layout, i + 1) = layout[i + 1].off + Lines(layout[i + 1].frame)
    BY DEF End
  <2>3. layout[i + 1].off \in Nat /\ Lines(layout[i + 1].frame) \in Nat /\ d \in Nat
    BY <1>1, <1>3
  <2>4. layout'[i].frame = layout[i + 1].frame /\ layout'[i].off = layout[i + 1].off - d
    BY <1>4
  <2>5. QED
    BY <2>1, <2>2, <2>3, <2>4
<1>7. ASSUME NEW i \in 1 .. M
      PROVE  Expected(layout', i) = Expected(layout, i + 1) - d
  <2>1. CASE i = 1
    BY <1>1, <2>1 DEF Expected
  <2>2. CASE i # 1
    <3>1. i - 1 \in 1 .. M /\ i - 1 + 1 = i /\ i + 1 - 1 = i /\ i + 1 # 1
      BY <1>1, <2>2
    <3>2. End(layout', i - 1) = End(layout, i) - d
      BY <1>6, <3>1
    <3>3. QED
      BY <2>2, <3>1, <3>2 DEF Expected
  <2>3. QED
    BY <2>1, <2>2
<1>8. Used' = Used - d
  <2>1. layout # <<>>
    BY <1>1
  <2>2. CASE M = 0
    <3>1. layout' = <<>> /\ Len(layout) = 1
      BY <1>1, <1>5, <2>2
    <3>2. QED
      BY <1>1, <2>1, <3>1 DEF Used, UsedBy
  <2>3. CASE M # 0
    <3>1. M \in 1 .. M /\ M + 1 = Len(layout) /\ layout' # <<>>
      BY <1>1, <1>5, <2>3
    <3>2. End(layout', M) = End(layout, Len(layout)) - d
      BY <1>6, <3>1
    <3>3. QED
      BY <1>5, <2>1, <3>1, <3>2 DEF Used, UsedBy, End
  <2>4. QED
    BY <2>2, <2>3
<1>9. QED
  BY <1>4, <1>5, <1>6, <1>7, <1>8

\* Read releases exactly the oldest frame, with the skip before it.
LEMMA ReadStep ==
  ASSUME IInv, Read
  PROVE  IInv'
<1> DEFINE d == End(layout, 1)
           M == Len(layout) - 1
           g == layout[1].frame
<1>1. /\ buffer_size = BufferLines /\ BufferLines \in Nat \ {0}
      /\ read_index \in 0 .. BufferLines - 1
      /\ ReadStart = LineAt(layout[1].off)
      /\ LinesOf(ReadLen) = Lines(g)
      /\ ReadStart \in 0 .. BufferLines - 1
      /\ ReadStart + Lines(g) <= BufferLines
      /\ Lines(g) \in Nat \ {0}
      /\ ReadReleases \in 1 .. d
  BY ReadFindsOldest DEF Read
<1>2. /\ M \in Nat /\ M + 1 = Len(layout) /\ 1 \in 1 .. Len(layout)
      /\ d \in 1 .. Used /\ Used \in 0 .. BufferLines
      /\ layout[1].off \in Nat /\ d = layout[1].off + Lines(g)
      /\ Len(layout) = FramesStored
  <2>1. /\ FramesStored > 0 /\ Len(layout) = FramesStored /\ FramesStored \in Nat
        /\ Used \in 0 .. BufferLines
    BY <1>1, LayoutFacts DEF Read
  <2>2. /\ 1 \in 1 .. Len(layout) /\ M \in Nat /\ M + 1 = Len(layout)
    BY <2>1
  <2>3. /\ d \in Nat /\ layout[1].off < d /\ d <= Used /\ layout[1].off \in Nat
        /\ d = layout[1].off + Lines(g)
    BY <2>2, LayoutFacts DEF End
  <2>4. QED
    BY <2>1, <2>2, <2>3
<1>3. /\ layout' \in Seq([off : Nat, frame : Frames])
      /\ Len(layout') = M
      /\ \A i \in 1 .. M :
           /\ layout'[i].frame = layout[i + 1].frame
           /\ layout'[i].off = layout[i + 1].off - d
           /\ End(layout', i) = End(layout, i + 1) - d
           /\ Expected(layout', i) = Expected(layout, i + 1) - d
      /\ Used' = Used - d
  BY ReadLayout
<1>4. /\ buffer_size' = BufferLines /\ write_index' = write_index
      /\ marks' = marks /\ SlipCounter' = SlipCounter /\ ptr' = ptr
      /\ ringbufsnap' = NoSnap
      /\ FramesStored' = FramesStored - 1
      /\ NumberOfStoredBytes' =
           IF FramesStored' = 0 THEN 0 ELSE NumberOfStoredBytes - ReadReleases
  <2>1. FramesStored' = 0 <=> FramesStored = 1
    BY <1>2 DEF Read
  <2>2. QED
    BY <1>1, <2>1 DEF Read, Remaining
<1>5. read_index' = At(read_index, BufferLines, d)
  <2>1. read_index' = IF ReadStart + Lines(g) >= BufferLines THEN 0 ELSE ReadStart + Lines(g)
    BY <1>1 DEF Read, Wrap
  <2>2. ReadStart = At(read_index, BufferLines, layout[1].off)
    BY <1>1 DEF LineAt
  <2>3. /\ layout[1].off \in Nat /\ Lines(g) \in Nat /\ d = layout[1].off + Lines(g)
        /\ d <= BufferLines /\ BufferLines \in Nat /\ read_index \in 0 .. BufferLines - 1
        /\ ReadStart + Lines(g) <= BufferLines
    BY <1>1, <1>2
  <2> HIDE DEF d, g
  <2>4. QED
    BY <2>1, <2>2, <2>3 DEF At
<1>6. read_index' \in 0 .. BufferLines - 1
  <2>1. d \in Nat /\ d <= BufferLines
    BY <1>1, <1>2
  <2> HIDE DEF d
  <2>2. QED
    BY <1>1, <1>5, <2>1, AtRange
<1>7. ASSUME NEW off \in d .. BufferLines
      PROVE  At(read_index', BufferLines, off - d) = LineAt(off)
  <2>1. LineAt(off) = At(read_index, BufferLines, off)
    BY <1>1 DEF LineAt
  <2>2. d \in 0 .. BufferLines
    BY <1>1, <1>2
  <2> HIDE DEF d
  <2>3. QED
    BY <1>1, <1>5, <2>1, <2>2, AtShift
<1>8. ASSUME NEW i \in 1 .. M
      PROVE  /\ i + 1 \in 1 .. Len(layout)
             /\ layout[i + 1].off \in d .. BufferLines
             /\ Expected(layout, i + 1) \in d .. BufferLines
             /\ End(layout, i + 1) \in d .. BufferLines
             /\ Lines(layout[i + 1].frame) \in Nat
  <2>1. i + 1 \in 1 .. Len(layout) /\ 1 < i + 1 /\ i \in 1 .. Len(layout)
    BY <1>2
  <2>2. d <= layout[i + 1].off
    BY <1>2, <2>1 DEF IInv, OrderedOK
  <2>3. d <= Expected(layout, i + 1)
    <3>1. i + 1 # 1 /\ i + 1 - 1 = i
      BY <1>2
    <3>2. Expected(layout, i + 1) = End(layout, i)
      BY <3>1 DEF Expected
    <3>3. CASE i = 1
      BY <1>2, <3>2, <3>3
    <3>4. CASE i # 1
      <4>1. 1 < i
        BY <1>2, <3>4
      <4>2. d <= layout[i].off
        BY <1>2, <2>1, <4>1 DEF IInv, OrderedOK
      <4>3. layout[i].off < End(layout, i) /\ layout[i].off \in Nat /\ End(layout, i) \in Nat
        BY <2>1, LayoutFacts
      <4>4. QED
        BY <1>2, <3>2, <4>2, <4>3
    <3>5. QED
      BY <3>3, <3>4
  <2>4. /\ layout[i + 1].off \in Nat /\ layout[i + 1].frame \in Frames
        /\ End(layout, i + 1) \in Nat /\ layout[i + 1].off < End(layout, i + 1)
        /\ End(layout, i + 1) <= Used
        /\ Expected(layout, i + 1) \in Nat
        /\ Expected(layout, i + 1) <= layout[i + 1].off
    BY <2>1, LayoutFacts
  <2>5. Lines(layout[i + 1].frame) \in Nat
    BY <2>4, LinesPositive
  <2>6. d \in Nat /\ Used \in Nat /\ Used <= BufferLines /\ BufferLines \in Nat
    BY <1>1, <1>2
  <2> HIDE DEF d
  <2>7. QED
    BY <2>1, <2>2, <2>3, <2>4, <2>5, <2>6
<1>9. /\ NumberOfStoredBytes \in 0 .. BufferLines
      /\ Used <= NumberOfStoredBytes
  BY <1>1 DEF IInv, TypeOK, NeverUndercounts
<1>10. /\ NumberOfStoredBytes' \in 0 .. BufferLines
       /\ Used' <= NumberOfStoredBytes'
       /\ FramesStored' \in Nat /\ FramesStored' = M
       /\ FramesStored' = 0 => NumberOfStoredBytes' = 0
  <2>1. FramesStored' \in Nat /\ FramesStored' = M
    BY <1>2, <1>4
  <2>2. CASE M = 0
    <3>1. Used' = 0
      <4>1. layout' = <<>>
        BY <1>3, <2>2, EmptySeq
      <4>2. QED
        BY <4>1 DEF Used, UsedBy
    <3>2. QED
      <4>1. FramesStored' = 0 /\ NumberOfStoredBytes' = 0
        BY <1>4, <2>1, <2>2
      <4>2. QED
        BY <1>1, <2>1, <2>2, <3>1, <4>1
  <2>3. CASE M # 0
    <3>1. /\ NumberOfStoredBytes' = NumberOfStoredBytes - ReadReleases
          /\ Used' = Used - d /\ FramesStored' # 0
      BY <1>3, <1>4, <2>1, <2>3
    <3>2. /\ ReadReleases \in Nat /\ ReadReleases <= d /\ d \in Nat /\ d <= Used
          /\ Used \in Nat /\ BufferLines \in Nat
      BY <1>1, <1>2
    <3> HIDE DEF d, M
    <3>3. QED
      BY <1>9, <2>1, <3>1, <3>2
  <2>4. QED
    BY <2>2, <2>3
<1>11. TypeOK'
  <2>1. /\ write_index \in Nat /\ SlipCounter \in 0 .. CounterModulus - 1
        /\ marks \in [max_frames : Nat, max_bytes : Nat, min_capacity : Nat, processed : Nat]
        /\ ptr \in [0 .. BufferLines - 1 ->
                    {Zero} \cup { Part(f, k) : f \in Frames, k \in 0 .. BufferLines }]
    BY DEF IInv, TypeOK
  <2>2. read_index' \in Nat
    BY <1>1, <1>6
  <2>3. QED
    BY <1>3, <1>4, <1>10, <2>1, <2>2 DEF TypeOK
<1>12. IndicesOK'
  <2>1. write_index' = LineAt(Used)
    BY <1>1, <1>4 DEF IInv, IndicesOK
  <2>2. Used \in d .. BufferLines
    BY <1>1, <1>2
  <2>3. At(read_index', BufferLines, Used - d) = LineAt(Used)
    BY <1>7, <2>2
  <2>4. QED
    BY <1>1, <1>3, <1>4, <1>6, <2>1, <2>3 DEF IndicesOK, LineAt
<1>13. OrderedOK'
  <2> SUFFICES ASSUME NEW i \in 1 .. M, NEW j \in 1 .. M, i < j
               PROVE  End(layout', i) <= layout'[j].off
    BY <1>3 DEF OrderedOK, End
  <2>1. i + 1 \in 1 .. Len(layout) /\ j + 1 \in 1 .. Len(layout) /\ i + 1 < j + 1
    BY <1>2
  <2>2. End(layout, i + 1) <= layout[j + 1].off
    BY <2>1 DEF IInv, OrderedOK
  <2>3. End(layout, i + 1) \in Nat /\ layout[j + 1].off \in Nat /\ d \in Nat
    BY <1>2, <2>1, LayoutFacts
  <2>4. End(layout', i) = End(layout, i + 1) - d /\ layout'[j].off = layout[j + 1].off - d
    BY <1>3
  <2> HIDE DEF d
  <2>5. QED
    BY <2>2, <2>3, <2>4
<1>14. SkipsOK'
  <2> SUFFICES ASSUME NEW i \in 1 .. M
               PROVE  \/ layout'[i].off = Expected(layout', i)
                      \/ /\ layout'[i].off > Expected(layout', i)
                         /\ At(read_index', BufferLines, layout'[i].off) = 0
                         /\ ptr[At(read_index', BufferLines, Expected(layout', i))] = Zero
    BY <1>3, <1>4 DEF SkipsOK, LineAt, Expected, End
  <2> DEFINE o == layout[i + 1].off
             e == Expected(layout, i + 1)
  <2>1. /\ o \in d .. BufferLines /\ e \in d .. BufferLines
        /\ i + 1 \in 1 .. Len(layout)
        /\ layout'[i].off = o - d /\ Expected(layout', i) = e - d
    BY <1>3, <1>8
  <2>2. o = e \/ (o > e /\ LineAt(o) = 0 /\ ptr[LineAt(e)] = Zero)
    BY <2>1 DEF IInv, SkipsOK
  <2>3. /\ At(read_index', BufferLines, o - d) = LineAt(o)
        /\ At(read_index', BufferLines, e - d) = LineAt(e)
    BY <1>7, <2>1
  <2>4. d \in Nat /\ BufferLines \in Nat
    BY <1>1, <1>2
  <2> HIDE DEF d, o, e
  <2>5. QED
    BY <2>1, <2>2, <2>3, <2>4
<1>15. StoredFramesIntact'
  <2> SUFFICES ASSUME NEW i \in 1 .. M
               PROVE  LET h == layout'[i].frame
                          l == At(read_index', BufferLines, layout'[i].off)
                      IN  /\ l + Lines(h) <= BufferLines
                          /\ \A k \in 0 .. Lines(h) - 1 : ptr[l + k] = Part(h, k)
    BY <1>3, <1>4, <1>10 DEF StoredFramesIntact, First, Frame, LineAt
  <2>1. /\ layout[i + 1].off \in d .. BufferLines /\ i + 1 \in 1 .. Len(layout)
        /\ layout'[i].off = layout[i + 1].off - d
        /\ layout'[i].frame = layout[i + 1].frame
    BY <1>3, <1>8
  <2>2. At(read_index', BufferLines, layout'[i].off) = LineAt(layout[i + 1].off)
    BY <1>7, <2>1
  <2>3. QED
    BY <1>1, <2>1, <2>2 DEF IInv, StoredFramesIntact, First, Frame
<1>16. NeverUndercounts' /\ SnapOK'
  BY <1>4, <1>10 DEF NeverUndercounts, SnapOK
<1>17. QED
  BY <1>11, <1>12, <1>13, <1>14, <1>15, <1>16 DEF IInv

-----------------------------------------------------------------------------
(* The other operations.                                                    *)

\* The states after Initialize and after Uninitialize.
LEMMA EmptyRing ==
  ASSUME TypeOK, read_index = 0, write_index = 0, NumberOfStoredBytes = 0,
         FramesStored = 0, ringbufsnap = NoSnap, layout = <<>>
  PROVE  IInv
<1>1. Len(layout) = 0 /\ Used = 0
  BY DEF Used, UsedBy
<1>2. buffer_size \in Nat
  BY BufferAssumption DEF TypeOK
<1>3. IndicesOK
  BY <1>1, <1>2 DEF IndicesOK, LineAt, At
<1>4. OrderedOK /\ SkipsOK /\ StoredFramesIntact
  BY <1>1 DEF OrderedOK, SkipsOK, StoredFramesIntact
<1>5. NeverUndercounts /\ SnapOK
  BY <1>1, <1>2 DEF NeverUndercounts, SnapOK
<1>6. QED
  BY <1>3, <1>4, <1>5 DEF IInv

\* An initialized ring satisfies the invariant.
LEMMA InitEstablishes == Init => IInv
<1> SUFFICES ASSUME Init PROVE IInv
  OBVIOUS
<1>1. TypeOK
  BY BufferAssumption, EmptySeq DEF Init, TypeOK, Empty
<1>2. QED
  BY <1>1, EmptyRing DEF Init

\* Initialize and Uninitialize forget every frame.
LEMMA InitializeStep ==
  ASSUME IInv, Initialize \/ Uninitialize
  PROVE  IInv'
<1>1. /\ read_index' = 0 /\ write_index' = 0 /\ NumberOfStoredBytes' = 0
      /\ FramesStored' = 0 /\ ringbufsnap' = NoSnap /\ layout' = <<>>
      /\ buffer_size' \in {0, BufferLines}
  BY DEF Initialize, Uninitialize
<1>2. TypeOK'
  BY <1>1, BufferAssumption, EmptySeq DEF IInv, TypeOK, Initialize, Uninitialize, Empty
<1>3. Len(layout') = 0 /\ Used' = 0
  BY <1>1 DEF Used, UsedBy
<1>4. buffer_size' \in Nat
  BY <1>1, BufferAssumption
<1>5. IndicesOK'
  <2>1. \A size \in Nat : size # 0 => At(0, size, 0) = 0
    BY DEF At
  <2>2. buffer_size' # 0 => 0 < buffer_size'
    BY <1>4
  <2>3. QED
    BY <1>1, <1>3, <1>4, <2>1, <2>2 DEF IndicesOK, LineAt
<1>6. OrderedOK' /\ SkipsOK' /\ StoredFramesIntact'
  BY <1>1, <1>3 DEF OrderedOK, SkipsOK, StoredFramesIntact
<1>7. NeverUndercounts' /\ SnapOK'
  BY <1>1, <1>3, <1>4 DEF NeverUndercounts, SnapOK
<1>8. QED
  BY <1>2, <1>5, <1>6, <1>7 DEF IInv

\* Steps that change neither the indices nor the array.
LEMMA QuietStep ==
  ASSUME IInv,
         UNCHANGED <<buffer_size, indices, marks, ptr, layout>>,
         SlipCounter' \in 0 .. CounterModulus - 1,
         ringbufsnap' \in {NoSnap, ringbufsnap}
  PROVE  IInv'
<1>1. UNCHANGED <<buffer_size, write_index, read_index, NumberOfStoredBytes,
                  FramesStored, marks, ptr, layout>>
  BY DEF indices
<1>2. TypeOK'
  BY <1>1 DEF IInv, TypeOK
<1>3. IndicesOK' /\ OrderedOK' /\ SkipsOK' /\ StoredFramesIntact' /\ NeverUndercounts'
  BY <1>1 DEF IInv, IndicesOK, OrderedOK, SkipsOK, StoredFramesIntact, NeverUndercounts,
              LineAt, Used, UsedBy, First, Frame, Expected, End
<1>4. SnapOK'
  BY <1>1 DEF IInv, SnapOK, LineAt, End
<1>5. QED
  BY <1>2, <1>3, <1>4 DEF IInv

\* Snap saves a state that Discard may restore.
LEMMA SnapStep ==
  ASSUME IInv, Snap
  PROVE  IInv'
<1>1. UNCHANGED <<buffer_size, write_index, read_index, NumberOfStoredBytes,
                  FramesStored, marks, ptr, layout, SlipCounter>>
  BY DEF Snap, indices
<1>2. ringbufsnap' = [ snap |-> "at", buffer_size |-> buffer_size,
                       write_index |-> write_index, read_index |-> read_index,
                       NumberOfStoredBytes |-> NumberOfStoredBytes,
                       FramesStored |-> FramesStored, marks |-> marks ]
  BY DEF Snap
<1>3. TypeOK'
  <2>1. ringbufsnap' \in SnapRecord
    BY <1>2, BufferAssumption DEF SnapRecord, IInv, TypeOK
  <2>2. QED
    BY <1>1, <2>1 DEF IInv, TypeOK
<1>4. IndicesOK' /\ OrderedOK' /\ SkipsOK' /\ StoredFramesIntact' /\ NeverUndercounts'
  BY <1>1 DEF IInv, IndicesOK, OrderedOK, SkipsOK, StoredFramesIntact, NeverUndercounts,
              LineAt, Used, UsedBy, First, Frame, Expected, End
<1>5. SnapOK'
  <2>1. Used = IF FramesStored = 0 THEN 0 ELSE End(layout, FramesStored)
    BY LayoutFacts, EmptySeq DEF Used, UsedBy
  <2>2. FramesStored <= Len(layout)
    BY LayoutFacts
  <2>3. QED
    BY <1>1, <1>2, <2>1, <2>2 DEF IInv, SnapOK, IndicesOK, NeverUndercounts, LineAt, End
<1>6. QED
  BY <1>3, <1>4, <1>5 DEF IInv

\* Discard removes the frames behind the snapshot and no other.
LEMMA DiscardStep ==
  ASSUME IInv, Discard
  PROVE  IInv'
<1> DEFINE r == ringbufsnap
           K == r.FramesStored
           v == IF K = 0 THEN 0 ELSE End(layout, K)
<1>1. /\ buffer_size' = buffer_size /\ read_index' = read_index
      /\ write_index' = r.write_index
      /\ NumberOfStoredBytes' = r.NumberOfStoredBytes
      /\ FramesStored' = K /\ marks' = r.marks
      /\ layout' = SubSeq(layout, 1, K)
      /\ UNCHANGED <<SlipCounter, ptr, ringbufsnap>>
  BY DEF Discard, IInv, SnapOK
<1>2. /\ K <= Len(layout) /\ K \in Nat /\ r \in SnapRecord
      /\ r.write_index = IF buffer_size = 0 THEN 0 ELSE LineAt(v)
      /\ v <= r.NumberOfStoredBytes
      /\ r.NumberOfStoredBytes <= buffer_size
      /\ K = 0 => r.NumberOfStoredBytes = 0
  BY DEF Discard, IInv, SnapOK, TypeOK, SnapRecord
<1>3. /\ layout' \in Seq([off : Nat, frame : Frames])
      /\ Len(layout') = K
      /\ \A i \in 1 .. K : layout'[i] = layout[i] /\ i \in 1 .. Len(layout)
  <2>1. layout \in Seq([off : Nat, frame : Frames]) /\ Len(layout) \in Nat
    BY LayoutFacts
  <2>2. \A i \in 1 .. K : i \in 1 .. Len(layout)
    BY <1>2, <2>1
  <2>3. layout' = [i \in 1 .. K |-> layout[i]]
    BY <1>1, <1>2, <2>1, <2>2
  <2>4. \A i \in 1 .. K : layout[i] \in [off : Nat, frame : Frames]
    BY <2>1, <2>2, ElementOfSeq
  <2> HIDE DEF K
  <2>5. layout' \in Seq([off : Nat, frame : Frames]) /\ Len(layout') = K
    BY <1>2, <2>3, <2>4
  <2>6. QED
    BY <2>2, <2>3, <2>5
<1>4. ASSUME NEW i \in 1 .. K
      PROVE  /\ layout'[i] = layout[i] /\ i \in 1 .. Len(layout)
             /\ End(layout', i) = End(layout, i)
             /\ Expected(layout', i) = Expected(layout, i)
  <2>1. i = 1 \/ i - 1 \in 1 .. K
    BY <1>2
  <2>2. QED
    BY <1>3, <2>1 DEF End, Expected
<1>5. Used' = v
  <2>1. CASE K = 0
    BY <1>3, <2>1, EmptySeq DEF Used, UsedBy
  <2>2. CASE K # 0
    <3>1. K \in 1 .. K /\ layout' # <<>>
      BY <1>2, <1>3, <2>2
    <3>2. QED
      BY <1>3, <1>4, <2>2, <3>1 DEF Used, UsedBy
  <2>3. QED
    BY <2>1, <2>2
<1>6. TypeOK'
  <2>1. r.NumberOfStoredBytes \in 0 .. buffer_size
    BY <1>2, BufferAssumption DEF SnapRecord, IInv, TypeOK
  <2>2. /\ r.write_index \in Nat
        /\ r.marks \in [max_frames : Nat, max_bytes : Nat, min_capacity : Nat, processed : Nat]
    BY <1>2 DEF SnapRecord
  <2>3. QED
    BY <1>1, <1>2, <1>3, <2>1, <2>2 DEF IInv, TypeOK
<1>7. IndicesOK'
  BY <1>1, <1>2, <1>5 DEF IInv, IndicesOK, LineAt
<1>8. OrderedOK'
  BY <1>3, <1>4 DEF IInv, OrderedOK
<1>9. SkipsOK'
  BY <1>1, <1>3, <1>4 DEF IInv, SkipsOK, LineAt
<1>10. StoredFramesIntact'
  BY <1>1, <1>3, <1>4 DEF IInv, StoredFramesIntact, First, Frame, LineAt
<1>11. NeverUndercounts'
  BY <1>1, <1>2, <1>5 DEF NeverUndercounts
<1>12. SnapOK'
  <2>1. K # 0 => End(layout', K) = End(layout, K)
    BY <1>2, <1>4
  <2>2. QED
    BY <1>1, <1>2, <1>3, <2>1 DEF IInv, SnapOK, LineAt, Discard
<1>13. QED
  BY <1>6, <1>7, <1>8, <1>9, <1>10, <1>11, <1>12 DEF IInv

\* No operation of the ring breaks the invariant.
LEMMA NextStep == IInv /\ [Next]_vars => IInv'
<1> SUFFICES ASSUME IInv, [Next]_vars PROVE IInv'
  OBVIOUS
<1>1. SlipCounter \in 0 .. CounterModulus - 1
  BY DEF IInv, TypeOK
<1>2. CASE \E f \in Frames : Write(f)
  BY <1>2, WriteStep
<1>3. CASE \E f \in Frames : WriteRefused(f)
  BY <1>1, <1>3, QuietStep DEF WriteRefused
<1>4. CASE Read
  BY <1>4, ReadStep
<1>5. CASE ReadNothing
  BY <1>1, <1>5, QuietStep DEF ReadNothing
<1>6. CASE Snap
  BY <1>6, SnapStep
<1>7. CASE Discard
  BY <1>7, DiscardStep
<1>8. CASE GetCapacity
  <2>1. (SlipCounter + 1) % CounterModulus \in 0 .. CounterModulus - 1
    BY <1>1, BufferAssumption
  <2>2. QED
    BY <1>8, <2>1, QuietStep DEF GetCapacity
<1>9. CASE Initialize \/ Uninitialize
  BY <1>9, InitializeStep
<1>10. CASE UNCHANGED vars
  BY <1>1, <1>10, QuietStep DEF vars
<1>11. QED
  BY <1>2, <1>3, <1>4, <1>5, <1>6, <1>7, <1>8, <1>9, <1>10 DEF Next

\* The ring is correct after every sequence of calls: whatever is written,
\* read, snapped and rolled back, IInv holds.
THEOREM RingInvariant == Spec => []IInv
<1>1. Init => IInv
  BY InitEstablishes
<1>2. IInv /\ [Next]_vars => IInv'
  BY NextStep
<1>3. QED
  BY <1>1, <1>2, PTL DEF Spec

\* Every field keeps its type, no index leaves the array.
THEOREM RingTypes == Spec => []TypeOK
<1>1. IInv => TypeOK
  BY DEF IInv
<1>2. QED
  BY <1>1, RingInvariant, PTL

\* No write ever runs over an unread frame.
THEOREM RingKeepsFrames == Spec => []StoredFramesIntact
<1>1. IInv => StoredFramesIntact
  BY DEF IInv
<1>2. QED
  BY <1>1, RingInvariant, PTL

\* The byte count from which the room is judged is never too small.
THEOREM RingNeverUndercounts == Spec => []NeverUndercounts
<1>1. IInv => NeverUndercounts
  BY DEF IInv
<1>2. QED
  BY <1>1, RingInvariant, PTL

\* A drained ring accepts every frame, wherever its indices stand.
LEMMA EmptyRingAccepts ==
  ASSUME IInv, buffer_size > 0, FramesStored = 0, NEW f \in Frames
  PROVE  Accepts(Lines(f))
<1>1. /\ buffer_size = BufferLines /\ BufferLines \in Nat \ {0}
      /\ Lines(f) \in Nat \ {0} /\ 2 * Lines(f) <= BufferLines
      /\ NumberOfStoredBytes = 0
  BY LinesPositive, BufferAssumption DEF IInv, TypeOK, NeverUndercounts
<1>2. write_index \in 0 .. BufferLines - 1
  <2>1. Used \in 0 .. BufferLines /\ read_index \in 0 .. BufferLines - 1
    BY <1>1, LayoutFacts DEF IInv, IndicesOK, TypeOK
  <2>2. write_index = At(read_index, BufferLines, Used)
    BY <1>1 DEF IInv, IndicesOK, LineAt
  <2>3. QED
    BY <1>1, <2>1, <2>2 DEF At
<1>3. QED
  BY <1>1, <1>2 DEF Accepts, first_run, capacity

\* An empty ring accepts every frame, wherever its indices stand: Write cannot
\* keep the spin loops of its callers waiting once the reader has drained it.
THEOREM RingEmptyAcceptsAll == Spec => []EmptyAcceptsAll
<1>1. IInv => EmptyAcceptsAll
  BY EmptyRingAccepts DEF EmptyAcceptsAll
<1>2. QED
  BY <1>1, RingInvariant, PTL

-----------------------------------------------------------------------------
(* Room for several frames.                                                 *)

\* With room for n lines no frame of them is refused.
LEMMA RoomAccepts ==
  ASSUME IInv, NEW n \in Nat, NEW longest \in Nat, Room(n, longest),
         NEW m \in 1 .. n, m <= longest
  PROVE  Accepts(m)
<1>1. /\ write_index \in Nat /\ buffer_size \in Nat
      /\ NumberOfStoredBytes \in 0 .. buffer_size
  BY BufferAssumption DEF IInv, TypeOK
<1>2. QED
  BY <1>1 DEF Room, Accepts, first_run, capacity

\* Less is needed for fewer lines.
LEMMA RoomShrinks ==
  ASSUME IInv, NEW n \in Nat, NEW longest \in Nat, Room(n, longest),
         NEW m \in 0 .. n
  PROVE  Room(m, longest)
<1>1. write_index \in Nat /\ buffer_size \in Nat /\ NumberOfStoredBytes \in Nat
  BY BufferAssumption DEF IInv, TypeOK
<1>2. QED
  BY <1>1 DEF Room, first_run, capacity

\* A frame that is written leaves the room for the others, although it may
\* cost a skip: behind a skip nothing is stored up to the read index.
LEMMA WriteKeepsRoom ==
  ASSUME IInv, NEW f \in Frames, Write(f), NEW n \in Nat, NEW longest \in Nat,
         Room(n, longest), Lines(f) <= n, Lines(f) <= longest
  PROVE  Room(n - Lines(f), longest)'
<1> DEFINE m     == Lines(f)
           s     == Skipped(m)
           start == IF s > 0 THEN 0 ELSE write_index
<1>1. Accepts(m)
  BY DEF Write
<1>2. /\ buffer_size = BufferLines /\ BufferLines \in Nat \ {0}
      /\ write_index \in 0 .. BufferLines - 1
      /\ m \in Nat \ {0} /\ s \in Nat
      /\ NumberOfStoredBytes + m + s <= BufferLines
      /\ start \in Nat /\ start + m <= BufferLines
  BY <1>1, WritePlace
<1>3. NumberOfStoredBytes \in Nat
  BY <1>2 DEF IInv, TypeOK
<1>4. /\ write_index' = Wrap(start + m) /\ buffer_size' = buffer_size
      /\ NumberOfStoredBytes' = NumberOfStoredBytes + m + s
  <2>1. NumberOfStoredBytes' = NumberOfStoredBytes + Charged(m) /\ Charged(m) = m + s
    BY DEF Write, Charged
  <2>2. NumberOfStoredBytes' = NumberOfStoredBytes + m + s
    BY <1>2, <1>3, <2>1
  <2>3. QED
    BY <2>2 DEF Write
<1>5. s = IF BufferLines - write_index < m THEN BufferLines - write_index ELSE 0
  BY <1>2 DEF Skipped, first_run
<1>6. write_index' = IF start + m >= BufferLines THEN 0 ELSE start + m
  BY <1>2, <1>4 DEF Wrap
<1>7. m <= n /\ m <= longest
  OBVIOUS
<1> HIDE DEF m, s
<1>8. \/ BufferLines - NumberOfStoredBytes >= n + longest - 1
      \/ /\ BufferLines - NumberOfStoredBytes >= n
         /\ BufferLines - write_index >= n
  BY <1>2 DEF Room, first_run, capacity
<1> DEFINE c2 == BufferLines - NumberOfStoredBytes - m - s
           r2 == BufferLines - write_index'
<1>9. (c2 >= n - m + longest - 1) \/ (c2 >= n - m /\ r2 >= n - m)
  <2>1. CASE s > 0
    <3>1. start = 0 /\ s = BufferLines - write_index /\ s <= m - 1
      BY <1>2, <1>5, <2>1
    <3>2. BufferLines - NumberOfStoredBytes >= n + longest - 1
      BY <1>2, <1>7, <1>8, <3>1
    <3>3. c2 >= n - m
      BY <1>2, <1>3, <1>7, <3>1, <3>2
    <3>4. r2 >= c2
      BY <1>2, <1>3, <1>6, <3>1
    <3>5. c2 \in Int /\ r2 \in Int
      BY <1>2, <1>3, <1>6, <3>1
    <3>6. QED
      BY <1>2, <3>3, <3>4, <3>5
  <2>2. CASE s = 0
    <3>1. start = write_index
      BY <2>2
    <3>2. r2 >= BufferLines - write_index - m
      BY <1>2, <1>6, <3>1
    <3>3. c2 = BufferLines - NumberOfStoredBytes - m /\ r2 \in Int
      BY <1>2, <1>3, <1>6, <2>2, <3>1
    <3>4. CASE BufferLines - NumberOfStoredBytes >= n + longest - 1
      BY <1>2, <1>3, <1>7, <3>3, <3>4
    <3>5. CASE /\ BufferLines - NumberOfStoredBytes >= n
               /\ BufferLines - write_index >= n
      BY <1>2, <1>3, <1>7, <3>2, <3>3, <3>5
    <3>6. QED
      BY <1>8, <3>4, <3>5
  <2>3. QED
    BY <1>2, <2>1, <2>2
<1>10. /\ capacity' = c2 /\ first_run' = r2
  BY <1>2, <1>3, <1>4 DEF capacity, first_run
<1>11. Room(n - m, longest)'
       <=> \/ capacity' >= n - m + longest - 1
           \/ capacity' >= n - m /\ first_run' >= n - m
  BY DEF Room, m, Lines
<1>12. QED
  BY <1>9, <1>10, <1>11 DEF m

-----------------------------------------------------------------------------
(* The high-water marks.                                                    *)

\* Discard puts back the marks of the snapshot together with its counts.
SavedMarksCover ==
  ringbufsnap # NoSnap =>
    /\ ringbufsnap.marks.max_frames >= ringbufsnap.FramesStored
    /\ ringbufsnap.marks.max_bytes >= ringbufsnap.NumberOfStoredBytes
    /\ ringbufsnap.marks.min_capacity + ringbufsnap.marks.max_bytes
         >= ringbufsnap.buffer_size

MarksInv == MarksCoverState /\ SavedMarksCover

\* Write raises the marks to what the ring holds with the new frame.
LEMMA WriteMarks ==
  ASSUME IInv, MarksInv, NEW f \in Frames, Write(f)
  PROVE  MarksCoverState'
<1> DEFINE n == Lines(f)
<1>1. /\ FramesStored' = FramesStored + 1 /\ buffer_size' = buffer_size
      /\ NumberOfStoredBytes' = NumberOfStoredBytes + Charged(n)
      /\ marks' = RaiseMarks(n)
  BY DEF Write
<1>2. /\ marks.max_frames \in Nat /\ marks.max_bytes \in Nat
      /\ marks.min_capacity \in Nat /\ FramesStored \in Nat
      /\ NumberOfStoredBytes \in Nat /\ buffer_size \in Nat /\ write_index \in Nat
  BY BufferAssumption DEF IInv, TypeOK
<1>3. n \in Nat /\ Charged(n) \in Nat /\ Charged(n) >= n
  <2>1. n \in Nat /\ (buffer_size - write_index < n \/ Charged(n) = n)
    BY LinesPositive DEF Charged, Skipped, first_run
  <2>2. write_index <= buffer_size
    BY WritePlace DEF Write
  <2>3. QED
    BY <1>2, <2>1, <2>2 DEF Charged, Skipped, first_run
<1>4. /\ marks'.max_frames = HigherOf(marks.max_frames, FramesStored + 1)
      /\ marks'.max_bytes
           = HigherOf(marks.max_bytes, NumberOfStoredBytes + Charged(n))
      /\ marks'.min_capacity
           = LowerOf(marks.min_capacity, buffer_size - NumberOfStoredBytes - n)
  BY <1>1 DEF RaiseMarks, capacity
<1> HIDE DEF n
<1>5. marks.min_capacity + marks.max_bytes >= buffer_size
  BY DEF MarksInv, MarksCoverState
<1>6. QED
  BY <1>1, <1>2, <1>3, <1>4, <1>5 DEF MarksCoverState, HigherOf, LowerOf

\* Reading lowers the byte count, and not below zero.
LEMMA ReadLowersCount ==
  ASSUME IInv, Read
  PROVE  NumberOfStoredBytes' \in Nat /\ NumberOfStoredBytes' <= NumberOfStoredBytes
<1>1. ReadReleases \in Nat
  BY ReadFindsOldest DEF Read
<1>2. TypeOK'
  BY ReadStep DEF IInv
<1>3. NumberOfStoredBytes \in Nat /\ NumberOfStoredBytes' \in Nat
  BY <1>2, BufferAssumption DEF IInv, TypeOK
<1>4. NumberOfStoredBytes' = IF FramesStored = 1 THEN 0
                               ELSE NumberOfStoredBytes - ReadReleases
  BY DEF Read, Remaining
<1>5. QED
  BY <1>1, <1>3, <1>4


\* No operation leaves the marks below what the ring holds.
LEMMA MarksStep ==
  ASSUME IInv, MarksInv, [Next]_vars
  PROVE  MarksInv'
<1>1. CASE \E f \in Frames : Write(f)
  <2>1. PICK f \in Frames : Write(f)
    BY <1>1
  <2>2. MarksCoverState'
    BY <2>1, WriteMarks
  <2>3. ringbufsnap' = ringbufsnap
    BY <2>1 DEF Write
  <2>4. QED
    BY <2>2, <2>3 DEF MarksInv, SavedMarksCover
<1>2. CASE Read
  <2>1. /\ FramesStored' = FramesStored - 1 /\ UNCHANGED <<buffer_size, marks>>
        /\ ringbufsnap' = NoSnap
    BY <1>2 DEF Read
  <2>2. /\ FramesStored \in Nat /\ marks.max_frames \in Nat
        /\ NumberOfStoredBytes \in Nat /\ marks.max_bytes \in Nat
    BY BufferAssumption DEF IInv, TypeOK
  <2>3. NumberOfStoredBytes' \in Nat /\ NumberOfStoredBytes' <= NumberOfStoredBytes
    BY <1>2, ReadLowersCount
  <2>4. QED
    BY <2>1, <2>2, <2>3 DEF MarksInv, MarksCoverState, SavedMarksCover
<1>3. CASE Snap
  BY <1>3 DEF Snap, MarksInv, MarksCoverState, SavedMarksCover, indices
<1>4. CASE Discard
  BY <1>4 DEF Discard, MarksInv, MarksCoverState, SavedMarksCover
<1>5. CASE Initialize
  <2>1. /\ FramesStored' = 0 /\ NumberOfStoredBytes' = 0 /\ ringbufsnap' = NoSnap
        /\ buffer_size' = BufferLines /\ marks'.max_frames = 0
        /\ marks'.max_bytes = 0 /\ marks'.min_capacity = BufferLines
    BY <1>5 DEF Initialize, Empty
  <2>2. QED
    BY <2>1, BufferAssumption DEF MarksInv, MarksCoverState, SavedMarksCover
<1>6. CASE Uninitialize
  <2>1. /\ FramesStored' = 0 /\ NumberOfStoredBytes' = 0 /\ ringbufsnap' = NoSnap
        /\ buffer_size' = 0 /\ marks'.max_frames = 0
        /\ marks'.max_bytes = 0 /\ marks'.min_capacity = 0
    BY <1>6 DEF Uninitialize, Empty
  <2>2. QED
    BY <2>1 DEF MarksInv, MarksCoverState, SavedMarksCover
<1>7. CASE ReadNothing
  BY <1>7 DEF ReadNothing, MarksInv, MarksCoverState, SavedMarksCover, indices
<1>8. CASE \/ \E f \in Frames : WriteRefused(f)
           \/ GetCapacity \/ UNCHANGED vars
  <2>1. UNCHANGED <<buffer_size, NumberOfStoredBytes, FramesStored, marks, ringbufsnap>>
    BY <1>8 DEF WriteRefused, GetCapacity, vars, indices
  <2>2. QED
    BY <2>1 DEF MarksInv, MarksCoverState, SavedMarksCover
<1>9. QED
  BY <1>1, <1>2, <1>3, <1>4, <1>5, <1>6, <1>7, <1>8 DEF Next

\* The marks that the statistics print cover what the ring holds, whatever is
\* rolled back.
THEOREM RingMarksCover == Spec => []MarksCoverState
<1>1. Init => MarksInv
  <2> SUFFICES ASSUME Init PROVE MarksInv
    OBVIOUS
  <2>1. /\ FramesStored = 0 /\ NumberOfStoredBytes = 0 /\ ringbufsnap = NoSnap
        /\ buffer_size = BufferLines /\ marks.max_frames = 0
        /\ marks.max_bytes = 0 /\ marks.min_capacity = BufferLines
    BY DEF Init, Empty
  <2>2. QED
    BY <2>1, BufferAssumption DEF MarksInv, MarksCoverState, SavedMarksCover
<1>2. IInv /\ MarksInv /\ [Next]_vars => MarksInv'
  BY MarksStep
<1>3. MarksInv => MarksCoverState
  BY DEF MarksInv
<1>4. QED
  BY <1>1, <1>2, <1>3, RingInvariant, PTL DEF Spec

-----------------------------------------------------------------------------
(* The ring implements the abstract queue.                                  *)

\* The queue of frames that the layout stands for.
LEMMA StoredFramesType ==
  ASSUME IInv
  PROVE  /\ StoredFrames \in Seq(Frames)
         /\ Len(StoredFrames) = FramesStored
         /\ FramesStored \in Nat
         /\ \A i \in 1 .. FramesStored : StoredFrames[i] = layout[i].frame
         /\ FramesStored = 0 <=> StoredFrames = <<>>
<1>1. /\ Len(layout) = FramesStored /\ FramesStored \in Nat
      /\ \A i \in 1 .. Len(layout) : layout[i].frame \in Frames
  BY LayoutFacts
<1>2. StoredFrames = [i \in 1 .. FramesStored |-> layout[i].frame]
  BY <1>1 DEF StoredFrames
<1>3. QED
  BY <1>1, <1>2

\* An accepted Write puts the frame at the end of the queue.
LEMMA WritePuts ==
  ASSUME IInv, NEW f \in Frames, Write(f)
  PROVE  Queue!Put(f)
<1>1. IInv'
  BY WriteStep
<1>2. /\ StoredFrames \in Seq(Frames) /\ Len(StoredFrames) = FramesStored
      /\ FramesStored \in Nat /\ Len(layout) = FramesStored
      /\ \A i \in 1 .. FramesStored : StoredFrames[i] = layout[i].frame
  BY StoredFramesType, LayoutFacts
<1>3. StoredFrames' = [i \in 1 .. FramesStored + 1 |-> layout'[i].frame]
  BY <1>2, WriteLayout DEF StoredFrames
<1>4. /\ \A i \in 1 .. FramesStored : layout'[i].frame = StoredFrames[i]
      /\ layout'[FramesStored + 1].frame = f
  <2>1. layout'[FramesStored + 1] = [off |-> Used + Skipped(Lines(f)), frame |-> f]
    BY <1>2, WriteLayout
  <2>2. \A i \in 1 .. FramesStored : layout'[i] = layout[i]
    BY <1>2, WriteLayout
  <2>3. QED
    BY <1>2, <2>1, <2>2
<1>5. StoredFrames' = Append(StoredFrames, f)
  <2> DEFINE t == Append(StoredFrames, f)
  <2>1. /\ t \in Seq(Frames) /\ Len(t) = FramesStored + 1
        /\ \A i \in 1 .. FramesStored : t[i] = StoredFrames[i]
        /\ t[FramesStored + 1] = f
    BY <1>2, AppendProperties
  <2> HIDE DEF t
  <2>2. t = [i \in 1 .. FramesStored + 1 |-> t[i]]
    BY <1>2, <2>1
  <2>3. \A i \in 1 .. FramesStored + 1 : t[i] = layout'[i].frame
    BY <1>2, <1>4, <2>1
  <2>4. StoredFrames' = t
    BY <1>3, <2>2, <2>3
  <2>5. QED
    BY <2>4 DEF t
<1>6. buffer_size > 0
  BY WritePlace DEF Write
<1>7. QED
  BY <1>5, <1>6 DEF Write, Queue!Put, IsOpen, SavedLength

\* Read takes the head of the queue and returns it whole.
LEMMA ReadGets ==
  ASSUME IInv, Read
  PROVE  Queue!Get
<1>1. /\ StoredFrames \in Seq(Frames) /\ Len(StoredFrames) = FramesStored
      /\ FramesStored \in Nat /\ FramesStored > 0 /\ Len(layout) = FramesStored
      /\ \A i \in 1 .. FramesStored : StoredFrames[i] = layout[i].frame
  BY StoredFramesType, LayoutFacts DEF Read
<1>2. StoredFrames # <<>>
  BY <1>1
<1>3. Head(StoredFrames) = layout[1].frame
  BY <1>1
<1>4. out' = <<"read", layout[1].frame>>
  BY ReadFindsOldest DEF Read
<1>5. StoredFrames' = Tail(StoredFrames)
  <2>1. /\ StoredFrames' = [i \in 1 .. Len(layout') |-> layout'[i].frame]
        /\ Len(layout') = FramesStored - 1
        /\ \A i \in 1 .. FramesStored - 1 : layout'[i].frame = layout[i + 1].frame
    BY <1>1, ReadLayout DEF StoredFrames
  <2>2. \A i \in 1 .. FramesStored - 1 : layout[i + 1].frame = StoredFrames[i + 1]
    BY <1>1
  <2>3. Tail(StoredFrames) = [i \in 1 .. FramesStored - 1 |-> StoredFrames[i + 1]]
    <3> DEFINE t == Tail(StoredFrames)
    <3>1. /\ t \in Seq(Frames) /\ Len(t) = FramesStored - 1
          /\ \A i \in 1 .. FramesStored - 1 : t[i] = StoredFrames[i + 1]
      BY <1>1, <1>2, HeadTailProperties
    <3> HIDE DEF t
    <3>2. t = [i \in 1 .. FramesStored - 1 |-> t[i]]
      BY <1>1, <3>1
    <3>3. t = [i \in 1 .. FramesStored - 1 |-> StoredFrames[i + 1]]
      BY <3>1, <3>2
    <3>4. QED
      BY <3>3 DEF t
  <2>4. QED
    BY <1>1, <2>1, <2>2, <2>3
<1>6. IsOpen' = IsOpen /\ SavedLength' = NoSnap
  BY DEF Read, IsOpen, SavedLength
<1>7. QED
  BY <1>2, <1>3, <1>4, <1>5, <1>6 DEF Queue!Get, Queue!NoSnap, NoSnap

\* Discard is the roll back of the queue.
LEMMA DiscardRollsBack ==
  ASSUME IInv, Discard
  PROVE  Queue!RollBack
<1> DEFINE K == ringbufsnap.FramesStored
<1>1. /\ K \in Nat /\ K <= Len(layout) /\ ringbufsnap # NoSnap
      /\ buffer_size' = buffer_size
  BY DEF Discard, IInv, SnapOK, TypeOK, SnapRecord
<1>2. SavedLength = [snap |-> "at", length |-> K] /\ SavedLength' = SavedLength
  BY <1>1 DEF SavedLength, Discard
<1>3. /\ StoredFrames \in Seq(Frames) /\ Len(StoredFrames) = Len(layout)
      /\ Len(layout) \in Nat
      /\ \A i \in 1 .. Len(layout) : StoredFrames[i] = layout[i].frame
  BY StoredFramesType, LayoutFacts
<1>4. StoredFrames' = SubSeq(StoredFrames, 1, K)
  <2>1. layout' = SubSeq(layout, 1, K) /\ layout \in Seq([off : Nat, frame : Frames])
    BY LayoutFacts DEF Discard
  <2>2. layout' = [i \in 1 .. K |-> layout[i]]
    BY <1>1, <1>3, <2>1
  <2>3. Len(layout') = K
    <3> HIDE DEF K
    <3>1. QED
      BY <1>1, <2>2
  <2>4. StoredFrames' = [i \in 1 .. K |-> layout[i].frame]
    <3>1. StoredFrames' = [i \in 1 .. K |-> layout'[i].frame]
      BY <2>3 DEF StoredFrames
    <3>2. \A i \in 1 .. K : layout'[i].frame = layout[i].frame
      BY <2>2
    <3>3. QED
      BY <3>1, <3>2
  <2>5. SubSeq(StoredFrames, 1, K) = [i \in 1 .. K |-> StoredFrames[i]]
    BY <1>1, <1>3
  <2>6. \A i \in 1 .. K : StoredFrames[i] = layout[i].frame
    BY <1>1, <1>3
  <2> HIDE DEF K
  <2>7. QED
    BY <2>4, <2>5, <2>6
<1>5. Queue!NoSnap # SavedLength
  BY <1>2 DEF Queue!NoSnap
<1>6. QED
  BY <1>1, <1>2, <1>4, <1>5 DEF Queue!RollBack, Discard, IsOpen

\* Every operation of the ring is one of the queue, or invisible.
LEMMA StepImplements ==
  ASSUME IInv, [Next]_vars
  PROVE  [Queue!Next]_(Queue!vars)
<1>1. CASE \E f \in Frames : Write(f)
  BY <1>1, WritePuts DEF Queue!Next
<1>2. CASE \E f \in Frames : WriteRefused(f)
  <2>1. PICK f \in Frames : WriteRefused(f)
    BY <1>2
  <2>2. /\ UNCHANGED <<IsOpen, StoredFrames, SavedLength>>
        /\ out' = <<"refused", f>>
    BY <2>1 DEF WriteRefused, IsOpen, StoredFrames, SavedLength
  <2>3. ~IsOpen \/ StoredFrames # <<>>
    BY <2>1, EmptyRingAccepts, StoredFramesType DEF WriteRefused, IsOpen
  <2>4. QED
    BY <2>2, <2>3 DEF Queue!Next, Queue!Refuse
<1>3. CASE Read
  BY <1>3, ReadGets DEF Queue!Next
<1>4. CASE ReadNothing
  <2>1. /\ UNCHANGED <<IsOpen, StoredFrames>> /\ SavedLength' = NoSnap
        /\ out' = <<"read", NoFrame>> /\ StoredFrames = <<>>
    BY <1>4, StoredFramesType DEF ReadNothing, IsOpen, StoredFrames, SavedLength
  <2>2. QED
    BY <2>1 DEF Queue!Next, Queue!GetNothing, Queue!NoSnap, NoSnap, Queue!NoFrame, NoFrame
<1>5. CASE Snap
  <2>1. /\ UNCHANGED <<IsOpen, StoredFrames, out>>
        /\ ringbufsnap'.snap = "at" /\ ringbufsnap'.FramesStored = FramesStored
    BY <1>5 DEF Snap, IsOpen, StoredFrames
  <2>2. SavedLength' = [snap |-> "at", length |-> FramesStored]
    BY <2>1 DEF SavedLength, NoSnap
  <2>3. Len(StoredFrames) = FramesStored
    BY StoredFramesType
  <2>4. QED
    BY <2>1, <2>2, <2>3 DEF Queue!Next, Queue!Mark, Queue!Snapped
<1>6. CASE Discard
  BY <1>6, DiscardRollsBack DEF Queue!Next
<1>7. CASE GetCapacity
  BY <1>7 DEF GetCapacity, Queue!vars, IsOpen, StoredFrames, SavedLength
<1>8. CASE Initialize
  <2>1. /\ IsOpen' = TRUE /\ SavedLength' = NoSnap /\ StoredFrames' = <<>> /\ out' = out
    <3>1. layout' = <<>> /\ ringbufsnap' = NoSnap /\ buffer_size' = BufferLines /\ out' = out
      BY <1>8 DEF Initialize
    <3>2. BufferLines > 0
      BY BufferAssumption
    <3>3. QED
      BY <3>1, <3>2 DEF IsOpen, SavedLength, StoredFrames
  <2>2. QED
    BY <2>1 DEF Queue!Next, Queue!Open, Queue!NoSnap, NoSnap
<1>9. CASE Uninitialize
  <2>1. /\ IsOpen' = FALSE /\ SavedLength' = NoSnap /\ StoredFrames' = <<>> /\ out' = out
    BY <1>9 DEF Uninitialize, IsOpen, SavedLength, StoredFrames
  <2>2. QED
    BY <2>1 DEF Queue!Next, Queue!Close, Queue!NoSnap, NoSnap
<1>10. CASE UNCHANGED vars
  BY <1>10 DEF vars, Queue!vars, IsOpen, StoredFrames, SavedLength
<1>11. QED
  BY <1>1, <1>2, <1>3, <1>4, <1>5, <1>6, <1>7, <1>8, <1>9, <1>10 DEF Next

\* The ring behaves as the first-in first-out queue its callers assume.
THEOREM RingImplementsQueue == Spec => ImplementsQueue
<1>1. Init => Queue!Init
  <2> SUFFICES ASSUME Init PROVE Queue!Init
    OBVIOUS
  <2>1. IsOpen = TRUE /\ StoredFrames = <<>> /\ SavedLength = NoSnap
    BY BufferAssumption DEF Init, IsOpen, StoredFrames, SavedLength
  <2>2. QED
    BY <2>1 DEF Init, Queue!Init, Queue!NoSnap, NoSnap, Queue!NoFrame, NoFrame
<1>2. IInv /\ [Next]_vars => [Queue!Next]_(Queue!vars)
  BY StepImplements
<1>3. QED
  BY <1>1, <1>2, RingInvariant, PTL DEF Spec, ImplementsQueue, Queue!Spec

=============================================================================
