--------------------------- MODULE PerfEventBuffer ---------------------------
(***************************************************************************)
(* proxies/pmu_event_proxy: ring_buffer_view.h, perf_event_buffer.cc and    *)
(* perf_event_records.cc.  The kernel writes sample records into a mapped   *)
(* ring while the proxy reads them object by object through a view of what  *)
(* the kernel has published, and gives the room back when a whole record is *)
(* parsed.  A byte is <<n, k>>: the k-th byte of the n-th record.           *)
(***************************************************************************)
EXTENDS Integers, SequencesExt

CONSTANTS BufferSize,    \* A power of 2.
          Offsets,       \* Virtual offsets wrap here (2^64), a multiple of BufferSize.
          FirstOffset,   \* Where data_head and data_tail start.
          EventHeaderSize, IpSize, NrSize, ValueSize, \* sizeof of the objects of a sample.
          NumValues,     \* What a sample may say in nr: the size of the event group.
          kMaxNumValues,
          MaxRecords     \* A bound on the records written.

ASSUME RingAssumption ==
  /\ BufferSize \in Nat \ {0}
  /\ Offsets \in Nat /\ Offsets > BufferSize /\ Offsets % BufferSize = 0
  /\ FirstOffset \in 0..(Offsets - 1)
  /\ {EventHeaderSize, IpSize, NrSize, ValueSize} \subseteq Nat \ {0}
  /\ NumValues \subseteq Nat /\ kMaxNumValues \in Nat /\ MaxRecords \in Nat

VARIABLES ring,          \* The data area.
          data_head, data_tail,
          kernel,        \* The record being written: [at, left, record].
          lost,          \* Whether a record found no room since the last one written.
          published,     \* Records up to data_head: [type, nr].
          reader,        \* [at, head, tail, objects]: the view and what is left to parse.
          got,           \* The bytes of the record being parsed.
          parsed         \* The numbers of the records returned; 0 for one nobody wrote.

ringvars == <<ring, data_head, data_tail, kernel, lost, published, reader, got, parsed>>

Distance(a, b) == (a - b) % Offsets
Slot(o) == o % BufferSize

\* A sample is the header, ip, nr and that many values; other records have their header only.
RecordSize(r) ==
  EventHeaderSize + (IF r.type = "sample" THEN IpSize + NrSize + r.nr * ValueSize ELSE 0)

NoView == [at |-> "idle", head |-> 0, tail |-> 0, objects |-> <<>>]

RingInit ==
  /\ ring = [s \in 0..(BufferSize - 1) |-> <<0, 0>>]
  /\ data_head = FirstOffset /\ data_tail = FirstOffset
  /\ kernel = [at |-> FirstOffset, left |-> <<>>, record |-> {}] /\ lost = FALSE
  /\ published = <<>> /\ reader = NoView /\ got = <<>> /\ parsed = <<>>

-----------------------------------------------------------------------------
(* The kernel *)

Room == BufferSize - Distance(kernel.at, data_tail)

\* A record that does not fit is lost, which the next one tells.
KernelBegins ==
  /\ kernel.left = <<>> /\ kernel.at = data_head /\ Len(published) < MaxRecords
  /\ \E nr \in NumValues :
       LET r == [type |-> IF lost THEN "lost" ELSE "sample", nr |-> nr]
           n == Len(published) + 1
       IN  IF RecordSize(r) > Room THEN lost' = TRUE /\ UNCHANGED kernel
           ELSE /\ kernel' = [kernel EXCEPT !.left = [k \in 1..RecordSize(r) |-> <<n, k>>],
                                            !.record = {r}]
                /\ lost' = FALSE
  /\ UNCHANGED <<ring, data_head, data_tail, published, reader, got, parsed>>

KernelWrites ==
  /\ kernel.left # <<>>
  /\ ring' = [ring EXCEPT ![Slot(kernel.at)] = Head(kernel.left)]
  /\ kernel' = [kernel EXCEPT !.at = (@ + 1) % Offsets, !.left = Tail(@)]
  /\ UNCHANGED <<data_head, data_tail, lost, published, reader, got, parsed>>

KernelPublishes ==
  /\ kernel.left = <<>> /\ kernel.at # data_head
  /\ data_head' = kernel.at
  /\ \E r \in kernel.record : published' = Append(published, r)
  /\ kernel' = [kernel EXCEPT !.record = {}]
  /\ UNCHANGED <<ring, data_tail, lost, reader, got, parsed>>

-----------------------------------------------------------------------------
(* The proxy *)

\* A mutant: the second part overwrites the first.
PeekOver(tail, size) ==
  LET offset == Slot(tail)
      first == BufferSize - offset
  IN  [k \in 1..size |-> IF BufferSize >= offset + size THEN ring[offset + k - 1]
                         ELSE IF k <= size - first THEN ring[k - 1]
                         ELSE IF offset + k - 1 < BufferSize THEN ring[offset + k - 1] ELSE <<0, 0>>]

\* RingBufferView::Peek: an object at the end of the ring is copied in two parts.
Peek(tail, size) ==
  LET offset == Slot(tail)
      first == BufferSize - offset
  IN  [k \in 1..size |-> IF BufferSize >= offset + size \/ k <= first
                         THEN ring[offset + k - 1] ELSE ring[k - first - 1]]

IsObject(bytes) == \A k \in DOMAIN bytes : bytes[k] = <<bytes[1][1], bytes[1][2] + k - 1>>
HeaderOf(bytes) == IF IsObject(bytes) /\ bytes[1][1] \in DOMAIN published /\ bytes[1][2] = 1
                   THEN bytes[1][1] ELSE 0

GetCurrentView == [at |-> "view", head |-> data_head, tail |-> data_tail, objects |-> <<>>]

\* NextEventType looks at the header of the next record: the loop over the records
\* ends when there is none, and the process when it is not a sample.
NextEventType ==
  /\ reader.at = "idle" /\ Distance(data_head, data_tail) >= EventHeaderSize
  /\ LET n == HeaderOf(Peek(data_tail, EventHeaderSize))
     IN  reader' = [NoView EXCEPT !.at = IF n = 0 \/ published[n].type # "sample"
                                         THEN "died" ELSE "sample"]
  /\ UNCHANGED <<ring, data_head, data_tail, kernel, lost, published, got, parsed>>

\* ReadSampleRecord takes a view of its own.
ReadSampleRecord ==
  /\ reader.at = "sample"
  /\ reader' = [GetCurrentView EXCEPT !.objects = <<EventHeaderSize>>]
  /\ UNCHANGED <<ring, data_head, data_tail, kernel, lost, published, got, parsed>>

\* One object of Parse: reading nr tells how many values follow.
ReadObject ==
  /\ reader.at = "view" /\ reader.objects # <<>>
  /\ LET size == Head(reader.objects)
         bytes == Peek(reader.tail, size)
         all == got \o bytes
         record == HeaderOf(SubSeq(all, 1, EventHeaderSize))
         isNr == Len(got) = EventHeaderSize + IpSize
         bad == \/ Distance(reader.head, reader.tail) < size
                \/ ~ IsObject(all) \/ record = 0
                \/ isNr /\ published[record].nr > kMaxNumValues
         left == IF got = <<>> THEN <<IpSize, NrSize>>
                 ELSE IF isNr THEN [k \in 1..published[record].nr |-> ValueSize]
                 ELSE Tail(reader.objects)
     IN  IF bad
         THEN reader' = [reader EXCEPT !.at = "failed"] /\ got' = <<>>
         ELSE /\ reader' = [reader EXCEPT !.tail = (@ + size) % Offsets, !.objects = left]
              /\ got' = all
  /\ UNCHANGED <<ring, data_head, data_tail, kernel, lost, published, parsed>>

\* The record is whole: CommitReads.
CommitReads ==
  /\ reader.at = "view" /\ reader.objects = <<>>
  /\ data_tail' = reader.tail
  /\ parsed' = Append(parsed, HeaderOf(got))
  /\ reader' = NoView /\ got' = <<>>
  /\ UNCHANGED <<ring, data_head, kernel, lost, published>>

RingNext ==
  \/ KernelBegins \/ KernelWrites \/ KernelPublishes
  \/ NextEventType \/ ReadSampleRecord \/ ReadObject \/ CommitReads

RingSpec == RingInit /\ [][RingNext]_ringvars

-----------------------------------------------------------------------------
Records == INSTANCE LogStream WITH
  Entries <- 0..MaxRecords, accepted <- [n \in DOMAIN published |-> n],
  delivered <- parsed, intact <- TRUE

\* The samples read are those the kernel published, whole, once and in order, while
\* it goes on writing around the end of the ring.
SamplesAreRecords == Records!StreamSpec

\* While a record is parsed, the kernel keeps off the bytes of the view, and the view
\* ends where a record does.
ViewIsStable ==
  reader.at = "view" =>
    LET size == Distance(reader.head, reader.tail)
        Ends(a) == a[1] \in DOMAIN published /\ a[2] = RecordSize(published[a[1]])
    IN  /\ size <= BufferSize
        /\ \A i \in 1..(size - 1) :
             LET a == ring[Slot(reader.tail + i - 1)] b == ring[Slot(reader.tail + i)]
             IN  \/ b = <<a[1], a[2] + 1>>
                 \/ Ends(a) /\ b = <<a[1] + 1, 1>>
        /\ size > 0 => Ends(ring[Slot(reader.head - 1)])

\* The proxy gives up only on what it says it cannot handle: a sample of too many
\* values, or records the kernel lost because the ring was full.
GivesUpRightly ==
  /\ reader.at = "failed" => published[Len(parsed) + 1].nr > kMaxNumValues
  /\ reader.at = "died" => published[Len(parsed) + 1].type = "lost"

\* Together: the proxy reads what the kernel wrote, off a view that holds still, and
\* gives up only where it has to.
RingIsRead == SamplesAreRecords /\ [](ViewIsStable /\ GivesUpRightly)
=============================================================================
