---------------------------- MODULE StreamProofs ----------------------------
(***************************************************************************)
(* Proofs about what is written on one side and read on another: entries   *)
(* of BinaryLogChannel come out whole, once and in order, whatever the     *)
(* threads do and however the pipe cuts their bytes; so do the samples of  *)
(* PerfEventBuffer, around the end of the ring; and the features of        *)
(* Proxies say what the run of an input did.                               *)
(***************************************************************************)
EXTENDS BinaryLogChannel, PerfEventBuffer, Proxies, FiniteSetTheorems, WellFoundedInduction, TLAPS

-----------------------------------------------------------------------------
(* The invariant *)

Size(n) == HeaderSize + sizes[n]
SendsMade == 1..Len(sizes)
PipeBytes == SendsMade \X Nat

\* An entry from its byte m + 1 on.
Rest(n, m) == [j \in 1..(Size(n) - m) |-> <<n, m + j>>]

ChanTypeOK ==
  /\ sizes \in Seq(EntrySizes) /\ Len(sizes) <= MaxSends /\ stream \in Seq(PipeBytes)
  /\ sender \in [Senders -> [at : {"idle", "wait", "write"}, n : Nat, left : Seq(PipeBytes)]]
  /\ receiver \in [Receivers -> [at : {"idle", "wait", "header", "entry"}, got : Seq(PipeBytes),
                                 want : Nat, of : SendsMade \union {0}]]
  /\ write_open \in BOOLEAN /\ read_open \in BOOLEAN
  /\ written \in Seq(SendsMade) /\ received \in Seq(SendsMade \union {0})
  /\ first_error \in {"none", "EOC", "DataLoss", "errno"} /\ torn \in {"no", "end", "middle"}

\* One sender writes at a time, what it has left is the rest of its entry, and after an
\* entry that was cut short it has gone on.
SenderInv ==
  /\ \A p \in Senders : sender[p].at # "idle" => sender[p].n \in SendsMade /\ write_open
  /\ \A p, q \in Senders : Writing(p) /\ Writing(q) => p = q
  /\ \A p \in Senders : Writing(p) =>
       /\ torn # "end"
       /\ \E m \in Nat : m < Size(sender[p].n) /\ sender[p].left = Rest(sender[p].n, m)

\* Up to here the consumer has received what was written, and has not been told of an end.
Good == (Len(received) < Len(written) \/ torn # "middle") /\ first_error = "none"

\* What was received is what was written.
ReceivedInv ==
  /\ \A i \in 1..Len(received) : i <= Len(written) => received[i] = written[i]
  /\ torn # "middle" => Len(received) <= Len(written)

\* An error is told when all has been received; if nothing was sent after an entry that was
\* cut short, the producer is gone, and the error says whether it left such an entry.
EndInv ==
  first_error # "none" =>
    /\ Len(received) >= Len(written)
    /\ torn # "middle" =>
         /\ ~ write_open /\ stream = <<>>
         /\ (first_error = "EOC") = (torn = "no")
         /\ \A r \in Receivers : Reading(r) =>
              receiver[r].at = "header" /\ receiver[r].got = <<>> /\ receiver[r].want = HeaderSize

\* The entry that is only in part in the pipe, n, and how many of its bytes are or were, m.
PartInv(n, m) ==
  torn # "middle" =>
    /\ m > 0 => n \in SendsMade /\ m < Size(n)
    /\ \A p \in Senders : Writing(p) => n = sender[p].n /\ sender[p].left = Rest(n, m)
    /\ torn = "no" /\ (\A p \in Senders : ~ Writing(p)) => m = 0
    /\ torn = "end" => m > 0

\* Where each entry starts in the pipe: it has come out of it up to its byte -start[i].
PlaceInv(n, m, start) ==
  /\ \A i \in 1..Len(written) :
       /\ start[i + 1] = start[i] + Size(written[i])
       /\ \A k \in 1..Size(written[i]) :
            1 <= start[i] + k =>
              start[i] + k <= Len(stream) /\ stream[start[i] + k] = <<written[i], k>>
  /\ torn # "middle" =>
       /\ Len(stream) = start[Len(written) + 1] + m
       /\ \A k \in 1..m :
            1 <= start[Len(written) + 1] + k =>
              stream[start[Len(written) + 1] + k] = <<n, k>>

\* The entry being received, and the bytes of it that a receiver has read.
Current(n) == IF Len(received) < Len(written) THEN written[Len(received) + 1] ELSE n
BytesRead(r) == IF receiver[r].at = "header" THEN Len(receiver[r].got)
                ELSE HeaderSize + Len(receiver[r].got)

\* One receiver reads at a time, it has the first bytes of the entry that comes next, and
\* those are gone from the pipe.
ReaderInv(n, start) ==
  /\ \A r, q \in Receivers : Reading(r) /\ Reading(q) => r = q
  /\ \A r \in Receivers : Reading(r) =>
       /\ Len(receiver[r].got) <= receiver[r].want
       /\ receiver[r].at = "header" => receiver[r].want = HeaderSize
       /\ Good =>
            /\ start[Len(received) + 1] + BytesRead(r) = 0
            /\ IF receiver[r].at = "header"
               THEN \A k \in 1..Len(receiver[r].got) : receiver[r].got[k] = <<Current(n), k>>
               ELSE /\ receiver[r].of = Current(n) /\ receiver[r].want = sizes[Current(n)]
                    /\ \A k \in 1..Len(receiver[r].got) :
                         receiver[r].got[k] = <<Current(n), HeaderSize + k>>
  /\ Good /\ (\A r \in Receivers : ~ Reading(r)) => start[Len(received) + 1] = 0

PipeInv ==
  \E n \in Nat, m \in Nat, start \in [1..(Len(written) + 1) -> Int] :
    PartInv(n, m) /\ PlaceInv(n, m, start) /\ ReaderInv(n, start)

ChanInv == ChanTypeOK /\ SenderInv /\ ReceivedInv /\ EndInv /\ PipeInv

-----------------------------------------------------------------------------
(* Entries and what is left of them *)

\* A sequence over a set is one over a larger set.
LEMMA SeqGrows == ASSUME NEW S, NEW T, S \subseteq T, NEW s \in Seq(S) PROVE s \in Seq(T)
OBVIOUS

\* Sizes are positive numbers.
LEMMA SizeFacts ==
  ASSUME ChanTypeOK, NEW n \in SendsMade
  PROVE  sizes[n] \in Nat /\ Size(n) \in Nat \ {0} /\ HeaderSize \in Nat \ {0}
<1>1. sizes \in Seq(EntrySizes)
  BY DEF ChanTypeOK
<1>2. sizes[n] \in EntrySizes
  BY <1>1 DEF SendsMade
<1>3. sizes[n] \in Nat /\ HeaderSize \in Nat /\ HeaderSize # 0
  BY <1>2, ChannelAssumption
<1> QED
  BY <1>3 DEF Size

\* What the rest of an entry is.
LEMMA RestFacts ==
  ASSUME ChanTypeOK, NEW n \in SendsMade, NEW m \in Nat, m < Size(n)
  PROVE  /\ Rest(n, m) \in Seq(PipeBytes) /\ Len(Rest(n, m)) = Size(n) - m
         /\ \A j \in 1..(Size(n) - m) : Rest(n, m)[j] = <<n, m + j>>
         /\ Rest(n, m) = Whole(n) <=> m = 0
<1>1. Size(n) \in Nat /\ Size(n) - m \in Nat
  BY SizeFacts
<1>2. \A j \in 1..(Size(n) - m) : Rest(n, m)[j] = <<n, m + j>> /\ <<n, m + j>> \in PipeBytes
  BY <1>1 DEF Rest, PipeBytes
<1>3. Rest(n, m) = [j \in 1..(Size(n) - m) |-> Rest(n, m)[j]]
  BY DEF Rest
<1> DEFINE f == Rest(n, m)
           len == Size(n) - m
<1>4. f \in Seq(PipeBytes) /\ Len(f) = len
  <2>1. /\ f = [j \in 1..len |-> f[j]] /\ len \in Nat
        /\ \A j \in 1..len : f[j] \in PipeBytes
    BY <1>1, <1>2, <1>3
  <2> HIDE DEF f, len
  <2> QED
    BY <2>1
<1>5. m = 0 => Rest(n, m) = Whole(n)
  BY <1>1 DEF Rest, Whole, Size
<1>6. Rest(n, m) = Whole(n) => m = 0
  <2>1. DOMAIN Rest(n, m) = 1..(Size(n) - m) /\ DOMAIN Whole(n) = 1..Size(n)
    BY DEF Rest, Whole, Size
  <2>2. Size(n) \in 1..Size(n)
    BY SizeFacts
  <2> QED
    BY <1>1, <2>1, <2>2
<1> QED
  BY <1>2, <1>4, <1>5, <1>6

\* Having written some of a rest leaves a shorter one.
LEMMA RestShrinks ==
  ASSUME ChanTypeOK, NEW n \in SendsMade, NEW m \in Nat, NEW c \in Nat, m + c < Size(n)
  PROVE  SubSeq(Rest(n, m), c + 1, Len(Rest(n, m))) = Rest(n, m + c)
<1>1. Size(n) \in Nat /\ m < Size(n)
  BY SizeFacts
<1> DEFINE f == Rest(n, m)
           g == SubSeq(f, c + 1, Len(f))
<1>2. f \in Seq(PipeBytes) /\ Len(f) = Size(n) - m /\ \A j \in 1..(Size(n) - m) : f[j] = <<n, m + j>>
  BY <1>1, RestFacts
<1>3. g = [j \in 1..(Size(n) - (m + c)) |-> f[c + j]]
  <2> HIDE DEF f
  <2> QED
    BY <1>1, <1>2, SMTT(30)
<1>4. \A j \in 1..(Size(n) - (m + c)) : f[c + j] = <<n, (m + c) + j>>
  <2> SUFFICES ASSUME NEW j \in 1..(Size(n) - (m + c)) PROVE f[c + j] = <<n, (m + c) + j>>
    OBVIOUS
  <2>1. c + j \in 1..(Size(n) - m) /\ m + (c + j) = (m + c) + j
    BY <1>1
  <2> HIDE DEF f
  <2> QED
    BY <1>2, <2>1
<1> HIDE DEF f, g
<1> QED
  BY <1>3, <1>4 DEF Rest, g, f

\* What is in the pipe of the entry being received, after the bytes that have been read.
LEMMA BytesToRead ==
  ASSUME ChanTypeOK, ReceivedInv, NEW n \in Nat, NEW m \in Nat,
         NEW start \in [1..(Len(written) + 1) -> Int], PartInv(n, m), PlaceInv(n, m, start),
         Good, NEW c \in Nat, start[Len(received) + 1] + c = 0
  PROVE  /\ Len(received) <= Len(written)
         /\ Len(received) < Len(written) =>
              /\ Current(n) = written[Len(received) + 1] /\ Current(n) \in SendsMade
              /\ \A k \in 1..Size(Current(n)) :
                   k > c => k - c <= Len(stream) /\ stream[k - c] = <<Current(n), k>>
         /\ Len(received) = Len(written) =>
              /\ torn # "middle" /\ Current(n) = n /\ Len(stream) = m - c
              /\ \A k \in 1..m : k > c => stream[k - c] = <<n, k>>
         /\ c > 0 => Current(n) \in SendsMade
<1>1. Len(received) \in Nat /\ Len(written) \in Nat /\ Len(stream) \in Nat
  BY DEF ChanTypeOK
<1>2. Len(received) <= Len(written)
  BY <1>1 DEF Good, ReceivedInv
<1>3. ASSUME Len(received) < Len(written)
      PROVE  /\ Current(n) = written[Len(received) + 1] /\ Current(n) \in SendsMade
             /\ \A k \in 1..Size(Current(n)) :
                  k > c => k - c <= Len(stream) /\ stream[k - c] = <<Current(n), k>>
  <2>1. Len(received) + 1 \in 1..Len(written)
    BY <1>1, <1>3
  <2>2. Current(n) = written[Len(received) + 1] /\ Current(n) \in SendsMade
    BY <1>3, <2>1 DEF Current, ChanTypeOK
  <2>3. start[Len(received) + 1] = 0 - c
    BY <1>1, <2>1
  <2>4. Size(Current(n)) \in Nat
    BY <2>2, SizeFacts
  <2> SUFFICES ASSUME NEW k \in 1..Size(Current(n)), k > c
               PROVE  k - c <= Len(stream) /\ stream[k - c] = <<Current(n), k>>
    BY <2>2
  <2>5. start[Len(received) + 1] + k = k - c /\ 1 <= k - c
    BY <2>3, <2>4
  <2> QED
    BY <2>1, <2>2, <2>5 DEF PlaceInv
<1>4. ASSUME Len(received) = Len(written)
      PROVE  /\ torn # "middle" /\ Current(n) = n /\ Len(stream) = m - c
             /\ \A k \in 1..m : k > c => stream[k - c] = <<n, k>>
  <2>1. torn # "middle" /\ Current(n) = n
    BY <1>1, <1>4 DEF Good, Current
  <2>2. start[Len(written) + 1] = 0 - c
    BY <1>1, <1>4
  <2>3. Len(stream) = m - c
    <3>1. Len(stream) = start[Len(written) + 1] + m
      BY <2>1 DEF PlaceInv
    <3> QED
      BY <2>2, <3>1
  <2>4. ASSUME NEW k \in 1..m, k > c PROVE stream[k - c] = <<n, k>>
    <3>1. start[Len(written) + 1] + k = k - c /\ 1 <= k - c
      BY <2>2, <2>4
    <3> QED
      BY <2>1, <2>4, <3>1 DEF PlaceInv
  <2> QED
    BY <2>1, <2>3, <2>4
<1>5. ASSUME c > 0 PROVE Current(n) \in SendsMade
  <2>1. CASE Len(received) < Len(written)
    BY <1>3, <2>1
  <2>2. CASE Len(received) = Len(written)
    <3>1. m > 0
      BY <1>1, <1>4, <1>5, <2>2
    <3> QED
      BY <1>4, <2>2, <3>1 DEF PartInv
  <2> QED
    BY <1>1, <1>2, <2>1, <2>2
<1> QED
  BY <1>2, <1>3, <1>4, <1>5

\* An entry whose header has been read was made by a Send.
LEMMA EntryIsMade ==
  ASSUME ChanTypeOK, ReceivedInv, NEW n \in Nat, NEW m \in Nat,
         NEW start \in [1..(Len(written) + 1) -> Int], PartInv(n, m), PlaceInv(n, m, start),
         ReaderInv(n, start), Good, NEW r \in Receivers, Reading(r)
  PROVE  /\ BytesRead(r) \in Nat /\ start[Len(received) + 1] + BytesRead(r) = 0
         /\ BytesRead(r) > 0 => Current(n) \in SendsMade
         /\ receiver[r].at # "header" => Current(n) \in SendsMade
<1>1. receiver[r].got \in Seq(PipeBytes) /\ Len(receiver[r].got) \in Nat
  BY DEF ChanTypeOK
<1>2. /\ BytesRead(r) \in Nat
      /\ receiver[r].at # "header" => BytesRead(r) > 0
  BY <1>1, ChannelAssumption DEF BytesRead
<1>3. start[Len(received) + 1] + BytesRead(r) = 0
  BY DEF ReaderInv
<1> DEFINE c == BytesRead(r)
<1> HIDE DEF c
<1>4. c > 0 => Current(n) \in SendsMade
  BY <1>2, <1>3, BytesToRead DEF c
<1> QED
  BY <1>2, <1>3, <1>4 DEF c

-----------------------------------------------------------------------------
(* The senders *)

\* In the beginning nothing is in the pipe.
LEMMA ChanInitial == ChanInit => ChanInv
<1> SUFFICES ASSUME ChanInit PROVE ChanInv
  OBVIOUS
<1> USE DEF ChanInit
<1>1. ChanTypeOK
  <2>1. <<>> \in Seq(EntrySizes) /\ <<>> \in Seq(PipeBytes) /\ <<>> \in Seq(SendsMade)
        /\ <<>> \in Seq(SendsMade \union {0})
    OBVIOUS
  <2>2. Len(sizes) <= MaxSends
    BY ChannelAssumption
  <2> QED
    BY <2>1, <2>2 DEF ChanTypeOK
<1>2. SenderInv /\ ReceivedInv /\ EndInv
  BY DEF SenderInv, ReceivedInv, EndInv, Writing
<1>3. PipeInv
  <2> DEFINE start == [i \in 1..1 |-> 0]
  <2>1. start \in [1..(Len(written) + 1) -> Int] /\ start[1] = 0 /\ Len(written) = 0
        /\ Len(stream) = 0 /\ Len(received) = 0
    OBVIOUS
  <2> HIDE DEF start
  <2>2. PartInv(0, 0) /\ PlaceInv(0, 0, start) /\ ReaderInv(0, start)
    BY <2>1 DEF PartInv, PlaceInv, ReaderInv, Writing, Reading
  <2> QED
    BY <2>1, <2>2 DEF PipeInv
<1> QED
  BY <1>1, <1>2, <1>3 DEF ChanInv

\* A Send has a number and waits.
LEMMA SendKeeps ==
  ASSUME ChanInv, NEW p \in Senders, NEW size \in EntrySizes, Send(p, size)
  PROVE  ChanInv'
<1>1. /\ sender[p].at = "idle" /\ write_open /\ Len(sizes) < MaxSends
      /\ sizes' = Append(sizes, size)
      /\ sender' = [sender EXCEPT ![p] = [@ EXCEPT !.at = "wait", !.n = Len(sizes) + 1]]
      /\ UNCHANGED <<stream, receiver, write_open, read_open, written, received, first_error, torn, errors>>
  BY DEF Send
<1>2. ChanTypeOK /\ sizes \in Seq(EntrySizes) /\ Len(sizes) \in Nat
  BY DEF ChanInv, ChanTypeOK
<1>3. /\ sizes' \in Seq(EntrySizes) /\ Len(sizes') = Len(sizes) + 1 /\ Len(sizes') <= MaxSends
      /\ \A i \in SendsMade : sizes'[i] = sizes[i]
  BY <1>1, <1>2, ChannelAssumption DEF SendsMade
<1>4. SendsMade \subseteq SendsMade' /\ PipeBytes \subseteq PipeBytes'
      /\ SendsMade \union {0} \subseteq SendsMade' \union {0}
  BY <1>2, <1>3 DEF SendsMade, PipeBytes
<1>5. \A i \in SendsMade : Size(i)' = Size(i) /\ Whole(i)' = Whole(i) /\ \A m : Rest(i, m)' = Rest(i, m)
  BY <1>3 DEF Size, Whole, Rest
<1>6. ChanTypeOK'
  <2>1. stream \in Seq(PipeBytes') /\ written \in Seq(SendsMade') /\ received \in Seq(SendsMade' \union {0})
    BY <1>2, <1>4, SeqGrows DEF ChanTypeOK
  <2>2. Seq(PipeBytes) \subseteq Seq(PipeBytes')
    BY <1>4, SeqGrows
  <2>3. receiver \in [Receivers -> [at : {"idle", "wait", "header", "entry"}, got : Seq(PipeBytes'),
                                    want : Nat, of : SendsMade' \union {0}]]
    BY <1>2, <1>4, <2>2 DEF ChanTypeOK
  <2>4. sender \in [Senders -> [at : {"idle", "wait", "write"}, n : Nat, left : Seq(PipeBytes')]]
    BY <1>2, <2>2 DEF ChanTypeOK
  <2>5. sender' \in [Senders -> [at : {"idle", "wait", "write"}, n : Nat, left : Seq(PipeBytes')]]
    <3> DEFINE new == [sender[p] EXCEPT !.at = "wait", !.n = Len(sizes) + 1]
    <3>1. new \in [at : {"idle", "wait", "write"}, n : Nat, left : Seq(PipeBytes')]
      <4>1. sender[p] \in [at : {"idle", "wait", "write"}, n : Nat, left : Seq(PipeBytes')]
        BY <2>4
      <4>2. Len(sizes) + 1 \in Nat
        BY <1>2
      <4> QED
        BY <4>1, <4>2
    <3>2. sender' = [sender EXCEPT ![p] = new]
      BY <1>1
    <3> HIDE DEF new
    <3> QED
      BY <2>4, <3>1, <3>2
  <2> QED
    BY <1>1, <1>2, <1>3, <2>1, <2>3, <2>5 DEF ChanTypeOK
<1>7. SenderInv'
  <2>1. Len(sizes) + 1 \in SendsMade'
    BY <1>2, <1>3 DEF SendsMade
  <2>2. \A q \in Senders : Writing(q)' <=> Writing(q)
    BY <1>1, <1>2 DEF Writing, ChanTypeOK
  <2>3. \A q \in Senders : q # p => sender'[q] = sender[q]
    BY <1>1, <1>2 DEF ChanTypeOK
  <2>4. sender'[p].n = Len(sizes) + 1 /\ ~ Writing(p)
    BY <1>1, <1>2 DEF ChanTypeOK, Writing
  <2> QED
    BY <1>1, <1>4, <1>5, <2>1, <2>2, <2>3, <2>4 DEF ChanInv, SenderInv, Writing
<1>8. ReceivedInv' /\ EndInv'
  BY <1>1 DEF ChanInv, ReceivedInv, EndInv, Reading
<1>9. PipeInv'
  <2>1. PICK n \in Nat, m \in Nat, start \in [1..(Len(written) + 1) -> Int] :
          PartInv(n, m) /\ PlaceInv(n, m, start) /\ ReaderInv(n, start)
    BY DEF ChanInv, PipeInv
  <2>2. PartInv(n, m)'
    <3>1. \A q \in Senders : Writing(q)' => Writing(q) /\ sender'[q] = sender[q] /\ sender[q].n \in SendsMade
      BY <1>1, <1>2 DEF Writing, ChanTypeOK, ChanInv, SenderInv
    <3> QED
      BY <1>1, <1>4, <1>5, <2>1, <3>1 DEF PartInv, Writing
  <2>3. PlaceInv(n, m, start)'
    <3>1. \A i \in 1..Len(written) : written[i] \in SendsMade
      BY <1>2 DEF ChanTypeOK
    <3> QED
      BY <1>1, <1>5, <2>1, <3>1 DEF PlaceInv
  <2>4. ReaderInv(n, start)'
    <3>1. Good' <=> Good
      BY <1>1 DEF Good
    <3>2. \A r \in Receivers : (Reading(r)' <=> Reading(r)) /\ BytesRead(r)' = BytesRead(r)
      BY <1>1 DEF Reading, BytesRead
    <3>3. Current(n)' = Current(n)
      BY <1>1 DEF Current
    <3>4. ASSUME NEW r \in Receivers, Reading(r), Good, receiver[r].at # "header"
          PROVE  sizes'[Current(n)] = sizes[Current(n)]
      BY <1>2, <1>3, <2>1, <3>4, EntryIsMade DEF ChanInv
    <3> QED
      BY <1>1, <2>1, <3>1, <3>2, <3>3, <3>4, ZenonT(40) DEF ReaderInv
  <2> QED
    BY <1>1, <2>2, <2>3, <2>4 DEF PipeInv
<1> QED
  BY <1>6, <1>7, <1>8, <1>9 DEF ChanInv

\* A sender that fails, and a producer that ends, leave the pipe to the receivers.
LEMMA PipeStays ==
  ASSUME UNCHANGED <<stream, sizes, receiver, written, received, first_error>>,
         torn' = "middle" <=> torn = "middle", NEW n, NEW m, NEW start,
         PlaceInv(n, m, start), ReaderInv(n, start), ReceivedInv
  PROVE  PlaceInv(n, m, start)' /\ ReaderInv(n, start)' /\ ReceivedInv'
<1>1. PlaceInv(n, m, start)' /\ ReceivedInv'
  BY DEF PlaceInv, ReceivedInv, Size
<1>2. (Good' <=> Good) /\ Current(n)' = Current(n)
  BY DEF Good, Current
<1>3. \A r \in Receivers : (Reading(r)' <=> Reading(r)) /\ BytesRead(r)' = BytesRead(r)
  BY DEF Reading, BytesRead
<1>4. ReaderInv(n, start)'
  BY <1>2, <1>3 DEF ReaderInv
<1> QED
  BY <1>1, <1>4

\* The lock is free: there is no partly written entry, or the one that was cut short is no
\* longer the end.
LEMMA SendLockedKeeps ==
  ASSUME ChanInv, NEW p \in Senders, SendLocked(p)
  PROVE  ChanInv'
<1>1. PICK id : id = sender[p].n
  OBVIOUS
<1>2. /\ sender[p].at = "wait" /\ \A q \in Senders : ~ Writing(q)
      /\ sender' = [sender EXCEPT ![p] = [@ EXCEPT !.at = "write", !.left = Whole(id)]]
      /\ torn' = IF torn = "end" THEN "middle" ELSE torn
      /\ UNCHANGED <<stream, sizes, receiver, write_open, read_open, written, received, first_error>>
  BY <1>1 DEF SendLocked
<1>3. ChanTypeOK /\ torn \in {"no", "end", "middle"} /\ write_open /\ id \in SendsMade
  BY <1>1, <1>2 DEF ChanInv, ChanTypeOK, SenderInv
<1>4. Size(id) \in Nat \ {0} /\ Whole(id) = Rest(id, 0) /\ Whole(id) \in Seq(PipeBytes)
  <2>1. Size(id) \in Nat \ {0} /\ 0 < Size(id)
    BY <1>3, SizeFacts
  <2>2. 0 \in Nat
    OBVIOUS
  <2> QED
    BY <1>3, <2>1, <2>2, RestFacts
<1>5. ChanTypeOK'
  <2> DEFINE new == [sender[p] EXCEPT !.at = "write", !.left = Whole(id)]
  <2>1. sender[p] \in [at : {"idle", "wait", "write"}, n : Nat, left : Seq(PipeBytes)]
    BY <1>3 DEF ChanTypeOK
  <2>2. new \in [at : {"idle", "wait", "write"}, n : Nat, left : Seq(PipeBytes)]
    BY <1>4, <2>1
  <2>3. sender' = [sender EXCEPT ![p] = new]
    BY <1>2
  <2> HIDE DEF new
  <2>4. sender' \in [Senders -> [at : {"idle", "wait", "write"}, n : Nat, left : Seq(PipeBytes)]]
    BY <1>3, <2>2, <2>3 DEF ChanTypeOK
  <2> QED
    BY <1>2, <1>3, <2>4 DEF ChanTypeOK, PipeBytes, SendsMade
<1>6. /\ sender'[p].at = "write" /\ sender'[p].n = id /\ sender'[p].left = Rest(id, 0)
      /\ \A q \in Senders : q # p => sender'[q] = sender[q]
      /\ \A q \in Senders : Writing(q)' <=> q = p
  BY <1>1, <1>2, <1>3, <1>4 DEF ChanTypeOK, Writing
<1>7. \A i, m : (Size(i)' = Size(i)) /\ (Rest(i, m)' = Rest(i, m)) /\ SendsMade' = SendsMade
  BY <1>2 DEF Size, Rest, SendsMade
<1>8. SenderInv'
  <2>1. \A q \in Senders : sender'[q].at # "idle" => sender'[q].n \in SendsMade /\ write_open
    BY <1>2, <1>3, <1>6 DEF ChanInv, SenderInv
  <2>2. torn' # "end"
    BY <1>2
  <2>3. 0 \in Nat /\ 0 < Size(id)
    BY <1>4
  <2> QED
    BY <1>2, <1>6, <1>7, <2>1, <2>2, <2>3 DEF SenderInv
<1>9. ReceivedInv' /\ EndInv'
  BY <1>2, <1>3 DEF ChanInv, ReceivedInv, EndInv
<1>10. PipeInv'
  <2>1. PICK n \in Nat, m \in Nat, start \in [1..(Len(written) + 1) -> Int] :
          PartInv(n, m) /\ PlaceInv(n, m, start) /\ ReaderInv(n, start)
    BY DEF ChanInv, PipeInv
  <2>2. torn' # "middle" => torn # "middle" /\ m = 0
    BY <1>2, <1>3, <2>1 DEF PartInv
  <2>3. PartInv(id, 0)'
    BY <1>2, <1>6, <1>7, <2>2 DEF PartInv
  <2>4. PlaceInv(id, 0, start)'
    BY <1>2, <1>7, <2>1, <2>2 DEF PlaceInv
  <2>5. ReaderInv(id, start)'
    <3>1. \A r \in Receivers : (Reading(r)' <=> Reading(r)) /\ BytesRead(r)' = BytesRead(r)
      BY <1>2 DEF Reading, BytesRead
    <3>2. Good' => Good
      BY <1>2 DEF Good
    <3>3. ASSUME Good', NEW r \in Receivers, Reading(r)
          PROVE  \/ Current(id)' = Current(n)
                 \/ receiver[r].at = "header" /\ Len(receiver[r].got) = 0
      <4>1. BytesRead(r) \in Nat /\ start[Len(received) + 1] + BytesRead(r) = 0
        BY <1>3, <2>1, <3>2, <3>3, EntryIsMade DEF ChanInv
      <4> DEFINE c == BytesRead(r)
      <4> HIDE DEF c
      <4>2. c \in Nat /\ start[Len(received) + 1] + c = 0
        BY <4>1 DEF c
      <4>3. CASE Len(received) < Len(written)
        BY <1>2, <4>3 DEF Current
      <4>4. CASE ~ (Len(received) < Len(written))
        <5>1. torn' # "middle" /\ m = 0
          BY <1>2, <2>2, <3>3, <4>4 DEF Good
        <5>2. Len(received) \in Nat /\ Len(written) \in Nat /\ Len(stream) \in Nat
          BY <1>3 DEF ChanTypeOK
        <5>3. Len(stream) = m - c
          BY <1>3, <2>1, <3>2, <3>3, <4>2, <4>4, <5>2, BytesToRead DEF ChanInv
        <5>4. BytesRead(r) = 0
          BY <4>2, <5>1, <5>2, <5>3 DEF c
        <5>5. receiver[r].got \in Seq(PipeBytes)
          BY <1>3 DEF ChanTypeOK
        <5> QED
          BY <5>4, <5>5, <3>3, ChannelAssumption DEF BytesRead, Reading
      <4> QED
        BY <4>3, <4>4
    <3> QED
      BY <1>2, <2>1, <3>1, <3>2, <3>3 DEF ReaderInv
  <2>6. written' = written /\ 0 \in Nat /\ id \in Nat
    BY <1>2, <1>3 DEF SendsMade, ChanTypeOK
  <2> QED
    BY <2>1, <2>3, <2>4, <2>5, <2>6 DEF PipeInv
<1> QED
  BY <1>5, <1>8, <1>9, <1>10 DEF ChanInv

\* Senders that stop without a further byte leave a part of an entry behind or none.
LEMMA SendersStop ==
  ASSUME ChanInv, write_open, write_open' \in BOOLEAN,
         UNCHANGED <<stream, sizes, receiver, read_open, written, received, first_error>>,
         sender' \in [Senders -> [at : {"idle", "wait", "write"}, n : Nat, left : Seq(PipeBytes)]],
         \A q \in Senders : sender'[q].at = "idle" \/ (sender'[q] = sender[q] /\ write_open'),
         torn' = IF torn = "no" /\ \E q \in Senders : Writing(q) /\ ~ Writing(q)'
                                     /\ sender[q].left # Whole(sender[q].n)
                 THEN "end" ELSE torn
  PROVE  ChanInv'
<1>1. ChanTypeOK /\ SenderInv /\ ReceivedInv /\ EndInv
  BY DEF ChanInv
<1>2. torn' \in {"no", "end", "middle"} /\ (torn' = "middle" <=> torn = "middle")
  BY <1>1 DEF ChanTypeOK
<1>3. ChanTypeOK'
  BY <1>1, <1>2 DEF ChanTypeOK, PipeBytes, SendsMade
<1>4. SendsMade' = SendsMade /\ \A i, m : Size(i)' = Size(i) /\ Rest(i, m)' = Rest(i, m)
  BY DEF Size, Rest, SendsMade
<1>5. \A q \in Senders : Writing(q)' => Writing(q) /\ sender'[q] = sender[q]
  BY DEF Writing
<1>6. SenderInv'
  <2>1. \A q \in Senders : Writing(q)' => torn' # "end"
    <3> SUFFICES ASSUME NEW q \in Senders, Writing(q)' PROVE torn' # "end"
      OBVIOUS
    <3>1. Writing(q) /\ torn # "end"
      BY <1>1, <1>5 DEF SenderInv
    <3>2. \A p \in Senders : Writing(p) => p = q
      BY <1>1, <3>1 DEF SenderInv
    <3> QED
      BY <3>1, <3>2
  <2>2. \A q \in Senders : sender'[q].at # "idle" => sender'[q].n \in SendsMade' /\ write_open'
    BY <1>1, <1>4 DEF SenderInv
  <2>3. \A p, q \in Senders : Writing(p)' /\ Writing(q)' => p = q
    BY <1>1, <1>5 DEF SenderInv
  <2>4. \A q \in Senders : Writing(q)' =>
          \E m \in Nat : (m < Size(sender[q].n) /\ sender[q].left = Rest(sender[q].n, m))'
    <3> SUFFICES ASSUME NEW q \in Senders, Writing(q)'
                 PROVE  \E m \in Nat : (m < Size(sender[q].n) /\ sender[q].left = Rest(sender[q].n, m))'
      OBVIOUS
    <3>1. PICK m \in Nat : m < Size(sender[q].n) /\ sender[q].left = Rest(sender[q].n, m)
      BY <1>1, <1>5 DEF SenderInv
    <3> QED
      BY <1>4, <1>5, <3>1
  <2> QED
    BY <2>1, <2>2, <2>3, <2>4 DEF SenderInv
<1>7. EndInv'
  BY <1>1, <1>2 DEF EndInv
<1>8. PICK n \in Nat, m \in Nat, start \in [1..(Len(written) + 1) -> Int] :
        PartInv(n, m) /\ PlaceInv(n, m, start) /\ ReaderInv(n, start)
  BY DEF ChanInv, PipeInv
<1>9. PartInv(n, m)'
  <2> SUFFICES ASSUME torn # "middle" PROVE PartInv(n, m)'
    BY <1>2 DEF PartInv
  <2>1. /\ m > 0 => n \in SendsMade' /\ m < Size(n)'
        /\ \A q \in Senders : Writing(q)' => n = sender'[q].n /\ sender'[q].left = Rest(n, m)'
    BY <1>4, <1>5, <1>8 DEF PartInv
  <2>2. \A q \in Senders : Writing(q) => (sender[q].left = Whole(sender[q].n) <=> m = 0)
    <3> SUFFICES ASSUME NEW q \in Senders, Writing(q)
                 PROVE  sender[q].left = Whole(sender[q].n) <=> m = 0
      OBVIOUS
    <3>1. n = sender[q].n /\ sender[q].left = Rest(n, m) /\ n \in SendsMade
      BY <1>1, <1>8 DEF PartInv, SenderInv, Writing
    <3>2. 0 < Size(n) /\ m < Size(n)
      BY <1>1, <1>8, <3>1, SizeFacts DEF PartInv
    <3> QED
      BY <1>1, <3>1, <3>2, RestFacts
  <2>3. torn' = "end" => m > 0
    BY <1>8, <2>2 DEF PartInv
  <2>4. torn' = "no" /\ (\A q \in Senders : ~ Writing(q)') => m = 0
    BY <1>8, <2>2 DEF PartInv
  <2> QED
    BY <2>1, <2>3, <2>4 DEF PartInv
<1>10. PlaceInv(n, m, start)' /\ ReaderInv(n, start)' /\ ReceivedInv'
  BY <1>1, <1>2, <1>8, PipeStays
<1>11. PipeInv'
  BY <1>8, <1>9, <1>10 DEF PipeInv
<1> QED
  BY <1>3, <1>6, <1>7, <1>10, <1>11 DEF ChanInv

\* A write fails.
LEMMA WriteFailsKeeps ==
  ASSUME ChanInv, NEW p \in Senders, WriteFails(p)
  PROVE  ChanInv'
<1> DEFINE Sender == [at : {"idle", "wait", "write"}, n : Nat, left : Seq(PipeBytes)]
<1>1. ChanTypeOK /\ SenderInv /\ sender \in [Senders -> Sender] /\ write_open \in BOOLEAN
  BY DEF ChanInv, ChanTypeOK
<1> DEFINE new == [sender[p] EXCEPT !.at = "idle", !.left = <<>>]
<1>2. new \in Sender
  <2>1. sender[p] \in Sender /\ <<>> \in Seq(PipeBytes)
    BY <1>1
  <2> QED
    BY <2>1
<1>3. new.at = "idle" /\ sender' = [sender EXCEPT ![p] = new]
  BY <1>1 DEF WriteFails
<1> HIDE DEF new
<1>4. /\ sender' \in [Senders -> Sender] /\ sender'[p].at = "idle"
      /\ \A q \in Senders : q # p => sender'[q] = sender[q]
  BY <1>1, <1>2, <1>3
<1>5. /\ Writing(p)
      /\ torn' = IF torn = "no" /\ sender[p].left # Whole(sender[p].n) THEN "end" ELSE torn
      /\ UNCHANGED <<stream, sizes, receiver, write_open, read_open, written, received, first_error>>
  BY <1>1 DEF WriteFails
<1>6. write_open
  BY <1>1, <1>5 DEF SenderInv, Writing
<1>7. \A q \in Senders : Writing(q) /\ ~ Writing(q)' <=> q = p
  BY <1>4, <1>5 DEF Writing
<1>8. torn' = IF torn = "no" /\ \E q \in Senders : Writing(q) /\ ~ Writing(q)'
                                   /\ sender[q].left # Whole(sender[q].n)
               THEN "end" ELSE torn
  BY <1>5, <1>7
<1>9. \A q \in Senders : sender'[q].at = "idle" \/ (sender'[q] = sender[q] /\ write_open')
  BY <1>4, <1>5, <1>6
<1> QED
  BY <1>1, <1>4, <1>5, <1>6, <1>8, <1>9, SendersStop

\* The producer is closed, or the producing process is killed.
LEMMA ProducerEnds ==
  ASSUME ChanInv, CloseProducer \/ ProducerDies
  PROVE  ChanInv'
<1> DEFINE Sender == [at : {"idle", "wait", "write"}, n : Nat, left : Seq(PipeBytes)]
<1>1. ChanTypeOK /\ SenderInv /\ sender \in [Senders -> Sender] /\ write_open \in BOOLEAN
  BY DEF ChanInv, ChanTypeOK
<1>2. CASE CloseProducer
  <2>1. /\ write_open /\ \A p \in Senders : sender[p].at = "idle"
        /\ write_open' = FALSE /\ sender' = sender /\ torn' = torn
        /\ UNCHANGED <<stream, sizes, receiver, read_open, written, received, first_error>>
    BY <1>2 DEF CloseProducer
  <2>2. \A q \in Senders : ~ Writing(q)
    BY <2>1 DEF Writing
  <2> QED
    BY <1>1, <2>1, <2>2, SendersStop
<1>3. CASE ProducerDies
  <2>1. /\ write_open /\ write_open' = FALSE
        /\ sender' = [p \in Senders |-> [at |-> "idle", n |-> 0, left |-> <<>>]]
        /\ torn' = IF torn = "no" /\ \E p \in Senders : Writing(p) /\ sender[p].left # Whole(sender[p].n)
                   THEN "end" ELSE torn
        /\ UNCHANGED <<stream, sizes, receiver, read_open, written, received, first_error>>
    BY <1>3 DEF ProducerDies
  <2>2. sender' \in [Senders -> Sender] /\ \A q \in Senders : sender'[q].at = "idle"
    <3>1. [at |-> "idle", n |-> 0, left |-> <<>>] \in Sender
      OBVIOUS
    <3> QED
      BY <2>1, <3>1
  <2>3. \A q \in Senders : ~ Writing(q)'
    BY <2>2 DEF Writing
  <2> QED
    BY <2>1, <2>2, <2>3, SendersStop
<1> QED
  BY <1>2, <1>3

\* Some of a sequence put after another one.
LEMMA SomeAppended ==
  ASSUME NEW S, NEW s \in Seq(S), NEW f \in Seq(S), NEW c \in 0..Len(f),
         NEW t, t = s \o SubSeq(f, 1, c)
  PROVE  /\ t \in Seq(S) /\ Len(t) = Len(s) + c
         /\ \A k \in 1..Len(s) : t[k] = s[k]
         /\ \A k \in 1..c : t[Len(s) + k] = f[k]
OBVIOUS

\* What a write does to the pipe and the sender.
Wrote(p, id, m, count) ==
  /\ Writing(p) /\ write_open /\ torn \in {"no", "middle"}
  /\ count \in Nat \ {0} /\ m + count <= Size(id)
  /\ UNCHANGED <<sizes, receiver, write_open, read_open, received, first_error, torn>>
  /\ stream' \in Seq(PipeBytes) /\ Len(stream') = Len(stream) + count
  /\ \A k \in 1..Len(stream) : stream'[k] = stream[k]
  /\ \A k \in 1..count : stream'[Len(stream) + k] = <<id, m + k>>
  /\ IF m + count = Size(id)
     THEN /\ sender'[p].at = "idle"
          /\ written' = IF torn = "no" THEN Append(written, id) ELSE written
     ELSE /\ sender'[p].at = "write" /\ sender'[p].n = id
          /\ sender'[p].left = Rest(id, m + count) /\ written' = written
  /\ \A q \in Senders : q # p => sender'[q] = sender[q]
  /\ sender' \in [Senders -> [at : {"idle", "wait", "write"}, n : Nat, left : Seq(PipeBytes)]]

\* The size and the entry are written apart.
LEMMA WriteSomeFacts ==
  ASSUME ChanTypeOK, SenderInv, NEW p \in Senders, NEW count \in 1..Capacity, WriteSome(p, count),
         NEW id \in SendsMade, id = sender[p].n,
         NEW m \in Nat, m < Size(id), sender[p].left = Rest(id, m)
  PROVE  Wrote(p, id, m, count)
<1> DEFINE left == sender[p].left
           Sender == [at : {"idle", "wait", "write"}, n : Nat, left : Seq(PipeBytes)]
<1>1. /\ Writing(p)
      /\ count <= IF left[1][2] <= HeaderSize THEN HeaderSize + 1 - left[1][2] ELSE Len(left)
      /\ stream' = stream \o SubSeq(left, 1, count)
      /\ UNCHANGED <<sizes, receiver, write_open, read_open, received, first_error, torn>>
  BY DEF WriteSome
<1>2. count = Len(left) =>
        /\ sender' = [sender EXCEPT ![p] = [@ EXCEPT !.at = "idle", !.left = <<>>]]
        /\ written' = IF torn = "no" THEN Append(written, id) ELSE written
  BY DEF WriteSome
<1>3. count # Len(left) =>
        /\ sender' = [sender EXCEPT ![p].left = SubSeq(@, count + 1, Len(@))]
        /\ written' = written
  BY DEF WriteSome
<1>4. write_open /\ torn \in {"no", "middle"}
  BY <1>1 DEF SenderInv, Writing, ChanTypeOK
<1>5. /\ left \in Seq(PipeBytes) /\ Len(left) = Size(id) - m /\ left[1] = <<id, m + 1>>
      /\ \A j \in 1..(Size(id) - m) : left[j] = <<id, m + j>>
      /\ Size(id) \in Nat /\ Size(id) = HeaderSize + sizes[id] /\ sizes[id] \in Nat
  <2>1. Size(id) \in Nat /\ Size(id) = HeaderSize + sizes[id] /\ sizes[id] \in Nat
    BY <1>4, SizeFacts DEF Size
  <2>2. /\ left \in Seq(PipeBytes) /\ Len(left) = Size(id) - m
        /\ \A j \in 1..(Size(id) - m) : left[j] = <<id, m + j>>
    BY <1>4, RestFacts
  <2>3. 1 \in 1..(Size(id) - m)
    BY <2>1
  <2>4. left[1] = <<id, m + 1>>
    BY <2>2, <2>3
  <2> QED
    BY <2>1, <2>2, <2>4
<1>6. count \in Nat \ {0} /\ m + count <= Size(id) /\ count \in 0..Len(left)
  <2>1. count \in Nat \ {0}
    BY ChannelAssumption
  <2>2. left[1][2] = m + 1
    BY <1>5
  <2>3. HeaderSize \in Nat /\ Size(id) >= HeaderSize
    BY <1>5, ChannelAssumption
  <2> DEFINE at == left[1][2]
             size == Size(id)
             len == Len(left)
  <2>4. /\ at = m + 1 /\ len = size - m /\ size \in Nat /\ size >= HeaderSize
        /\ count <= IF at <= HeaderSize THEN HeaderSize + 1 - at ELSE len
    BY <1>1, <1>5, <2>2, <2>3
  <2> HIDE DEF at, size, len
  <2>5. m + count <= size /\ count \in 0..len
    BY <2>1, <2>3, <2>4
  <2> QED
    BY <2>1, <2>5 DEF size, len
<1>7. /\ stream' \in Seq(PipeBytes) /\ Len(stream') = Len(stream) + count
      /\ \A k \in 1..Len(stream) : stream'[k] = stream[k]
      /\ \A k \in 1..count : stream'[Len(stream) + k] = <<id, m + k>>
  <2>1. stream \in Seq(PipeBytes)
    BY DEF ChanTypeOK
  <2>2. /\ stream' \in Seq(PipeBytes) /\ Len(stream') = Len(stream) + count
        /\ \A k \in 1..Len(stream) : stream'[k] = stream[k]
        /\ \A k \in 1..count : stream'[Len(stream) + k] = left[k]
    <3>1. left \in Seq(PipeBytes) /\ count \in 0..Len(left) /\ stream' = stream \o SubSeq(left, 1, count)
      BY <1>1, <1>5, <1>6
    <3> HIDE DEF left
    <3> QED
      BY <2>1, <3>1, SomeAppended
  <2>3. \A k \in 1..count : left[k] = <<id, m + k>>
    <3>1. \A k \in 1..count : k \in 1..(Size(id) - m)
      BY <1>5, <1>6
    <3> QED
      BY <1>5, <3>1
  <2> QED
    BY <2>2, <2>3
<1>8. sender[p] \in Sender /\ sender \in [Senders -> Sender]
  BY DEF ChanTypeOK
<1>9. CASE m + count = Size(id)
  <2> DEFINE new == [sender[p] EXCEPT !.at = "idle", !.left = <<>>]
  <2>1. new \in Sender /\ new.at = "idle"
    <3>1. <<>> \in Seq(PipeBytes)
      OBVIOUS
    <3> QED
      BY <1>8, <3>1
  <2>2. /\ sender' = [sender EXCEPT ![p] = new]
        /\ written' = IF torn = "no" THEN Append(written, id) ELSE written
    BY <1>2, <1>5, <1>6, <1>9
  <2> HIDE DEF new
  <2>3. /\ sender' \in [Senders -> Sender] /\ sender'[p].at = "idle"
        /\ \A q \in Senders : q # p => sender'[q] = sender[q]
    BY <1>8, <2>1, <2>2
  <2> QED
    BY <1>1, <1>4, <1>6, <1>7, <1>9, <2>2, <2>3 DEF Wrote
<1>10. CASE m + count # Size(id)
  <2> DEFINE rest == SubSeq(left, count + 1, Len(left))
             new == [sender[p] EXCEPT !.left = rest]
  <2>1. rest = Rest(id, m + count) /\ rest \in Seq(PipeBytes)
    <3>1. m + count < Size(id) /\ count \in Nat /\ m + count \in Nat
      BY <1>5, <1>6, <1>10, SMTT(30)
    <3>2. rest = Rest(id, m + count)
      <4>1. SubSeq(Rest(id, m), count + 1, Len(Rest(id, m))) = Rest(id, m + count)
        BY <3>1, RestShrinks
      <4> QED
        BY <4>1
    <3> QED
      BY <1>4, <3>1, <3>2, RestFacts
  <2>2. sender' = [sender EXCEPT ![p] = new] /\ written' = written
    BY <1>3, <1>5, <1>6, <1>10
  <2> HIDE DEF rest
  <2>3. new \in Sender /\ new.at = "write" /\ new.n = id /\ new.left = rest
    BY <1>1, <1>8, <2>1 DEF Writing
  <2> HIDE DEF new
  <2>4. /\ sender' \in [Senders -> Sender] /\ sender'[p] = new
        /\ \A q \in Senders : q # p => sender'[q] = sender[q]
    BY <1>8, <2>2, <2>3
  <2> QED
    BY <1>1, <1>4, <1>6, <1>7, <1>10, <2>1, <2>2, <2>3, <2>4 DEF Wrote
<1> QED
  BY <1>9, <1>10

\* The bytes that a write appends belong to the entry of the sender.
LEMMA WriteSomeKeeps ==
  ASSUME ChanInv, NEW p \in Senders, NEW count \in 1..Capacity, WriteSome(p, count)
  PROVE  ChanInv'
<1>1. ChanTypeOK /\ SenderInv /\ ReceivedInv /\ EndInv /\ Writing(p)
  BY DEF ChanInv, WriteSome
<1>2. PICK id \in SendsMade, m \in Nat :
        id = sender[p].n /\ m < Size(id) /\ sender[p].left = Rest(id, m)
  BY <1>1 DEF SenderInv, Writing
<1> DEFINE L == Len(written)
<1>3. /\ write_open /\ torn \in {"no", "middle"}
      /\ count \in Nat \ {0} /\ m + count <= Size(id)
      /\ UNCHANGED <<sizes, receiver, write_open, read_open, received, first_error, torn>>
      /\ stream' \in Seq(PipeBytes) /\ Len(stream') = Len(stream) + count
      /\ \A k \in 1..Len(stream) : stream'[k] = stream[k]
      /\ \A k \in 1..count : stream'[Len(stream) + k] = <<id, m + k>>
  <2>1. Wrote(p, id, m, count)
    BY <1>1, <1>2, WriteSomeFacts
  <2> QED
    BY <2>1 DEF Wrote
<1>4. /\ IF m + count = Size(id)
         THEN /\ sender'[p].at = "idle"
              /\ written' = IF torn = "no" THEN Append(written, id) ELSE written
         ELSE /\ sender'[p].at = "write" /\ sender'[p].n = id
              /\ sender'[p].left = Rest(id, m + count) /\ written' = written
      /\ \A q \in Senders : q # p => sender'[q] = sender[q]
      /\ sender' \in [Senders -> [at : {"idle", "wait", "write"}, n : Nat, left : Seq(PipeBytes)]]
  <2>1. Wrote(p, id, m, count)
    BY <1>1, <1>2, WriteSomeFacts
  <2> QED
    BY <2>1 DEF Wrote
<1>5. SendsMade' = SendsMade /\ \A i, j : Size(i)' = Size(i) /\ Rest(i, j)' = Rest(i, j)
  BY <1>3 DEF Size, Rest, SendsMade
<1>6. /\ L \in Nat /\ Len(stream) \in Nat /\ Len(received) \in Nat /\ written \in Seq(SendsMade)
      /\ Size(id) \in Nat
  <2>1. Size(id) \in Nat
    BY <1>1, <1>3, SizeFacts
  <2> QED
    BY <1>1, <2>1 DEF ChanTypeOK
<1>7. \/ written' = written
      \/ /\ torn = "no" /\ m + count = Size(id) /\ written' = Append(written, id)
         /\ Len(written') = L + 1 /\ written'[L + 1] = id /\ \A i \in 1..L : written'[i] = written[i]
  <2>1. Append(written, id) \in Seq(SendsMade) /\ Len(Append(written, id)) = L + 1
        /\ Append(written, id)[L + 1] = id /\ \A i \in 1..L : Append(written, id)[i] = written[i]
    <3>1. written \in Seq(SendsMade)
      BY <1>6
    <3> QED
      BY <3>1
  <2> QED
    BY <1>4, <2>1
<1>8. ChanTypeOK'
  <2>1. written' \in Seq(SendsMade)
    <3>1. written \in Seq(SendsMade)
      BY <1>6
    <3>2. Append(written, id) \in Seq(SendsMade)
      BY <3>1
    <3> QED
      BY <1>7, <3>1, <3>2
  <2>2. PipeBytes' = PipeBytes
    BY <1>5 DEF PipeBytes
  <2> QED
    BY <1>1, <1>3, <1>4, <1>5, <2>1, <2>2 DEF ChanTypeOK
<1>9. SenderInv'
  <2>1. \A q \in Senders : Writing(q) <=> q = p
    BY <1>1 DEF SenderInv
  <2>2. \A q \in Senders : Writing(q)' => q = p /\ sender'[p].at = "write"
    BY <1>4, <2>1 DEF Writing
  <2>3. \A q \in Senders : sender'[q].at # "idle" => sender'[q].n \in SendsMade' /\ write_open'
    BY <1>1, <1>3, <1>4, <1>5 DEF SenderInv
  <2>4. Writing(p)' => (\E j \in Nat : j < Size(sender[p].n) /\ sender[p].left = Rest(sender[p].n, j))'
    <3> SUFFICES ASSUME Writing(p)'
                 PROVE  (\E j \in Nat : j < Size(sender[p].n) /\ sender[p].left = Rest(sender[p].n, j))'
      OBVIOUS
    <3>1. m + count # Size(id)
      BY <1>4 DEF Writing
    <3>2. PICK j0 \in Nat : j0 = m + count /\ j0 < Size(id)
      <4>1. m + count \in Nat /\ m + count < Size(id)
        <5>1. count \in Nat /\ m + count <= Size(id) /\ Size(id) \in Nat
          BY <1>3, <1>6
        <5> QED
          BY <3>1, <5>1
      <4> QED
        BY <4>1
    <3>3. (j0 < Size(sender[p].n) /\ sender[p].left = Rest(sender[p].n, j0))'
      <4>1. sender'[p].n = id /\ sender'[p].left = Rest(id, j0)
        BY <1>4, <3>1, <3>2
      <4> QED
        BY <1>3, <3>2, <4>1 DEF Size, Rest
    <3> QED
      BY <3>2, <3>3
  <2> QED
    BY <1>3, <2>2, <2>3, <2>4 DEF SenderInv
<1>10. ReceivedInv' /\ EndInv'
  <2>1. ReceivedInv'
    BY <1>1, <1>3, <1>6, <1>7, SMTT(30) DEF ReceivedInv
  <2>2. EndInv'
    BY <1>1, <1>3, <1>7 DEF EndInv
  <2> QED
    BY <2>1, <2>2
<1>11. PICK n \in Nat, m0 \in Nat, start \in [1..(L + 1) -> Int] :
         PartInv(n, m0) /\ PlaceInv(n, m0, start) /\ ReaderInv(n, start)
  BY DEF ChanInv, PipeInv
<1>12. \A i \in 1..L :
         /\ Size(written[i]) \in Nat
         /\ \A k \in 1..Size(written[i]) :
              1 <= start[i] + k =>
                start[i] + k <= Len(stream') /\ stream'[start[i] + k] = <<written[i], k>>
  <2> SUFFICES ASSUME NEW i \in 1..L
               PROVE  /\ Size(written[i]) \in Nat
                      /\ \A k \in 1..Size(written[i]) :
                           1 <= start[i] + k =>
                             start[i] + k <= Len(stream') /\ stream'[start[i] + k] = <<written[i], k>>
    OBVIOUS
  <2>1. start[i] \in Int /\ Size(written[i]) \in Nat
    <3>1. written[i] \in SendsMade /\ i \in 1..(L + 1)
      BY <1>6
    <3> QED
      BY <1>1, <3>1, SizeFacts
  <2>2. ASSUME NEW k \in 1..Size(written[i]), 1 <= start[i] + k
        PROVE  start[i] + k <= Len(stream') /\ stream'[start[i] + k] = <<written[i], k>>
    <3>1. start[i] + k <= Len(stream) /\ stream[start[i] + k] = <<written[i], k>>
      BY <1>11, <2>2 DEF PlaceInv
    <3>2. start[i] + k \in 1..Len(stream)
      BY <1>6, <2>1, <2>2, <3>1
    <3> QED
      BY <1>3, <1>6, <3>1, <3>2
  <2> QED
    BY <2>1, <2>2
<1>13. (\A r \in Receivers : (Reading(r)' <=> Reading(r)) /\ BytesRead(r)' = BytesRead(r))
  BY <1>3 DEF Reading, BytesRead
<1>14. CASE torn = "middle"
  <2>1. written' = written
    BY <1>7, <1>14
  <2>2. PartInv(n, m0)'
    BY <1>3, <1>14 DEF PartInv
  <2>3. PlaceInv(n, m0, start)'
    <3>1. \A i \in 1..L : start[i + 1] = start[i] + Size(written[i])
      BY <1>11 DEF PlaceInv
    <3> QED
      BY <1>3, <1>12, <1>14, <2>1, <3>1 DEF PlaceInv, Size
  <2>4. ReaderInv(n, start)'
    BY <1>3, <1>11, <1>13, <2>1 DEF ReaderInv, Good, Current
  <2>5. PipeInv'
    BY <1>11, <2>1, <2>2, <2>3, <2>4 DEF PipeInv
  <2> QED
    BY <1>8, <1>9, <1>10, <2>5 DEF ChanInv
<1>15. CASE torn = "no"
  <2>1. n = id /\ m0 = m
    <3>1. n = id /\ Rest(id, m0) = Rest(id, m)
      BY <1>1, <1>2, <1>11, <1>15 DEF PartInv
    <3>2. m0 < Size(id)
      <4>1. m0 > 0 => m0 < Size(id)
        BY <1>11, <1>15, <3>1 DEF PartInv
      <4> QED
        BY <1>2, <1>6, <4>1
    <3>3. 1 \in 1..(Size(id) - m) /\ 1 \in 1..(Size(id) - m0)
      BY <1>2, <1>6, <3>2
    <3>4. Rest(id, m)[1] = <<id, m + 1>> /\ Rest(id, m0)[1] = <<id, m0 + 1>>
      BY <3>3 DEF Rest
    <3> QED
      BY <3>1, <3>4
  <2>2. start[L + 1] \in Int /\ Len(stream) = start[L + 1] + m
    BY <1>6, <1>11, <1>15, <2>1 DEF PlaceInv
  <2>3. \A k \in 1..(m + count) :
          1 <= start[L + 1] + k => stream'[start[L + 1] + k] = <<id, k>>
    <3> SUFFICES ASSUME NEW k \in 1..(m + count), 1 <= start[L + 1] + k
                 PROVE  stream'[start[L + 1] + k] = <<id, k>>
      OBVIOUS
    <3>1. CASE k <= m
      <4>1. k \in 1..m /\ start[L + 1] + k \in 1..Len(stream)
        BY <1>3, <2>2, <3>1, SMTT(30)
      <4> QED
        BY <1>3, <1>11, <1>15, <2>1, <4>1 DEF PlaceInv
    <3>2. CASE k > m
      <4>1. k - m \in 1..count /\ start[L + 1] + k = Len(stream) + (k - m) /\ m + (k - m) = k
        BY <1>3, <2>2, <3>2
      <4>2. stream'[Len(stream) + (k - m)] = <<id, m + (k - m)>>
        BY <1>3, <4>1
      <4> QED
        BY <4>1, <4>2
    <3> QED
      BY <1>3, <3>1, <3>2
  <2>4. \A i \in 1..L : start[i + 1] = start[i] + Size(written[i])
    BY <1>11 DEF PlaceInv
  <2>5. Len(received) <= L /\ Len(received) + 1 \in 1..(L + 1)
    BY <1>1, <1>6, <1>15 DEF ReceivedInv
  <2>6. ASSUME m + count # Size(id) PROVE PipeInv'
    <3>1. m + count < Size(id) /\ m + count \in Nat /\ m + count > 0
      <4>1. count \in Nat \ {0} /\ m + count <= Size(id)
        BY <1>3
      <4> DEFINE size == Size(id)
      <4>2. size \in Nat /\ m + count <= size /\ m + count # size
        BY <1>6, <2>6, <4>1
      <4> HIDE DEF size
      <4>3. m + count < size /\ m + count \in Nat /\ m + count > 0
        BY <4>1, <4>2
      <4> QED
        BY <4>3 DEF size
    <3>2. written' = written
      BY <1>4, <2>6
    <3>3. PartInv(id, m + count)'
      <4>1. \A q \in Senders : Writing(q)' => q = p
        BY <1>1, <1>4 DEF SenderInv, Writing
      <4>2. Writing(p)' /\ id = sender'[p].n /\ sender'[p].left = Rest(id, m + count)'
        BY <1>4, <1>5, <2>6 DEF Writing
      <4> QED
        BY <1>3, <1>5, <1>15, <3>1, <4>1, <4>2 DEF PartInv
    <3>4. PlaceInv(id, m + count, start)'
      <4>1. Len(stream') = start[L + 1] + (m + count)
        BY <1>3, <2>2
      <4>2. Len(written') = L
        BY <3>2
      <4> QED
        BY <1>3, <1>12, <2>3, <2>4, <3>2, <4>1, <4>2 DEF PlaceInv, Size
    <3>5. ReaderInv(id, start)'
      <4>1. (Good' <=> Good) /\ Current(id)' = Current(n)
        BY <1>3, <2>1, <3>2 DEF Good, Current
      <4> QED
        BY <1>3, <1>11, <1>13, <3>2, <4>1 DEF ReaderInv
    <3>6. id \in Nat /\ start \in [1..(Len(written') + 1) -> Int]
      BY <3>2 DEF SendsMade
    <3> QED
      BY <3>1, <3>3, <3>4, <3>5, <3>6 DEF PipeInv
  <2>7. ASSUME m + count = Size(id) PROVE PipeInv'
    <3>1. /\ Len(written') = L + 1 /\ written'[L + 1] = id /\ \A i \in 1..L : written'[i] = written[i]
      BY <1>4, <1>6, <1>7, <1>15, <2>7
    <3>2. PICK start2 \in [1..(Len(written') + 1) -> Int] :
            /\ \A i \in 1..(L + 1) : start2[i] = start[i]
            /\ start2[L + 2] = start[L + 1] + Size(id)
      <4> DEFINE f == [i \in 1..(L + 2) |-> IF i <= L + 1 THEN start[i] ELSE start[L + 1] + Size(id)]
      <4>1. Len(written') + 1 = L + 2 /\ L + 2 \in 1..(L + 2) /\ ~ (L + 2 <= L + 1)
        BY <1>6, <3>1
      <4>2. \A i \in 1..(L + 1) : i \in 1..(L + 2) /\ i <= L + 1 /\ start[i] \in Int
        BY <1>6
      <4>3. start[L + 1] + Size(id) \in Int
        BY <1>6, <2>2
      <4>4. \A i \in 1..(L + 2) : i <= L + 1 => start[i] \in Int
        BY <1>6
      <4>5. f \in [1..(Len(written') + 1) -> Int]
        BY <4>1, <4>3, <4>4
      <4>6. /\ \A i \in 1..(L + 1) : f[i] = start[i]
            /\ f[L + 2] = start[L + 1] + Size(id)
        BY <4>1, <4>2
      <4> HIDE DEF f
      <4> QED
        BY <4>5, <4>6
    <3>3. PartInv(id, 0)'
      <4>1. \A q \in Senders : ~ Writing(q)'
        BY <1>1, <1>4, <2>7 DEF SenderInv, Writing
      <4> QED
        BY <1>3, <1>15, <4>1 DEF PartInv
    <3>4. PlaceInv(id, 0, start2)'
      <4>1. Len(stream') = start2[L + 2] + 0
        BY <1>3, <1>6, <2>2, <2>7, <3>2
      <4>2. ASSUME NEW i \in 1..L
            PROVE  /\ start2[i + 1] = start2[i] + Size(written'[i])
                   /\ \A k \in 1..Size(written'[i]) :
                        1 <= start2[i] + k =>
                          start2[i] + k <= Len(stream') /\ stream'[start2[i] + k] = <<written'[i], k>>
        <5>1. start2[i + 1] = start[i + 1] /\ start2[i] = start[i] /\ written'[i] = written[i]
          BY <1>6, <3>1, <3>2
        <5> QED
          BY <1>12, <2>4, <5>1
      <4>3. /\ start2[L + 2] = start2[L + 1] + Size(id)
            /\ \A k \in 1..Size(id) :
                 1 <= start2[L + 1] + k =>
                   start2[L + 1] + k <= Len(stream') /\ stream'[start2[L + 1] + k] = <<id, k>>
        <5>1. start2[L + 1] = start[L + 1]
          BY <1>6, <3>2, SMTT(30)
        <5>2. \A k \in 1..Size(id) : start[L + 1] + k <= Len(stream')
          <6>1. Len(stream') = start[L + 1] + Size(id) /\ start[L + 1] \in Int /\ Size(id) \in Nat
            BY <1>3, <1>6, <2>2, <2>7, SMTT(30)
          <6> QED
            BY <6>1
        <5> QED
          BY <2>3, <2>7, <3>2, <5>1, <5>2
      <4>4. \A i \in 1..Len(written') : i \in 1..L \/ i = L + 1
        BY <1>6, <3>1
      <4>5. \A i : Size(i)' = Size(i)
        BY <1>5
      <4>6. (L + 1) + 1 = L + 2
        BY <1>6
      <4>7. \A i \in 1..Len(written') :
              /\ start2[i + 1] = start2[i] + Size(written'[i])
              /\ \A k \in 1..Size(written'[i]) :
                   1 <= start2[i] + k =>
                     start2[i] + k <= Len(stream') /\ stream'[start2[i] + k] = <<written'[i], k>>
        <5> SUFFICES ASSUME NEW i \in 1..Len(written')
                     PROVE  /\ start2[i + 1] = start2[i] + Size(written'[i])
                            /\ \A k \in 1..Size(written'[i]) :
                                 1 <= start2[i] + k =>
                                   /\ start2[i] + k <= Len(stream')
                                   /\ stream'[start2[i] + k] = <<written'[i], k>>
          OBVIOUS
        <5>1. CASE i \in 1..L
          BY <4>2, <5>1
        <5>2. CASE i = L + 1
          BY <3>1, <4>3, <4>6, <5>2
        <5> QED
          BY <4>4, <5>1, <5>2
      <4>8. sizes' = sizes /\ start2[Len(written') + 1] = start2[L + 2] /\ Len(stream') = start2[L + 2] + 0
        BY <1>3, <3>1, <4>1, <4>6
      <4>9. \A k \in 1..0 : FALSE
        OBVIOUS
      <4> QED
        BY <4>7, <4>8, <4>9 DEF PlaceInv, Size
    <3>5. ReaderInv(id, start2)'
      <4>1. Good' <=> Good
        BY <1>3, <1>6, <1>15 DEF Good
      <4>2. Current(id)' = Current(n)
        <5>1. CASE Len(received) < L
          BY <1>3, <1>6, <3>1, <5>1, SMTT(30) DEF Current
        <5>2. CASE Len(received) = L
          BY <1>3, <1>6, <2>1, <3>1, <5>2 DEF Current
        <5> QED
          BY <1>6, <2>5, <5>1, <5>2
      <4>3. start2[Len(received) + 1] = start[Len(received) + 1]
        BY <2>5, <3>2
      <4> QED
        BY <1>3, <1>11, <1>13, <4>1, <4>2, <4>3, SMTT(30) DEF ReaderInv
    <3>6. id \in Nat /\ 0 \in Nat
      BY DEF SendsMade
    <3> QED
      BY <3>3, <3>4, <3>5, <3>6 DEF PipeInv
  <2> QED
    BY <1>8, <1>9, <1>10, <2>6, <2>7 DEF ChanInv
<1> QED
  BY <1>3, <1>14, <1>15

-----------------------------------------------------------------------------
(* The receivers *)

Receiver == [at : {"idle", "wait", "header", "entry"}, got : Seq(PipeBytes),
             want : Nat, of : SendsMade \union {0}]

\* What the receivers do changes nothing for the senders.
LEMMA SendersUntouched ==
  ASSUME UNCHANGED <<sizes, sender, write_open, written, torn>>
  PROVE  /\ SendsMade' = SendsMade /\ PipeBytes' = PipeBytes
         /\ SenderInv => SenderInv'
         /\ \A n, m : PartInv(n, m) => PartInv(n, m)'
<1>1. SendsMade' = SendsMade /\ PipeBytes' = PipeBytes
  BY DEF SendsMade, PipeBytes
<1>2. SenderInv => SenderInv'
  BY <1>1 DEF SenderInv, Writing, Rest, Size
<1>3. ASSUME NEW n, NEW m, PartInv(n, m) PROVE PartInv(n, m)'
  BY <1>1, <1>3 DEF PartInv, Writing, Rest, Size
<1> QED
  BY <1>1, <1>2, <1>3

\* A receiver calls, gets the lock, or is gone with the consumer: nobody has read more.
LEMMA ReceiversTurn ==
  ASSUME ChanInv,
         UNCHANGED <<stream, sizes, sender, write_open, written, received, first_error, torn>>,
         read_open' \in BOOLEAN, receiver' \in [Receivers -> Receiver],
         \A r \in Receivers :
           \/ ~ Reading(r)'
           \/ receiver'[r] = receiver[r]
           \/ /\ receiver'[r].at = "header" /\ receiver'[r].got = <<>>
              /\ receiver'[r].want = HeaderSize /\ \A q \in Receivers : ~ Reading(q),
         \A r \in Receivers : Reading(r) => receiver'[r] = receiver[r],
         \A r, q \in Receivers : Reading(r)' /\ Reading(q)' => r = q
  PROVE  ChanInv'
<1>1. ChanTypeOK /\ SenderInv /\ ReceivedInv /\ EndInv
  BY DEF ChanInv
<1>2. SendsMade' = SendsMade /\ PipeBytes' = PipeBytes /\ SenderInv'
  BY <1>1, SendersUntouched
<1>3. ChanTypeOK'
  BY <1>1, <1>2 DEF ChanTypeOK, Receiver
<1>4. ReceivedInv'
  BY <1>1 DEF ReceivedInv
<1>5. \A r \in Receivers : Reading(r)' =>
        \/ receiver'[r] = receiver[r] /\ Reading(r) /\ BytesRead(r)' = BytesRead(r)
        \/ /\ receiver'[r].at = "header" /\ receiver'[r].got = <<>>
           /\ receiver'[r].want = HeaderSize /\ BytesRead(r)' = 0 /\ \A q \in Receivers : ~ Reading(q)
  BY DEF Reading, BytesRead
<1>6. EndInv'
  BY <1>1, <1>5 DEF EndInv
<1>7. PICK n \in Nat, m \in Nat, start \in [1..(Len(written) + 1) -> Int] :
        PartInv(n, m) /\ PlaceInv(n, m, start) /\ ReaderInv(n, start)
  BY DEF ChanInv, PipeInv
<1>8. PartInv(n, m)' /\ PlaceInv(n, m, start)'
  BY <1>7, SendersUntouched DEF PlaceInv, Size
<1>9. ReaderInv(n, start)'
  <2>1. (Good' <=> Good) /\ Current(n)' = Current(n)
    BY DEF Good, Current
  <2>2. ASSUME NEW r \in Receivers, Reading(r)'
        PROVE  /\ Len(receiver'[r].got) <= receiver'[r].want
               /\ receiver'[r].at = "header" => receiver'[r].want = HeaderSize
               /\ Good =>
                    /\ start[Len(received) + 1] + BytesRead(r)' = 0
                    /\ IF receiver'[r].at = "header"
                       THEN \A k \in 1..Len(receiver'[r].got) : receiver'[r].got[k] = <<Current(n), k>>
                       ELSE /\ receiver'[r].of = Current(n) /\ receiver'[r].want = sizes[Current(n)]
                            /\ \A k \in 1..Len(receiver'[r].got) :
                                 receiver'[r].got[k] = <<Current(n), HeaderSize + k>>
    <3>1. CASE receiver'[r] = receiver[r] /\ Reading(r) /\ BytesRead(r)' = BytesRead(r)
      BY <1>7, <3>1 DEF ReaderInv
    <3>2. CASE /\ receiver'[r].at = "header" /\ receiver'[r].got = <<>>
               /\ receiver'[r].want = HeaderSize /\ BytesRead(r)' = 0 /\ \A q \in Receivers : ~ Reading(q)
      <4>1. Len(receiver'[r].got) = 0 /\ HeaderSize \in Nat
        BY <3>2, ChannelAssumption
      <4>2. Good => start[Len(received) + 1] = 0
        BY <1>7, <3>2 DEF ReaderInv
      <4> QED
        BY <3>2, <4>1, <4>2
    <3> QED
      BY <1>5, <2>2, <3>1, <3>2
  <2>3. Good /\ (\A r \in Receivers : ~ Reading(r)') => start[Len(received) + 1] = 0
    BY <1>7 DEF ReaderInv, Reading
  <2> QED
    BY <2>1, <2>2, <2>3 DEF ReaderInv
<1>10. PipeInv'
  BY <1>7, <1>8, <1>9 DEF PipeInv
<1> QED
  BY <1>2, <1>3, <1>4, <1>6, <1>10 DEF ChanInv

\* A receiver calls, and waits for the lock.
LEMMA ReceiveKeeps ==
  ASSUME ChanInv, NEW r \in Receivers, Receive(r) \/ ReceiveLocked(r)
  PROVE  ChanInv'
<1>1. ChanTypeOK /\ read_open \in BOOLEAN /\ receiver \in [Receivers -> Receiver]
  BY DEF ChanInv, ChanTypeOK, Receiver
<1>2. /\ UNCHANGED <<stream, sizes, sender, write_open, written, received, first_error, torn>>
      /\ read_open' = read_open
  BY DEF Receive, ReceiveLocked
<1>3. \A p, q \in Receivers : Reading(p) /\ Reading(q) => p = q
  BY DEF ChanInv, PipeInv, ReaderInv
<1>4. CASE Receive(r)
  <2> DEFINE new == [receiver[r] EXCEPT !.at = "wait"]
  <2>1. new \in Receiver /\ new.at = "wait"
    BY <1>1 DEF Receiver
  <2>2. receiver[r].at = "idle" /\ receiver' = [receiver EXCEPT ![r] = new]
    BY <1>4 DEF Receive
  <2> HIDE DEF new
  <2>3. /\ receiver' \in [Receivers -> Receiver] /\ receiver'[r].at = "wait"
        /\ \A q \in Receivers : q # r => receiver'[q] = receiver[q]
    BY <1>1, <2>1, <2>2
  <2>4. ~ Reading(r) /\ ~ Reading(r)' /\ \A q \in Receivers : Reading(q)' => Reading(q)
    BY <2>2, <2>3 DEF Reading
  <2> QED
    BY <1>1, <1>2, <1>3, <2>3, <2>4, ReceiversTurn
<1>5. CASE ReceiveLocked(r)
  <2> DEFINE new == [at |-> "header", got |-> <<>>, want |-> HeaderSize, of |-> 0]
  <2>1. new \in Receiver /\ new.at = "header" /\ new.got = <<>> /\ new.want = HeaderSize
    <3>1. <<>> \in Seq(PipeBytes) /\ HeaderSize \in Nat
      BY ChannelAssumption
    <3> QED
      BY <3>1 DEF Receiver
  <2>2. (\A q \in Receivers : ~ Reading(q)) /\ receiver' = [receiver EXCEPT ![r] = new]
    BY <1>5 DEF ReceiveLocked
  <2> HIDE DEF new
  <2>3. /\ receiver' \in [Receivers -> Receiver] /\ receiver'[r] = new
        /\ \A q \in Receivers : q # r => receiver'[q] = receiver[q]
    BY <1>1, <2>1, <2>2
  <2>4. \A q \in Receivers : Reading(q)' => q = r
    BY <2>2, <2>3 DEF Reading
  <2> QED
    BY <1>1, <1>2, <2>1, <2>2, <2>3, <2>4, ReceiversTurn
<1> QED
  BY <1>4, <1>5

\* The consumer is closed while nobody reads.
LEMMA CloseConsumerKeeps ==
  ASSUME ChanInv, CloseConsumer
  PROVE  ChanInv'
<1>1. /\ \A r \in Receivers : ~ Reading(r)
      /\ UNCHANGED <<stream, sizes, sender, write_open, written, received, first_error, torn>>
      /\ read_open' = FALSE
      /\ receiver' = [r \in Receivers |-> [at |-> "idle", got |-> <<>>, want |-> 0, of |-> 0]]
  BY DEF CloseConsumer
<1>2. receiver' \in [Receivers -> Receiver] /\ \A r \in Receivers : ~ Reading(r)'
  <2>1. [at |-> "idle", got |-> <<>>, want |-> 0, of |-> 0] \in Receiver
    BY DEF Receiver
  <2> QED
    BY <1>1, <2>1 DEF Reading
<1> QED
  BY <1>1, <1>2, ReceiversTurn

\* What is left of a sequence when some of it has been moved to another one.
LEMMA SomeMoved ==
  ASSUME NEW S, NEW s \in Seq(S), NEW f \in Seq(S), NEW c \in 0..Len(f),
         NEW t, t = s \o SubSeq(f, 1, c), NEW g, g = SubSeq(f, c + 1, Len(f))
  PROVE  /\ t \in Seq(S) /\ Len(t) = Len(s) + c
         /\ \A k \in 1..Len(s) : t[k] = s[k]
         /\ \A k \in (Len(s) + 1)..(Len(s) + c) : t[k] = f[k - Len(s)]
         /\ g \in Seq(S) /\ Len(g) = Len(f) - c
         /\ \A k \in 1..(Len(f) - c) : g[k] = f[k + c]
<1>1. t \in Seq(S) /\ Len(t) = Len(s) + c /\ \A k \in 1..Len(s) : t[k] = s[k]
  BY SMTT(30)
<1>2. \A k \in (Len(s) + 1)..(Len(s) + c) : t[k] = f[k - Len(s)]
  BY SMTT(30)
<1>3. g \in Seq(S) /\ Len(g) = Len(f) - c /\ \A k \in 1..(Len(f) - c) : g[k] = f[k + c]
  BY SMTT(30)
<1> QED
  BY <1>1, <1>2, <1>3

\* What a read does to the pipe and the receiver.
Moved(r, count) ==
  /\ Reading(r) /\ count \in Nat \ {0}
  /\ Len(receiver[r].got) + count <= receiver[r].want /\ count <= Len(stream)
  /\ UNCHANGED <<sizes, sender, write_open, read_open, written, received, first_error, torn>>
  /\ stream' \in Seq(PipeBytes) /\ Len(stream') = Len(stream) - count
  /\ \A k \in 1..(Len(stream) - count) : stream'[k] = stream[k + count]
  /\ receiver'[r].at = receiver[r].at /\ receiver'[r].want = receiver[r].want
  /\ receiver'[r].of = receiver[r].of /\ Len(receiver'[r].got) = Len(receiver[r].got) + count
  /\ \A k \in 1..Len(receiver[r].got) : receiver'[r].got[k] = receiver[r].got[k]
  /\ \A k \in (Len(receiver[r].got) + 1)..(Len(receiver[r].got) + count) :
       receiver'[r].got[k] = stream[k - Len(receiver[r].got)]
  /\ \A q \in Receivers : q # r => receiver'[q] = receiver[q]
  /\ receiver' \in [Receivers -> Receiver]

\* A read takes no more than is wanted, and no more than there is.
LEMMA ReadSomeFacts ==
  ASSUME ChanTypeOK, NEW r \in Receivers, NEW count \in 1..Capacity, ReadSome(r, count)
  PROVE  Moved(r, count)
<1> DEFINE taken == receiver[r].got
           more == taken \o SubSeq(stream, 1, count)
           new == [receiver[r] EXCEPT !.got = more]
<1>1. /\ Reading(r) /\ count <= receiver[r].want - Len(taken) /\ count <= Len(stream)
      /\ receiver' = [receiver EXCEPT ![r] = new]
      /\ stream' = SubSeq(stream, count + 1, Len(stream))
      /\ UNCHANGED <<sizes, sender, write_open, read_open, written, received, first_error, torn>>
  BY DEF ReadSome, Wants
<1>2. /\ receiver \in [Receivers -> Receiver] /\ receiver[r] \in Receiver
      /\ stream \in Seq(PipeBytes) /\ taken \in Seq(PipeBytes) /\ receiver[r].want \in Nat
  BY DEF ChanTypeOK, Receiver
<1>3. count \in Nat \ {0} /\ count \in 0..Len(stream) /\ Len(taken) + count <= receiver[r].want
  BY <1>1, <1>2, ChannelAssumption, SMTT(30)
<1>4. /\ more \in Seq(PipeBytes) /\ Len(more) = Len(taken) + count
      /\ \A k \in 1..Len(taken) : more[k] = taken[k]
      /\ \A k \in (Len(taken) + 1)..(Len(taken) + count) : more[k] = stream[k - Len(taken)]
      /\ stream' \in Seq(PipeBytes) /\ Len(stream') = Len(stream) - count
      /\ \A k \in 1..(Len(stream) - count) : stream'[k] = stream[k + count]
  <2>1. /\ stream \in Seq(PipeBytes) /\ taken \in Seq(PipeBytes) /\ count \in 0..Len(stream)
        /\ more = taken \o SubSeq(stream, 1, count) /\ stream' = SubSeq(stream, count + 1, Len(stream))
    BY <1>1, <1>2, <1>3
  <2> HIDE DEF taken, more
  <2> QED
    <3>1. /\ more \in Seq(PipeBytes) /\ Len(more) = Len(taken) + count
          /\ \A k \in 1..Len(taken) : more[k] = taken[k]
      BY <2>1, SomeMoved
    <3>2. \A k \in (Len(taken) + 1)..(Len(taken) + count) : more[k] = stream[k - Len(taken)]
      BY <2>1, SomeMoved
    <3>3. /\ stream' \in Seq(PipeBytes) /\ Len(stream') = Len(stream) - count
          /\ \A k \in 1..(Len(stream) - count) : stream'[k] = stream[k + count]
      BY <2>1, SomeMoved
    <3> QED
      BY <3>1, <3>2, <3>3
<1> HIDE DEF more
<1>5. /\ new \in Receiver /\ new.at = receiver[r].at /\ new.got = more
      /\ new.want = receiver[r].want /\ new.of = receiver[r].of
  BY <1>2, <1>4 DEF Receiver
<1> HIDE DEF new
<1>6. /\ receiver' \in [Receivers -> Receiver] /\ receiver'[r] = new
      /\ \A q \in Receivers : q # r => receiver'[q] = receiver[q]
  BY <1>1, <1>2, <1>5
<1> QED
  BY <1>1, <1>3, <1>4, <1>5, <1>6 DEF Moved

\* The next bytes in the pipe are the next ones of the entry being received.
LEMMA NextBytes ==
  ASSUME ChanTypeOK, ReceivedInv, NEW n \in Nat, NEW m \in Nat,
         NEW start \in [1..(Len(written) + 1) -> Int], PartInv(n, m), PlaceInv(n, m, start),
         Good, NEW c \in Nat, start[Len(received) + 1] + c = 0,
         NEW k \in Nat, k > c, k - c <= Len(stream),
         Len(received) < Len(written) => k <= Size(Current(n))
  PROVE  stream[k - c] = <<Current(n), k>>
<1>1. Len(received) \in Nat /\ Len(written) \in Nat /\ Len(stream) \in Nat
  BY DEF ChanTypeOK
<1>2. CASE Len(received) < Len(written)
  <2>1. /\ Current(n) \in SendsMade
        /\ \A j \in 1..Size(Current(n)) : j > c => stream[j - c] = <<Current(n), j>>
    BY <1>2, BytesToRead, SMTT(30)
  <2>2. k \in 1..Size(Current(n))
    BY <1>2, <2>1, SizeFacts
  <2> QED
    BY <2>1, <2>2
<1>3. CASE Len(received) = Len(written)
  <2>1. Current(n) = n /\ Len(stream) = m - c
    BY <1>3, BytesToRead
  <2>2. start[Len(written) + 1] + c = 0 /\ torn # "middle"
    BY <1>1, <1>3 DEF Good
  <2>3. k \in 1..m
    BY <2>1
  <2> DEFINE last == start[Len(written) + 1]
  <2>4. last \in Int /\ last + c = 0 /\ (1 <= last + k => stream[last + k] = <<n, k>>)
    BY <1>1, <2>2, <2>3, SMTT(30) DEF PlaceInv
  <2> HIDE DEF last
  <2>5. last + k = k - c /\ 1 <= last + k
    BY <2>4
  <2> QED
    BY <2>1, <2>4, <2>5
<1>4. Len(received) <= Len(written)
  BY BytesToRead
<1> QED
  BY <1>1, <1>2, <1>3, <1>4

\* A receiver reads on.
LEMMA ReadSomeKeeps ==
  ASSUME ChanInv, NEW r \in Receivers, NEW count \in 1..Capacity, ReadSome(r, count)
  PROVE  ChanInv'
<1>1. ChanTypeOK /\ SenderInv /\ ReceivedInv /\ EndInv
  BY DEF ChanInv
<1>2. Moved(r, count)
  BY <1>1, ReadSomeFacts
<1>3. /\ Reading(r) /\ count \in Nat \ {0}
      /\ Len(receiver[r].got) + count <= receiver[r].want /\ count <= Len(stream)
      /\ UNCHANGED <<sizes, sender, write_open, read_open, written, received, first_error, torn>>
      /\ Len(stream') = Len(stream) - count
      /\ receiver'[r].at = receiver[r].at /\ receiver'[r].want = receiver[r].want
      /\ receiver'[r].of = receiver[r].of /\ Len(receiver'[r].got) = Len(receiver[r].got) + count
      /\ \A q \in Receivers : q # r => receiver'[q] = receiver[q]
  BY <1>2 DEF Moved
<1>4. SendsMade' = SendsMade /\ PipeBytes' = PipeBytes /\ SenderInv'
  BY <1>1, <1>3, SendersUntouched
<1>5. ChanTypeOK'
  <2>1. stream' \in Seq(PipeBytes) /\ receiver' \in [Receivers -> Receiver]
    BY <1>2 DEF Moved
  <2> QED
    BY <1>1, <1>3, <1>4, <2>1 DEF ChanTypeOK, Receiver
<1>6. ReceivedInv'
  BY <1>1, <1>3 DEF ReceivedInv
<1>7. EndInv'
  <2>1. stream # <<>>
    BY <1>3
  <2> QED
    BY <1>1, <1>3, <2>1 DEF EndInv
<1>8. PICK n \in Nat, m \in Nat, start \in [1..(Len(written) + 1) -> Int] :
        PartInv(n, m) /\ PlaceInv(n, m, start) /\ ReaderInv(n, start)
  BY DEF ChanInv, PipeInv
<1>9. PartInv(n, m)'
  BY <1>3, <1>8, SendersUntouched
<1> DEFINE L == Len(written)
           size == Len(stream)
<1>10. /\ L \in Nat /\ size \in Nat /\ Len(received) \in Nat /\ Len(receiver[r].got) \in Nat
       /\ count \in Nat \ {0} /\ count <= size /\ Len(stream') = size - count /\ written' = written
  BY <1>1, <1>3 DEF ChanTypeOK
<1>11. PICK start2 \in [1..(L + 1) -> Int] : \A i \in 1..(L + 1) : start2[i] = start[i] - count
  <2> DEFINE f == [i \in 1..(L + 1) |-> start[i] - count]
  <2>1. f \in [1..(L + 1) -> Int] /\ \A i \in 1..(L + 1) : f[i] = start[i] - count
    BY <1>3
  <2> HIDE DEF f
  <2> QED
    BY <2>1
<1>12. PlaceInv(n, m, start2)'
  <2>1. \A j \in 1..(size - count) : stream'[j] = stream[j + count]
    BY <1>2 DEF Moved
  <2>2. ASSUME NEW i \in 1..L
        PROVE  /\ start2[i + 1] = start2[i] + Size(written[i])
               /\ \A k \in 1..Size(written[i]) :
                    1 <= start2[i] + k =>
                      start2[i] + k <= Len(stream') /\ stream'[start2[i] + k] = <<written[i], k>>
    <3>1. /\ written[i] \in SendsMade /\ i \in 1..(L + 1) /\ i + 1 \in 1..(L + 1)
          /\ start[i] \in Int /\ start2[i] \in Int /\ start[i + 1] \in Int
      <4>1. i \in 1..(L + 1) /\ i + 1 \in 1..(L + 1)
        BY <1>10
      <4>2. written[i] \in SendsMade
        BY <1>1 DEF ChanTypeOK
      <4> QED
        BY <4>1, <4>2
    <3>2. /\ start2[i] = start[i] - count /\ start2[i + 1] = start[i + 1] - count
          /\ Size(written[i]) \in Nat
      BY <1>1, <1>11, <3>1, SizeFacts
    <3>3. start[i + 1] = start[i] + Size(written[i])
      BY <1>8 DEF PlaceInv
    <3> DEFINE a == start[i]
               b == start2[i]
               len == Size(written[i])
    <3>4. ASSUME NEW k \in 1..len, 1 <= b + k
          PROVE  b + k <= Len(stream') /\ stream'[b + k] = <<written[i], k>>
      <4>1. a \in Int /\ b \in Int /\ b = a - count /\ len \in Nat /\ count \in Nat
        BY <1>10, <3>1, <3>2
      <4>2. 1 <= a + k => a + k <= size /\ stream[a + k] = <<written[i], k>>
        BY <1>8 DEF PlaceInv
      <4> HIDE DEF a, b, len
      <4>3. 1 <= a + k /\ (b + k) + count = a + k
        BY <3>4, <4>1
      <4>4. b + k \in 1..(size - count) /\ b + k <= size - count
        BY <1>10, <3>4, <4>1, <4>2, <4>3
      <4>5. stream'[b + k] = stream[(b + k) + count]
        BY <2>1, <4>4
      <4> QED
        BY <1>10, <4>2, <4>3, <4>4, <4>5
    <3>5. start2[i + 1] = start2[i] + Size(written[i])
      BY <1>10, <3>1, <3>2, <3>3
    <3> QED
      BY <3>4, <3>5
  <2>3. ASSUME torn # "middle"
        PROVE  /\ Len(stream') = start2[L + 1] + m
               /\ \A k \in 1..m :
                    1 <= start2[L + 1] + k => stream'[start2[L + 1] + k] = <<n, k>>
    <3>1. start2[L + 1] = start[L + 1] - count /\ start[L + 1] \in Int
      BY <1>10, <1>11
    <3>2. size = start[L + 1] + m
      BY <1>8, <2>3 DEF PlaceInv
    <3>3. ASSUME NEW k \in 1..m, 1 <= start2[L + 1] + k
          PROVE  stream'[start2[L + 1] + k] = <<n, k>>
      <4>1. 1 <= start[L + 1] + k /\ (start2[L + 1] + k) + count = start[L + 1] + k
        BY <1>10, <3>1, <3>3
      <4>2. stream[start[L + 1] + k] = <<n, k>>
        BY <1>8, <2>3, <4>1 DEF PlaceInv
      <4>3. start2[L + 1] + k \in 1..(size - count)
        BY <1>10, <3>1, <3>2, <3>3
      <4> QED
        BY <2>1, <4>1, <4>2, <4>3
    <3> DEFINE a == start[L + 1]
               b == start2[L + 1]
               len == Len(stream')
    <3>4. len = b + m
      <4>1. len = size - count /\ size = a + m /\ b = a - count /\ a \in Int /\ count \in Nat
        BY <1>10, <3>1, <3>2
      <4> HIDE DEF a, b, len, size
      <4> QED
        BY <4>1
    <3> HIDE DEF size
    <3> QED
      BY <3>3, <3>4
  <2> QED
    BY <1>3, <2>2, <2>3 DEF PlaceInv, Size
<1>13. ReaderInv(n, start2)'
  <2>1. (Good' <=> Good) /\ Current(n)' = Current(n)
    BY <1>3 DEF Good, Current
  <2>2. \A q \in Receivers : Reading(q) <=> q = r
    BY <1>3, <1>8 DEF ReaderInv
  <2>3. \A q \in Receivers : Reading(q)' <=> q = r
    BY <1>3, <2>2 DEF Reading
  <2> DEFINE taken == receiver[r].got
             c == BytesRead(r)
             more == receiver'[r].got
  <2>4. /\ receiver[r].at = "header" => c = Len(taken) /\ receiver[r].want = HeaderSize
        /\ receiver[r].at # "header" => c = HeaderSize + Len(taken)
        /\ BytesRead(r)' = c + count /\ c \in Nat /\ HeaderSize \in Nat
    <3>1. receiver[r].at = "header" => receiver[r].want = HeaderSize
      BY <1>3, <1>8 DEF ReaderInv
    <3>2. HeaderSize \in Nat /\ Len(taken) \in Nat /\ Len(more) = Len(taken) + count /\ count \in Nat
      BY <1>3, <1>10, ChannelAssumption
    <3>3. /\ c = IF receiver[r].at = "header" THEN Len(taken) ELSE HeaderSize + Len(taken)
          /\ BytesRead(r)' = IF receiver[r].at = "header" THEN Len(more) ELSE HeaderSize + Len(more)
      BY <1>3 DEF BytesRead
    <3> HIDE DEF taken, more, c
    <3> QED
      BY <3>1, <3>2, <3>3
  <2>5. /\ \A k \in 1..Len(taken) : more[k] = taken[k]
        /\ \A k \in (Len(taken) + 1)..(Len(taken) + count) : more[k] = stream[k - Len(taken)]
    BY <1>2 DEF Moved
  <2>6. ASSUME Good
        PROVE  /\ start2[Len(received) + 1] + BytesRead(r)' = 0
               /\ IF receiver[r].at = "header"
                  THEN \A k \in 1..Len(more) : more[k] = <<Current(n), k>>
                  ELSE /\ receiver[r].of = Current(n) /\ receiver[r].want = sizes[Current(n)]
                       /\ \A k \in 1..Len(more) : more[k] = <<Current(n), HeaderSize + k>>
    <3>1. start[Len(received) + 1] + c = 0
      BY <1>3, <1>8, <2>6 DEF ReaderInv
    <3>2. Len(received) + 1 \in 1..(L + 1)
      <4>1. Len(received) <= L
        BY <1>1, <1>10, <2>6 DEF Good, ReceivedInv
      <4> QED
        BY <1>10, <4>1
    <3>3. start2[Len(received) + 1] + BytesRead(r)' = 0
      <4>1. start[Len(received) + 1] \in Int /\ start2[Len(received) + 1] = start[Len(received) + 1] - count
        BY <1>11, <3>2
      <4> QED
        BY <1>10, <2>4, <3>1, <4>1
    <3>4. /\ receiver[r].at = "header" => \A k \in 1..Len(taken) : taken[k] = <<Current(n), k>>
          /\ receiver[r].at # "header" =>
               /\ receiver[r].of = Current(n) /\ receiver[r].want = sizes[Current(n)]
               /\ \A k \in 1..Len(taken) : taken[k] = <<Current(n), HeaderSize + k>>
      BY <1>3, <1>8, <2>6 DEF ReaderInv
    <3>5. Len(received) < L => Current(n) \in SendsMade /\ Size(Current(n)) = HeaderSize + sizes[Current(n)]
                               /\ sizes[Current(n)] \in Nat
      <4>1. ASSUME Len(received) < L PROVE Current(n) \in SendsMade
        BY <1>1, <1>8, <2>4, <2>6, <3>1, <4>1, BytesToRead
      <4> QED
        BY <1>1, <4>1, SizeFacts DEF Size
    <3>6. ASSUME NEW k \in (Len(taken) + 1)..(Len(taken) + count)
          PROVE  more[k] = <<Current(n), k + (c - Len(taken))>>
      <4> DEFINE j == k + (c - Len(taken))
      <4>1. /\ more[k] = stream[j - c] /\ j \in Nat /\ j > c /\ j - c <= Len(stream)
            /\ k <= Len(taken) + count
        <5>1. more[k] = stream[k - Len(taken)]
          BY <2>5
        <5>2. Len(taken) \in Nat /\ count \in Nat /\ count <= Len(stream) /\ c \in Nat /\ Len(stream) \in Nat
          BY <1>10, <2>4
        <5>3. HeaderSize \in Nat /\ (c = Len(taken) \/ c = HeaderSize + Len(taken))
          BY <2>4
        <5> HIDE DEF taken, more, c
        <5>4. j - c = k - Len(taken) /\ j \in Nat /\ j > c /\ j - c <= Len(stream) /\ k <= Len(taken) + count
          BY <5>2, <5>3
        <5> QED
          BY <5>1, <5>4
      <4>2. Len(received) < L => j <= Size(Current(n))
        <5> DEFINE size2 == Size(Current(n))
                   payload == sizes[Current(n)]
                   want == receiver[r].want
                   len == Len(taken)
                   header == receiver[r].at = "header"
        <5>1. Len(received) < L => size2 = HeaderSize + payload /\ payload \in Nat
          BY <3>5
        <5>2. len + count <= want /\ want \in Nat /\ len \in Nat /\ HeaderSize \in Nat
          BY <1>1, <1>3, <1>10, <2>4 DEF ChanTypeOK
        <5>3. IF header THEN want = HeaderSize /\ j = k + (len - len)
                        ELSE want = payload /\ j = k + ((HeaderSize + len) - len)
          BY <2>4, <3>4
        <5>4. k <= len + count
          BY <4>1
        <5> HIDE DEF size2, payload, want, len, header, j
        <5>5. Len(received) < L => j <= size2
          BY <1>10, <5>1, <5>2, <5>3, <5>4
        <5> QED
          BY <5>5 DEF size2
      <4> HIDE DEF j
      <4>3. stream[j - c] = <<Current(n), j>>
        BY <1>1, <1>8, <2>4, <2>6, <3>1, <4>1, <4>2, NextBytes, ZenonT(40)
      <4> QED
        BY <4>1, <4>3 DEF j
    <3> DEFINE off == c - Len(taken)
    <3>7. \A k \in 1..Len(more) : k \in 1..Len(taken) \/ k \in (Len(taken) + 1)..(Len(taken) + count)
      BY <1>3, <1>10
    <3>8. off = IF receiver[r].at = "header" THEN 0 ELSE HeaderSize
      BY <1>10, <2>4, SMTT(30)
    <3>9. CASE receiver[r].at = "header"
      <4>1. \A k \in (Len(taken) + 1)..(Len(taken) + count) : k + off = k
        BY <1>10, <3>8, <3>9
      <4> HIDE DEF taken, more, off
      <4>2. \A k \in 1..Len(more) : more[k] = <<Current(n), k>>
        BY <2>5, <3>4, <3>6, <3>7, <3>9, <4>1 DEF off
      <4> QED
        BY <3>3, <3>9, <4>2
    <3>10. CASE receiver[r].at # "header"
      <4>1. \A k \in (Len(taken) + 1)..(Len(taken) + count) : k + off = HeaderSize + k
        BY <1>10, <2>4, <3>8, <3>10
      <4> HIDE DEF taken, more, off
      <4>2. \A k \in 1..Len(more) : more[k] = <<Current(n), HeaderSize + k>>
        BY <2>5, <3>4, <3>6, <3>7, <3>10, <4>1 DEF off
      <4> QED
        BY <3>3, <3>4, <3>10, <4>2
    <3> QED
      BY <3>9, <3>10
  <2> QED
    <3>1. Len(more) <= receiver[r].want
      BY <1>3
    <3>2. receiver[r].at = "header" => receiver[r].want = HeaderSize
      BY <2>4
    <3>3. /\ UNCHANGED <<sizes, written, received>> /\ receiver'[r].at = receiver[r].at
          /\ receiver'[r].want = receiver[r].want /\ receiver'[r].of = receiver[r].of
      BY <1>3
    <3> QED
      BY <2>1, <2>3, <2>6, <3>1, <3>2, <3>3 DEF ReaderInv
<1>14. PipeInv'
  BY <1>3, <1>8, <1>9, <1>11, <1>12, <1>13 DEF PipeInv
<1> QED
  BY <1>4, <1>5, <1>6, <1>7, <1>14 DEF ChanInv

\* A header that has been read tells the size of the entry that comes next.
LEMMA HeaderReadKeeps ==
  ASSUME ChanInv, NEW r \in Receivers, HeaderRead(r)
  PROVE  ChanInv'
<1> DEFINE taken == receiver[r].got
           of == IF IsHeader(taken) THEN taken[1][1] ELSE 0
<1>1. ChanTypeOK /\ SenderInv /\ ReceivedInv /\ EndInv
  BY DEF ChanInv
<1>2. /\ receiver[r].at = "header" /\ receiver[r].want - Len(taken) = 0 /\ Reading(r)
      /\ UNCHANGED <<stream, sizes, sender, write_open, read_open, written, received, first_error, torn>>
  BY DEF HeaderRead, Wants, Reading
<1>3. PICK size \in (IF of = 0 THEN EntrySizes ELSE {sizes[of]}) :
        receiver' = [receiver EXCEPT ![r] = [at |-> "entry", got |-> <<>>, want |-> size, of |-> of]]
  BY DEF HeaderRead
<1>4. PICK n \in Nat, m \in Nat, start \in [1..(Len(written) + 1) -> Int] :
        PartInv(n, m) /\ PlaceInv(n, m, start) /\ ReaderInv(n, start)
  BY DEF ChanInv, PipeInv
<1>5. /\ receiver[r].want = HeaderSize /\ HeaderSize \in Nat \ {0} /\ Len(taken) = HeaderSize
      /\ taken \in Seq(PipeBytes) /\ receiver \in [Receivers -> Receiver]
      /\ \A q \in Receivers : Reading(q) => q = r
  <2>1. receiver[r].want = HeaderSize /\ \A q \in Receivers : Reading(q) => q = r
    BY <1>2, <1>4 DEF ReaderInv
  <2>2. taken \in Seq(PipeBytes) /\ receiver \in [Receivers -> Receiver]
    BY <1>1 DEF ChanTypeOK, Receiver
  <2>3. HeaderSize \in Nat \ {0} /\ Len(taken) \in Nat
    BY <2>2, ChannelAssumption
  <2>4. Len(taken) = HeaderSize
    BY <1>2, <2>1, <2>3
  <2> QED
    BY <2>1, <2>2, <2>3, <2>4
<1>6. of \in SendsMade \union {0}
  <2>1. 1 \in 1..Len(taken)
    BY <1>5
  <2>2. taken[1] \in PipeBytes
    BY <1>5, <2>1
  <2> QED
    BY <2>2 DEF PipeBytes
<1>7. size \in Nat
  <2>1. CASE of = 0
    BY <1>3, <2>1, ChannelAssumption
  <2>2. CASE of # 0
    BY <1>1, <1>3, <1>6, <2>2, SizeFacts
  <2> QED
    BY <2>1, <2>2
<1> DEFINE new == [at |-> "entry", got |-> <<>>, want |-> size, of |-> of]
<1>8. /\ new \in Receiver /\ new.at = "entry" /\ new.got = <<>> /\ new.want = size /\ new.of = of
      /\ Len(new.got) = 0 /\ receiver' = [receiver EXCEPT ![r] = new]
  <2> HIDE DEF of
  <2> QED
    BY <1>3, <1>6, <1>7 DEF Receiver
<1> HIDE DEF new
<1>9. /\ receiver' \in [Receivers -> Receiver] /\ receiver'[r] = new
      /\ \A q \in Receivers : q # r => receiver'[q] = receiver[q]
  BY <1>5, <1>8
<1>10. \A q \in Receivers : Reading(q)' <=> q = r
  BY <1>2, <1>5, <1>8, <1>9 DEF Reading
<1>11. SendsMade' = SendsMade /\ PipeBytes' = PipeBytes /\ SenderInv' /\ PartInv(n, m)'
  BY <1>1, <1>2, <1>4, SendersUntouched
<1>12. ChanTypeOK'
  BY <1>1, <1>2, <1>9, <1>11 DEF ChanTypeOK, Receiver
<1>13. ReceivedInv' /\ PlaceInv(n, m, start)'
  BY <1>1, <1>2, <1>4 DEF ReceivedInv, PlaceInv, Size
<1>14. EndInv'
  <2>1. taken # <<>>
    BY <1>5
  <2> QED
    BY <1>1, <1>2, <2>1 DEF EndInv
<1>15. ASSUME Good
       PROVE  of = Current(n) /\ size = sizes[Current(n)] /\ start[Len(received) + 1] + HeaderSize = 0
  <2> DEFINE id == Current(n)
  <2>1. \A k \in 1..Len(taken) : taken[k] = <<id, k>>
    BY <1>2, <1>4, <1>15 DEF ReaderInv
  <2>2. start[Len(received) + 1] + HeaderSize = 0
    BY <1>2, <1>4, <1>5, <1>15 DEF ReaderInv, BytesRead
  <2>3. id \in SendsMade
    BY <1>1, <1>2, <1>4, <1>5, <1>15, EntryIsMade DEF BytesRead
  <2>4. id # 0
    BY <2>3 DEF SendsMade
  <2> HIDE DEF id, taken
  <2>5. taken[1][1] = id /\ \A k \in DOMAIN taken : taken[k] = <<taken[1][1], k>>
    <3>1. DOMAIN taken = 1..Len(taken) /\ 1 \in 1..Len(taken)
      BY <1>5
    <3>2. taken[1] = <<id, 1>>
      BY <2>1, <3>1
    <3>3. taken[1][1] = id
      BY <3>2
    <3> QED
      BY <2>1, <3>1, <3>3
  <2>6. of = id
    BY <2>5 DEF IsHeader
  <2> HIDE DEF of
  <2>7. size = sizes[id]
    BY <1>3, <2>4, <2>6
  <2> QED
    BY <2>2, <2>6, <2>7 DEF id
<1>16. ReaderInv(n, start)'
  <2>1. (Good' <=> Good) /\ Current(n)' = Current(n)
    BY <1>2 DEF Good, Current
  <2>2. BytesRead(r)' = HeaderSize
    BY <1>5, <1>8, <1>9 DEF BytesRead
  <2>3. Len(receiver'[r].got) <= receiver'[r].want
    BY <1>7, <1>8, <1>9
  <2>4. \A k \in 1..Len(receiver'[r].got) : FALSE
    BY <1>8, <1>9
  <2> HIDE DEF of, taken
  <2> QED
    BY <1>2, <1>8, <1>9, <1>10, <1>15, <2>1, <2>2, <2>3, <2>4 DEF ReaderInv
<1>17. PipeInv'
  BY <1>2, <1>4, <1>11, <1>13, <1>16 DEF PipeInv
<1> QED
  BY <1>11, <1>12, <1>13, <1>14, <1>17 DEF ChanInv

\* What the end of a sequence is.
LEMMA EndOfSeq ==
  ASSUME NEW S, NEW s \in Seq(S), NEW a \in Nat, NEW b \in Nat, Len(s) = a + b,
         NEW t, t = SubSeq(s, a + 1, a + b)
  PROVE  t \in Seq(S) /\ Len(t) = b /\ \A k \in 1..b : t[k] = s[a + k]
<1>1. DOMAIN t = 1..b /\ Len(t) = b /\ t \in Seq(S)
  OBVIOUS
<1>2. ASSUME NEW k \in 1..b PROVE t[k] = s[a + k]
  OBVIOUS
<1> QED
  BY <1>1, <1>2

\* Sequences of the same elements are the same.
LEMMA SameSeq ==
  ASSUME NEW S, NEW s \in Seq(S), NEW t \in Seq(S), Len(s) = Len(t),
         \A k \in 1..Len(s) : s[k] = t[k]
  PROVE  s = t
<1>1. s = [k \in 1..Len(s) |-> s[k]] /\ t = [k \in 1..Len(t) |-> t[k]]
  OBVIOUS
<1> QED
  BY <1>1

\* An entry that was read whole before anything went wrong is the one that comes next.
LEMMA GoodEntry ==
  ASSUME ChanTypeOK, ReceivedInv, NEW n \in Nat, NEW m \in Nat,
         NEW start \in [1..(Len(written) + 1) -> Int], PartInv(n, m), PlaceInv(n, m, start),
         ReaderInv(n, start), Good, NEW r \in Receivers, receiver[r].at = "entry", Wants(r) = 0
  PROVE  /\ Len(received) < Len(written) /\ receiver[r].of = written[Len(received) + 1]
         /\ receiver[r].of # 0 /\ start[Len(received) + 2] = 0
         /\ receiver[r].got = SubSeq(Whole(receiver[r].of), HeaderSize + 1,
                                     HeaderSize + sizes[receiver[r].of])
<1> DEFINE id == Current(n)
           taken == receiver[r].got
           L == Len(written)
           R == Len(received)
<1>1. /\ Reading(r) /\ receiver[r].of = id /\ receiver[r].want = sizes[id]
      /\ \A k \in 1..Len(taken) : taken[k] = <<id, HeaderSize + k>>
      /\ start[R + 1] + BytesRead(r) = 0 /\ BytesRead(r) = HeaderSize + Len(taken)
  BY DEF Reading, ReaderInv, BytesRead
<1>2. /\ L \in Nat /\ R \in Nat /\ Len(stream) \in Nat /\ taken \in Seq(PipeBytes)
      /\ receiver[r].want \in Nat /\ receiver[r].want - Len(taken) = 0
  BY DEF ChanTypeOK, Wants
<1>3. id \in SendsMade /\ BytesRead(r) \in Nat
  BY <1>1, EntryIsMade
<1>4. Len(taken) = sizes[id] /\ Size(id) = HeaderSize + sizes[id] /\ sizes[id] \in Nat /\ HeaderSize \in Nat
  <2>1. Len(taken) = sizes[id]
    BY <1>1, <1>2
  <2> QED
    BY <1>3, <2>1, SizeFacts DEF Size
<1>5. start[R + 1] + Size(id) = 0 /\ Size(id) \in Nat
  BY <1>1, <1>3, <1>4, SizeFacts
<1>6. R < L
  <2> SUFFICES ASSUME ~ (R < L) PROVE FALSE
    OBVIOUS
  <2>1. R = L
    BY <1>2 DEF Good, ReceivedInv
  <2>2. torn # "middle" /\ id = n
    BY <1>2, <2>1 DEF Good, Current
  <2>3. Len(stream) = m - Size(id)
    BY <1>5, <2>1, BytesToRead
  <2>4. m > 0 => m < Size(id)
    BY <2>2 DEF PartInv
  <2>5. Size(id) > 0
    BY <1>3, SizeFacts
  <2> QED
    BY <1>2, <1>5, <2>3, <2>4, <2>5
<1>7. id = written[R + 1]
  BY <1>6 DEF Current
<1>8. start[R + 2] = 0
  <2>1. R + 1 \in 1..L /\ (R + 1) + 1 = R + 2
    BY <1>2, <1>6
  <2>2. start[(R + 1) + 1] = start[R + 1] + Size(written[R + 1])
    BY <2>1 DEF PlaceInv
  <2> QED
    BY <1>5, <1>7, <2>1, <2>2
<1>9. taken = SubSeq(Whole(id), HeaderSize + 1, HeaderSize + sizes[id])
  <2> DEFINE whole == Whole(id)
             len == sizes[id]
             part == SubSeq(whole, HeaderSize + 1, HeaderSize + len)
  <2>1. whole \in Seq(PipeBytes) /\ Len(whole) = HeaderSize + len
        /\ \A k \in 1..(HeaderSize + len) : whole[k] = <<id, k>>
    <3>1. 0 \in Nat /\ 0 < Size(id) /\ Size(id) - 0 = HeaderSize + len
      BY <1>3, <1>4, SizeFacts
    <3>2. Whole(id) = Rest(id, 0)
      BY <1>3, <3>1, RestFacts
    <3>3. Whole(id) \in Seq(PipeBytes) /\ Len(Whole(id)) = Size(id) - 0
      BY <1>3, <3>1, <3>2, RestFacts
    <3> QED
      BY <1>4, <3>1, <3>3 DEF Whole
  <2>2. len \in Nat /\ HeaderSize \in Nat
    BY <1>4
  <2> HIDE DEF whole, len
  <2>3. /\ part \in Seq(PipeBytes) /\ Len(part) = len
        /\ \A k \in 1..len : part[k] = whole[HeaderSize + k]
    BY <2>1, <2>2, EndOfSeq
  <2>4. \A k \in 1..len : part[k] = <<id, HeaderSize + k>>
    <3> SUFFICES ASSUME NEW k \in 1..len PROVE part[k] = <<id, HeaderSize + k>>
      OBVIOUS
    <3>1. HeaderSize + k \in 1..(HeaderSize + len)
      BY <2>2
    <3>2. part[k] = whole[HeaderSize + k]
      BY <2>3
    <3>3. whole[HeaderSize + k] = <<id, HeaderSize + k>>
      BY <2>1, <3>1
    <3> QED
      BY <3>2, <3>3
  <2>5. Len(taken) = len /\ \A k \in 1..len : taken[k] = <<id, HeaderSize + k>>
    BY <1>1, <1>4 DEF len
  <2> HIDE DEF part, taken
  <2>6. \A k \in 1..len : taken[k] = part[k]
    BY <2>4, <2>5
  <2> QED
    <3>1. taken = part
      BY <1>2, <2>3, <2>5, <2>6, SameSeq
    <3> QED
      BY <3>1 DEF part, whole, len
<1>10. id # 0
  BY <1>3 DEF SendsMade
<1> QED
  BY <1>1, <1>6, <1>7, <1>8, <1>9, <1>10

\* Once something has gone wrong, a receiver has all that was written.
LEMMA BadEntry ==
  ASSUME ChanTypeOK, ReceivedInv, EndInv, ~ Good, NEW r \in Receivers, receiver[r].at = "entry"
  PROVE  torn = "middle" /\ Len(received) >= Len(written)
<1>1. Reading(r)
  BY DEF Reading
<1>2. Len(received) \in Nat /\ Len(written) \in Nat
  BY DEF ChanTypeOK
<1>3. CASE first_error = "none"
  BY <1>2, <1>3 DEF Good
<1>4. CASE first_error # "none"
  BY <1>1, <1>4 DEF EndInv
<1> QED
  BY <1>3, <1>4

\* A Receive that returns leaves the receiver idle.
LEMMA Returned ==
  ASSUME ChanTypeOK, NEW r \in Receivers, Reading(r), \A q \in Receivers : Reading(q) => q = r,
         NEW e \in {"none", "EOC", "DataLoss", "errno"}, ReceiveReturns(r, e)
  PROVE  /\ receiver' \in [Receivers -> Receiver] /\ \A q \in Receivers : ~ Reading(q)'
         /\ first_error' = IF first_error = "none" THEN e ELSE first_error
         /\ first_error' \in {"none", "EOC", "DataLoss", "errno"}
<1> DEFINE new == [receiver[r] EXCEPT !.at = "idle"]
<1>1. receiver \in [Receivers -> Receiver] /\ first_error \in {"none", "EOC", "DataLoss", "errno"}
  BY DEF ChanTypeOK, Receiver
<1>2. new \in Receiver /\ new.at = "idle"
  BY <1>1 DEF Receiver
<1>3. /\ receiver' = [receiver EXCEPT ![r] = new]
      /\ first_error' = IF first_error = "none" THEN e ELSE first_error
  BY DEF ReceiveReturns
<1> HIDE DEF new
<1>4. /\ receiver' \in [Receivers -> Receiver] /\ receiver'[r].at = "idle"
      /\ \A q \in Receivers : q # r => receiver'[q] = receiver[q]
  BY <1>1, <1>2, <1>3
<1>5. \A q \in Receivers : ~ Reading(q)'
  BY <1>4 DEF Reading
<1> QED
  BY <1>1, <1>3, <1>4, <1>5

\* What a Receive returns: the next entry, or after an entry that was cut short anything.
LEMMA EntryReadFacts ==
  ASSUME ChanTypeOK, ReceivedInv, EndInv, NEW n \in Nat, NEW m \in Nat,
         NEW start \in [1..(Len(written) + 1) -> Int], PartInv(n, m), PlaceInv(n, m, start),
         ReaderInv(n, start), NEW r \in Receivers, EntryRead(r)
  PROVE  /\ UNCHANGED <<stream, sizes, sender, write_open, read_open, written, torn>>
         /\ receiver' \in [Receivers -> Receiver] /\ \A q \in Receivers : ~ Reading(q)'
         /\ first_error' \in {"none", "EOC", "DataLoss", "errno"}
         /\ \/ /\ Good /\ Len(received) < Len(written) /\ start[Len(received) + 2] = 0
               /\ received' = Append(received, written[Len(received) + 1])
               /\ first_error' = first_error
            \/ /\ ~ Good /\ torn = "middle" /\ Len(received) >= Len(written)
               /\ \/ \E e \in SendsMade \union {0} : received' = Append(received, e)
                  \/ received' = received
<1> DEFINE id == receiver[r].of
           genuine == /\ id # 0
                      /\ receiver[r].got = SubSeq(Whole(id), HeaderSize + 1, HeaderSize + sizes[id])
<1>1. /\ receiver[r].at = "entry" /\ Wants(r) = 0
      /\ UNCHANGED <<stream, sizes, sender, write_open, read_open, written, torn>>
  BY DEF EntryRead
<1>2. \/ received' = Append(received, IF genuine THEN id ELSE 0) /\ ReceiveReturns(r, "none")
      \/ ~ genuine /\ ReceiveReturns(r, "DataLoss") /\ received' = received
  BY DEF EntryRead
<1>3. Reading(r) /\ \A q \in Receivers : Reading(q) => q = r
  BY <1>1 DEF Reading, ReaderInv
<1>4. /\ receiver' \in [Receivers -> Receiver] /\ \A q \in Receivers : ~ Reading(q)'
      /\ first_error' \in {"none", "EOC", "DataLoss", "errno"}
      /\ ReceiveReturns(r, "none") => (first_error = "none" => first_error' = "none")
  <2>1. CASE ReceiveReturns(r, "none")
    BY <1>3, <2>1, Returned
  <2>2. CASE ReceiveReturns(r, "DataLoss") /\ ~ ReceiveReturns(r, "none")
    BY <1>3, <2>2, Returned
  <2> HIDE DEF genuine, id
  <2> QED
    BY <1>2, <2>1, <2>2
<1>5. CASE Good
  <2>1. /\ Len(received) < Len(written) /\ id = written[Len(received) + 1]
        /\ start[Len(received) + 2] = 0 /\ genuine
    BY <1>1, <1>5, GoodEntry
  <2>2. first_error = "none"
    BY <1>5 DEF Good
  <2> HIDE DEF genuine, id
  <2>3. received' = Append(received, written[Len(received) + 1]) /\ ReceiveReturns(r, "none")
    BY <1>2, <2>1
  <2> QED
    BY <1>1, <1>4, <1>5, <2>1, <2>2, <2>3
<1>6. CASE ~ Good
  <2>1. torn = "middle" /\ Len(received) >= Len(written)
    BY <1>1, <1>6, BadEntry
  <2>2. id \in SendsMade \union {0}
    BY DEF ChanTypeOK
  <2> HIDE DEF genuine, id
  <2>3. \/ \E e \in SendsMade \union {0} : received' = Append(received, e)
        \/ received' = received
    BY <1>2, <2>2
  <2> QED
    BY <1>1, <1>4, <1>6, <2>1, <2>3
<1> QED
  BY <1>5, <1>6

\* Receive returns an entry.
LEMMA EntryReadKeeps ==
  ASSUME ChanInv, NEW r \in Receivers, EntryRead(r)
  PROVE  ChanInv'
<1> DEFINE L == Len(written)
           R == Len(received)
<1>1. ChanTypeOK /\ SenderInv /\ ReceivedInv /\ EndInv
  BY DEF ChanInv
<1>2. PICK n \in Nat, m \in Nat, start \in [1..(Len(written) + 1) -> Int] :
        PartInv(n, m) /\ PlaceInv(n, m, start) /\ ReaderInv(n, start)
  BY DEF ChanInv, PipeInv
<1>3. /\ UNCHANGED <<stream, sizes, sender, write_open, read_open, written, torn>>
      /\ receiver' \in [Receivers -> Receiver] /\ \A q \in Receivers : ~ Reading(q)'
      /\ first_error' \in {"none", "EOC", "DataLoss", "errno"}
  BY <1>1, <1>2, EntryReadFacts
<1>4. \/ /\ Good /\ R < L /\ start[R + 2] = 0
         /\ received' = Append(received, written[R + 1]) /\ first_error' = first_error
      \/ /\ ~ Good /\ torn = "middle" /\ R >= L
         /\ \/ \E e \in SendsMade \union {0} : received' = Append(received, e)
            \/ received' = received
  BY <1>1, <1>2, EntryReadFacts
<1>5. SendsMade' = SendsMade /\ PipeBytes' = PipeBytes /\ SenderInv' /\ PartInv(n, m)'
  BY <1>1, <1>2, <1>3, SendersUntouched
<1>6. PlaceInv(n, m, start)'
  BY <1>2, <1>3 DEF PlaceInv, Size
<1>7. received \in Seq(SendsMade \union {0}) /\ written \in Seq(SendsMade) /\ R \in Nat /\ L \in Nat
  BY <1>1 DEF ChanTypeOK
<1>8. CASE /\ Good /\ R < L /\ start[R + 2] = 0
           /\ received' = Append(received, written[R + 1]) /\ first_error' = first_error
  <2>1. written[R + 1] \in SendsMade \union {0}
    BY <1>7, <1>8
  <2>2. /\ received' \in Seq(SendsMade \union {0}) /\ Len(received') = R + 1
        /\ received'[R + 1] = written[R + 1] /\ \A i \in 1..R : received'[i] = received[i]
    BY <1>7, <1>8, <2>1
  <2>3. first_error' = "none"
    BY <1>8 DEF Good
  <2>4. ChanTypeOK'
    BY <1>1, <1>3, <1>5, <2>2 DEF ChanTypeOK, Receiver
  <2>5. ReceivedInv' /\ EndInv'
    BY <1>1, <1>3, <1>7, <1>8, <2>2, <2>3 DEF ReceivedInv, EndInv
  <2>6. ReaderInv(n, start)'
    <3>1. start[Len(received') + 1] = 0
      BY <1>7, <1>8, <2>2
    <3> QED
      BY <1>3, <3>1 DEF ReaderInv
  <2>7. PipeInv'
    BY <1>2, <1>3, <1>5, <1>6, <2>6 DEF PipeInv
  <2> QED
    BY <1>5, <2>4, <2>5, <2>7 DEF ChanInv
<1>9. CASE /\ ~ Good /\ torn = "middle" /\ R >= L
           /\ \/ \E e \in SendsMade \union {0} : received' = Append(received, e)
              \/ received' = received
  <2>1. /\ received' \in Seq(SendsMade \union {0}) /\ Len(received') >= L /\ Len(received') \in Nat
        /\ \A i \in 1..R : received'[i] = received[i]
    <3>1. CASE received' = received
      BY <1>7, <1>9, <3>1
    <3>2. ASSUME NEW e \in SendsMade \union {0}, received' = Append(received, e)
          PROVE  /\ received' \in Seq(SendsMade \union {0}) /\ Len(received') >= L /\ Len(received') \in Nat
                 /\ \A i \in 1..R : received'[i] = received[i]
      BY <1>7, <1>9, <3>2
    <3> QED
      BY <1>9, <3>1, <3>2
  <2>2. ChanTypeOK'
    BY <1>1, <1>3, <1>5, <2>1 DEF ChanTypeOK, Receiver
  <2>3. ReceivedInv'
    <3>1. \A i \in 1..Len(received') : i <= L => i \in 1..R
      BY <1>7, <1>9, <2>1
    <3> QED
      BY <1>1, <1>3, <1>9, <2>1, <3>1 DEF ReceivedInv
  <2>4. EndInv'
    BY <1>3, <1>9, <2>1 DEF EndInv
  <2>5. ~ Good'
    BY <1>3, <1>7, <1>9, <2>1 DEF Good
  <2>6. ReaderInv(n, start)'
    BY <1>3, <2>5 DEF ReaderInv
  <2>7. PipeInv'
    BY <1>2, <1>3, <1>5, <1>6, <2>6 DEF PipeInv
  <2> QED
    BY <1>5, <2>2, <2>3, <2>4, <2>7 DEF ChanInv
<1> QED
  BY <1>4, <1>8, <1>9

\* The end of the bytes is told as what it is.
LEMMA ReadEndsKeeps ==
  ASSUME ChanInv, NEW r \in Receivers, ReadEnds(r)
  PROVE  ChanInv'
<1> DEFINE L == Len(written)
           R == Len(received)
           taken == receiver[r].got
           e == IF receiver[r].at = "entry" THEN "errno" ELSE IF taken = <<>> THEN "EOC" ELSE "DataLoss"
<1>1. ChanTypeOK /\ SenderInv /\ ReceivedInv /\ EndInv
  BY DEF ChanInv
<1>2. PICK n \in Nat, m \in Nat, start \in [1..(Len(written) + 1) -> Int] :
        PartInv(n, m) /\ PlaceInv(n, m, start) /\ ReaderInv(n, start)
  BY DEF ChanInv, PipeInv
<1>3. /\ Reading(r) /\ Wants(r) > 0 /\ stream = <<>> /\ ~ write_open /\ ReceiveReturns(r, e)
      /\ UNCHANGED <<stream, sizes, sender, write_open, read_open, written, received, torn>>
  BY DEF ReadEnds
<1>4. \A q \in Receivers : Reading(q) => q = r
  BY <1>2, <1>3 DEF ReaderInv
<1>5. /\ receiver' \in [Receivers -> Receiver] /\ \A q \in Receivers : ~ Reading(q)'
      /\ first_error' = IF first_error = "none" THEN e ELSE first_error
      /\ first_error' \in {"none", "EOC", "DataLoss", "errno"}
  <2>1. e \in {"none", "EOC", "DataLoss", "errno"}
    OBVIOUS
  <2> HIDE DEF e
  <2> QED
    BY <1>1, <1>3, <1>4, <2>1, Returned
<1>6. SendsMade' = SendsMade /\ PipeBytes' = PipeBytes /\ SenderInv' /\ PartInv(n, m)'
  BY <1>1, <1>2, <1>3, SendersUntouched
<1>7. ChanTypeOK'
  BY <1>1, <1>3, <1>5, <1>6 DEF ChanTypeOK, Receiver
<1>8. ReceivedInv' /\ PlaceInv(n, m, start)'
  BY <1>1, <1>2, <1>3 DEF ReceivedInv, PlaceInv, Size
<1>9. first_error' # "none"
  BY <1>5
<1>10. ReaderInv(n, start)'
  BY <1>5, <1>9 DEF ReaderInv, Good
<1>11. L \in Nat /\ R \in Nat /\ taken \in Seq(PipeBytes) /\ Len(taken) \in Nat /\ receiver[r].want \in Nat
  BY <1>1 DEF ChanTypeOK
<1>12. EndInv'
  <2>1. CASE first_error # "none"
    BY <1>1, <1>3, <1>5, <2>1 DEF EndInv
  <2>2. CASE first_error = "none" /\ ~ Good
    BY <1>3, <1>5, <1>11, <2>2 DEF EndInv, Good
  <2>3. CASE Good
    <3> DEFINE c == BytesRead(r)
    <3>1. /\ start[R + 1] + c = 0 /\ c \in Nat
          /\ receiver[r].at # "header" => Current(n) \in SendsMade
      BY <1>1, <1>2, <1>3, <2>3, EntryIsMade
    <3>2. c = 0 <=> receiver[r].at = "header" /\ taken = <<>>
      BY <1>3, <1>11, ChannelAssumption DEF BytesRead, Reading
    <3> HIDE DEF c
    <3>3. R = L
      <4> SUFFICES ASSUME R < L PROVE FALSE
        BY <1>1, <1>11, <2>3 DEF Good, ReceivedInv
      <4>1. /\ Current(n) \in SendsMade
            /\ \A k \in 1..Size(Current(n)) : k > c => k - c <= Len(stream)
        BY <1>1, <1>2, <2>3, <3>1, BytesToRead
      <4>2. c < Size(Current(n)) /\ Size(Current(n)) \in Nat
        <5>1. /\ Size(Current(n)) = HeaderSize + sizes[Current(n)] /\ sizes[Current(n)] \in Nat
              /\ HeaderSize \in Nat
          BY <1>1, <4>1, SizeFacts DEF Size
        <5>2. /\ receiver[r].want - Len(taken) > 0 /\ receiver[r].at \in {"header", "entry"}
              /\ receiver[r].at = "header" => receiver[r].want = HeaderSize /\ c = Len(taken)
              /\ receiver[r].at = "entry" =>
                   receiver[r].want = sizes[Current(n)] /\ c = HeaderSize + Len(taken)
          BY <1>2, <1>3, <2>3 DEF Wants, Reading, ReaderInv, BytesRead, c
        <5> DEFINE len == Len(taken)
                   want == receiver[r].want
                   payload == sizes[Current(n)]
                   size == Size(Current(n))
        <5>3. /\ size = HeaderSize + payload /\ payload \in Nat /\ HeaderSize \in Nat /\ len \in Nat
              /\ want \in Nat /\ want - len > 0
              /\ (want = HeaderSize /\ c = len) \/ (want = payload /\ c = HeaderSize + len)
          BY <1>11, <5>1, <5>2
        <5> HIDE DEF len, want, payload, size
        <5>4. c < size /\ size \in Nat
          BY <3>1, <5>3
        <5> QED
          BY <5>4 DEF size
      <4>3. c + 1 \in 1..Size(Current(n)) /\ c + 1 > c /\ (c + 1) - c = 1
        BY <3>1, <4>2
      <4>4. Len(stream) = 0
        BY <1>3
      <4> QED
        BY <4>1, <4>3, <4>4
    <3>4. torn # "middle" /\ m = c
      <4>1. torn # "middle" /\ Len(stream) = m - c
        BY <1>1, <1>2, <2>3, <3>1, <3>3, BytesToRead
      <4>2. Len(stream) = 0
        BY <1>3
      <4> QED
        BY <3>1, <4>1, <4>2
    <3>5. torn = "no" <=> m = 0
      <4>1. \A p \in Senders : ~ Writing(p)
        BY <1>1, <1>3 DEF SenderInv, Writing
      <4>2. torn \in {"no", "end"}
        BY <1>1, <3>4 DEF ChanTypeOK
      <4> QED
        BY <1>2, <3>4, <4>1, <4>2 DEF PartInv
    <3>6. (e = "EOC") = (torn = "no")
      <4>1. e = "EOC" <=> receiver[r].at = "header" /\ taken = <<>>
        BY <1>3 DEF Reading
      <4> HIDE DEF e, taken
      <4> QED
        BY <3>2, <3>4, <3>5, <4>1
    <3>7. first_error' = e
      BY <1>5, <2>3 DEF Good
    <3> HIDE DEF e
    <3>8. Len(received') >= Len(written')
      BY <1>3, <1>11, <3>3
    <3> QED
      BY <1>3, <1>5, <3>6, <3>7, <3>8 DEF EndInv
  <2> QED
    BY <2>1, <2>2, <2>3
<1>13. PipeInv'
  BY <1>2, <1>3, <1>6, <1>8, <1>10 DEF PipeInv
<1> QED
  BY <1>6, <1>7, <1>8, <1>12, <1>13 DEF ChanInv

-----------------------------------------------------------------------------
(* The channel *)

\* Every step keeps the invariant.
LEMMA ChanStep ==
  ASSUME ChanInv, [ChanNext]_chanvars
  PROVE  ChanInv'
<1>1. ASSUME NEW p \in Senders, SenderStep(p) PROVE ChanInv'
  BY <1>1, SendLockedKeeps, WriteSomeKeeps, WriteFailsKeeps DEF SenderStep
<1>2. ASSUME NEW p \in Senders, NEW size \in EntrySizes, Send(p, size) PROVE ChanInv'
  BY <1>2, SendKeeps
<1>3. ASSUME NEW r \in Receivers, ReceiverStep(r) PROVE ChanInv'
  BY <1>3, ReceiveKeeps, HeaderReadKeeps, EntryReadKeeps, ReadEndsKeeps, ReadSomeKeeps
     DEF ReceiverStep
<1>4. CASE CloseProducer \/ ProducerDies
  BY <1>4, ProducerEnds
<1>5. CASE CloseConsumer
  BY <1>5, CloseConsumerKeeps
<1>6. CASE UNCHANGED chanvars
  <2>1. receiver \in [Receivers -> Receiver] /\ read_open \in BOOLEAN
    BY DEF ChanInv, ChanTypeOK, Receiver
  <2>2. \A r, q \in Receivers : Reading(r) /\ Reading(q) => r = q
    BY DEF ChanInv, PipeInv, ReaderInv
  <2>3. /\ UNCHANGED <<stream, sizes, sender, write_open, written, received, first_error, torn>>
        /\ receiver' = receiver /\ read_open' = read_open
    BY <1>6 DEF chanvars
  <2>4. \A r \in Receivers : Reading(r)' <=> Reading(r)
    BY <2>3 DEF Reading
  <2> QED
    BY <2>1, <2>2, <2>3, <2>4, ReceiversTurn
<1> QED
  BY <1>1, <1>2, <1>3, <1>4, <1>5, <1>6 DEF ChanNext

\* An end is told when everything has been received, and as what it is.
LEMMA EndTold == ChanInv => EndIsTrue
<1> SUFFICES ASSUME ChanInv, first_error # "none", torn # "middle"
             PROVE  received = written /\ (first_error = "EOC") = (torn = "no")
  BY DEF EndIsTrue
<1>1. ChanTypeOK /\ ReceivedInv /\ EndInv
  BY DEF ChanInv
<1>2. Len(received) = Len(written)
  <2>1. Len(received) \in Nat /\ Len(written) \in Nat
    BY <1>1 DEF ChanTypeOK
  <2> QED
    BY <1>1, <2>1 DEF ReceivedInv, EndInv
<1>3. \A i \in 1..Len(received) : received[i] = written[i]
  BY <1>1, <1>2 DEF ReceivedInv, ChanTypeOK
<1>4. received \in Seq(SendsMade \union {0}) /\ written \in Seq(SendsMade \union {0})
  BY <1>1, SeqGrows DEF ChanTypeOK
<1>5. received = written
  BY <1>2, <1>3, <1>4, SameSeq
<1> QED
  BY <1>1, <1>5 DEF EndInv

\* Every step is one of the stream, or none of its business.
LEMMA StreamStep ==
  ASSUME ChanInv, [ChanNext]_chanvars
  PROVE  [Stream!StreamNext]_<<written, received, torn # "middle">>
<1> DEFINE Same == UNCHANGED <<written, received, torn # "middle">>
<1> USE DEF Stream!StreamNext
<1>1. ChanTypeOK /\ SenderInv /\ ReceivedInv /\ EndInv
  BY DEF ChanInv
<1>2. SendsMade \union {0} \subseteq 0..MaxSends
  BY <1>1, ChannelAssumption DEF ChanTypeOK, SendsMade
<1>3. ASSUME NEW p \in Senders, SendLocked(p)
      PROVE  Same \/ Stream!Break
  BY <1>3 DEF SendLocked, Stream!Break
<1>4. ASSUME NEW p \in Senders, NEW count \in 1..Capacity, WriteSome(p, count)
      PROVE  Same \/ \E e \in 0..MaxSends : Stream!Accept(e)
  <2>1. received' = received /\ torn' = torn
    BY <1>4 DEF WriteSome
  <2>2. \/ written' = written
        \/ torn = "no" /\ written' = Append(written, sender[p].n)
    BY <1>4 DEF WriteSome
  <2>3. sender[p].n \in 0..MaxSends
    BY <1>1, <1>2, <1>4 DEF WriteSome, Writing, SenderInv
  <2> QED
    BY <2>1, <2>2, <2>3 DEF Stream!Accept
<1>5. ASSUME NEW r \in Receivers, EntryRead(r)
      PROVE  Same \/ Stream!Deliver \/ Stream!Misread
  <2>1. PICK n \in Nat, m \in Nat, start \in [1..(Len(written) + 1) -> Int] :
          PartInv(n, m) /\ PlaceInv(n, m, start) /\ ReaderInv(n, start)
    BY DEF ChanInv, PipeInv
  <2>2. /\ written' = written /\ torn' = torn
        /\ \/ /\ Len(received) < Len(written)
              /\ received' = Append(received, written[Len(received) + 1])
           \/ /\ torn = "middle" /\ Len(received) >= Len(written)
              /\ \/ \E e \in SendsMade \union {0} : received' = Append(received, e)
                 \/ received' = received
    BY <1>1, <1>5, <2>1, EntryReadFacts
  <2> QED
    BY <1>2, <2>2 DEF Stream!Deliver, Stream!Misread
<1>6. ASSUME \/ \E p \in Senders : WriteFails(p) \/ \E size \in EntrySizes : Send(p, size)
             \/ \E r \in Receivers :
                  \/ Receive(r) \/ ReceiveLocked(r) \/ HeaderRead(r) \/ ReadEnds(r)
                  \/ \E count \in 1..Capacity : ReadSome(r, count)
             \/ CloseProducer \/ ProducerDies \/ CloseConsumer \/ UNCHANGED chanvars
      PROVE  Same
  BY <1>6 DEF WriteFails, Send, Receive, ReceiveLocked, HeaderRead, ReadEnds, ReadSome,
       CloseProducer, ProducerDies, CloseConsumer, chanvars
<1> QED
  BY <1>3, <1>4, <1>5, <1>6 DEF ChanNext, SenderStep, ReceiverStep

\* ChannelIsFaithful: for any number of threads on either side, any pipe and any entries, what
\* BinaryLogConsumer::Receive returns is what the Sends of BinaryLogProducer wrote, whole, once
\* and in order, up to an entry that was cut short and written after; and the end is told
\* truthfully.
THEOREM ChannelFaithful == ChanSpec => ChannelIsFaithful
<1>1. ChanInit => Stream!StreamInit
  BY DEF ChanInit, Stream!StreamInit
<1>2. ChanSpec => []ChanInv
  <2>1. ChanInv /\ [ChanNext]_chanvars => ChanInv'
    BY ChanStep
  <2> QED
    BY ChanInitial, <2>1, PTL DEF ChanSpec
<1>3. ChanInv /\ [ChanNext]_chanvars => [Stream!StreamNext]_<<written, received, torn # "middle">>
  BY StreamStep
<1> QED
  BY <1>1, <1>2, <1>3, EndTold, PTL
     DEF ChanSpec, ChannelIsFaithful, RefinesLogStream, Stream!StreamSpec

-----------------------------------------------------------------------------
(* The ring of PerfEventBuffer *)

RecordType == [type : {"sample", "lost"}, nr : NumValues]
Bytes == Nat \X Nat

\* The bytes m + 1 to l of record n.
BytesOf(n, m, l) == [k \in 1..(l - m) |-> <<n, m + k>>]

RingTypeOK ==
  /\ ring \in [0..(BufferSize - 1) -> Bytes]
  /\ kernel \in [at : Int, left : Seq(Bytes), record : SUBSET RecordType]
  /\ published \in Seq(RecordType) /\ Len(published) <= MaxRecords
  /\ parsed \in Seq(Nat) /\ Len(parsed) <= Len(published)
  /\ reader \in [at : {"idle", "sample", "view", "failed", "died"}, head : Int, tail : Int,
                 objects : Seq(Nat)]
  /\ got \in Seq(Bytes)

\* Where each record starts, and the next one will, if offsets did not wrap around.
StartInv(start) ==
  /\ start \in [1..(Len(published) + 1) -> Nat]
  /\ \A n \in 1..Len(published) : start[n + 1] = start[n] + RecordSize(published[n])
  /\ \A i, j \in 1..(Len(published) + 1) : i <= j => start[i] <= start[j]
  /\ data_head = start[Len(published) + 1] % Offsets
  /\ data_tail = start[Len(parsed) + 1] % Offsets

\* The kernel has written w bytes of the next record, which has room behind data_tail.
KernelInv(start, w) ==
  /\ kernel.at = (start[Len(published) + 1] + w) % Offsets
  /\ start[Len(published) + 1] + w - start[Len(parsed) + 1] <= BufferSize
  /\ \/ kernel.record = {} /\ kernel.left = <<>> /\ w = 0
     \/ \E r \in RecordType :
          /\ kernel.record = {r} /\ w <= RecordSize(r) /\ Len(published) < MaxRecords
          /\ kernel.left = BytesOf(Len(published) + 1, w, RecordSize(r))
          /\ start[Len(published) + 1] + RecordSize(r) - start[Len(parsed) + 1] <= BufferSize

\* The ring has the records that have not been parsed, and the bytes of the next one.
ContentInv(start, w) ==
  /\ \A n \in (Len(parsed) + 1)..Len(published) : \A k \in 1..RecordSize(published[n]) :
       ring[(start[n] + k - 1) % BufferSize] = <<n, k>>
  /\ \A k \in 1..w : ring[(start[Len(published) + 1] + k - 1) % BufferSize] = <<Len(published) + 1, k>>
  /\ \A p \in start[Len(parsed) + 1]..(start[Len(published) + 1] - 1) :
       \E n \in (Len(parsed) + 1)..Len(published) :
         \E k \in 1..RecordSize(published[n]) : p = start[n] + k - 1

\* What Parse still has to read of a sample of nr values, g of whose bytes it has.
ToRead(nr, g, objects) ==
  \/ g = 0 /\ objects = <<EventHeaderSize>>
  \/ g = EventHeaderSize /\ objects = <<IpSize, NrSize>>
  \/ g = EventHeaderSize + IpSize /\ objects = <<NrSize>>
  \/ \E j \in 0..nr : /\ g = EventHeaderSize + IpSize + NrSize + j * ValueSize
                      /\ objects = [k \in 1..(nr - j) |-> ValueSize]

\* The record being read is the one after those parsed; the view ends where record v does.
ParserInv(start, v) ==
  /\ reader.at # "view" => got = <<>>
  /\ reader.at # "idle" => Len(parsed) < Len(published)
  /\ reader.at \in {"sample", "view"} => published[Len(parsed) + 1].type = "sample"
  /\ reader.at = "view" =>
       /\ v \in (Len(parsed) + 1)..Len(published)
       /\ reader.head = start[v + 1] % Offsets
       /\ reader.tail = (start[Len(parsed) + 1] + Len(got)) % Offsets
       /\ got = BytesOf(Len(parsed) + 1, 0, Len(got))
       /\ ToRead(published[Len(parsed) + 1].nr, Len(got), reader.objects)
  /\ GivesUpRightly

RingStarts(start, w, v) ==
  StartInv(start) /\ KernelInv(start, w) /\ ContentInv(start, w) /\ ParserInv(start, v)

RingInv ==
  RingTypeOK /\ \E start \in [1..(Len(published) + 1) -> Nat], w, v \in Nat : RingStarts(start, w, v)

-----------------------------------------------------------------------------
(* Remainders *)

\* A number is as many times b as fit, and the remainder.
LEMMA Division ==
  ASSUME NEW a \in Int, NEW b \in Nat \ {0}
  PROVE  /\ a % b \in 0..(b - 1)
         /\ \E q \in Int : a = q * b + (a % b)
<1>1. a = b * (a \div b) + (a % b)
  OBVIOUS
<1>2. a \div b \in Int /\ a % b \in 0..(b - 1)
  OBVIOUS
<1> DEFINE q == a \div b
           r == a % b
<1>3. q \in Int /\ a = b * q + r /\ r \in 0..(b - 1)
  BY <1>1, <1>2
<1> HIDE DEF q, r
<1>4. a = q * b + r
  BY <1>3
<1> QED
  BY <1>3, <1>4 DEF r

\* The remainder is the only number below b that leaves a multiple of it.
LEMMA Remainder ==
  ASSUME NEW a \in Int, NEW b \in Nat \ {0}, NEW q \in Int, NEW r \in 0..(b - 1), a = q * b + r
  PROVE  a % b = r
<1>1. PICK p \in Int : a = p * b + (a % b)
  BY Division
<1>2. a % b \in 0..(b - 1)
  BY Division
<1> DEFINE s == a % b
<1>3. s \in 0..(b - 1) /\ a = p * b + s
  BY <1>1, <1>2
<1> HIDE DEF s
<1> DEFINE d == q - p
           x == q * b
           y == p * b
<1>4. d \in Int /\ d * b = s - r
  <2>1. d \in Int /\ d * b = x - y /\ x \in Int /\ y \in Int
    OBVIOUS
  <2>2. a = x + r /\ a = y + s
    BY <1>3
  <2> HIDE DEF d, x, y
  <2> QED
    BY <1>3, <2>1, <2>2
<1> HIDE DEF x, y
<1>5. d = 0
  <2> HIDE DEF d
  <2>1. CASE d >= 1
    <3>1. d * b >= b
      BY <1>4, <2>1
    <3> QED
      BY <1>3, <1>4, <3>1
  <2>2. CASE d <= -1
    <3>1. d * b <= -b
      BY <1>4, <2>2
    <3> QED
      BY <1>3, <1>4, <3>1
  <2> QED
    BY <1>4, <2>1, <2>2
<1>6. s = r
  <2> HIDE DEF d
  <2> QED
    BY <1>3, <1>4, <1>5
<1> QED
  BY <1>6 DEF s

\* Multiples of b make no difference.
LEMMA Congruent ==
  ASSUME NEW c \in Int, NEW b \in Nat \ {0}, NEW q \in Int
  PROVE  (c + q * b) % b = c % b
<1> DEFINE a == c + q * b
<1>1. PICK p \in Int : c = p * b + (c % b)
  BY Division
<1> DEFINE r == c % b
<1>2. r \in 0..(b - 1) /\ c = p * b + r
  BY <1>1, Division
<1> HIDE DEF r
<1>3. p + q \in Int /\ (p + q) * b = p * b + q * b
  OBVIOUS
<1>4. a = (p + q) * b + r /\ a \in Int
  BY <1>2, <1>3
<1> HIDE DEF a
<1>5. a % b = r
  BY <1>2, <1>3, <1>4, Remainder
<1> QED
  BY <1>5 DEF a, r

-----------------------------------------------------------------------------
(* Offsets that wrap around, and slots of the ring *)

\* The sizes are positive, and the ring is smaller than the range of offsets.
LEMMA Constants ==
  /\ BufferSize \in Nat \ {0} /\ Offsets \in Nat \ {0} /\ BufferSize < Offsets
  /\ EventHeaderSize \in Nat \ {0} /\ IpSize \in Nat \ {0} /\ NrSize \in Nat \ {0}
  /\ ValueSize \in Nat \ {0} /\ NumValues \subseteq Nat /\ MaxRecords \in Nat
BY RingAssumption

\* To wrap an offset before it is moved or slotted is the same as after.
LEMMA Wraps ==
  ASSUME NEW a \in Int, NEW c \in Int
  PROVE  /\ ((a % Offsets) + c) % Offsets = (a + c) % Offsets
         /\ ((a % Offsets) + c) % BufferSize = (a + c) % BufferSize
<1>1. PICK q \in Int : a = q * Offsets + (a % Offsets)
  BY Constants, Division
<1>2. PICK m \in Int : Offsets = m * BufferSize
  <2>1. PICK m \in Int : Offsets = m * BufferSize + (Offsets % BufferSize)
    <3>1. Offsets \in Int /\ BufferSize \in Nat \ {0}
      BY Constants
    <3> QED
      BY <3>1, Division
  <2>2. Offsets % BufferSize = 0
    BY RingAssumption
  <2>3. m * BufferSize \in Int
    BY Constants
  <2> QED
    BY <2>1, <2>2, <2>3
<1> DEFINE w == a % Offsets
<1>3. w \in Int /\ a = q * Offsets + w
  BY <1>1, Constants
<1> HIDE DEF w
<1>4. a + c = (w + c) + q * Offsets
  BY <1>3, Constants
<1> DEFINE y == a + c
           z == w + c
<1>5. y % Offsets = z % Offsets
  <2>1. y \in Int /\ z \in Int /\ y = z + q * Offsets /\ Offsets \in Nat \ {0}
    BY <1>3, <1>4, Constants
  <2> HIDE DEF y, z
  <2>2. (z + q * Offsets) % Offsets = z % Offsets
    BY <2>1, Congruent
  <2> QED
    BY <2>1, <2>2
<1>6. q * Offsets = (q * m) * BufferSize /\ q * m \in Int
  <2>1. q * (m * BufferSize) = (q * m) * BufferSize
    BY Constants
  <2> QED
    BY <1>2, <2>1
<1>7. a + c = (w + c) + (q * m) * BufferSize
  BY <1>4, <1>6
<1>8. y % BufferSize = z % BufferSize
  <2> DEFINE p == q * m
  <2>1. p \in Int /\ y = z + p * BufferSize /\ y \in Int /\ z \in Int /\ BufferSize \in Nat \ {0}
    BY <1>3, <1>6, <1>7, Constants
  <2> HIDE DEF p, y, z
  <2>2. (z + p * BufferSize) % BufferSize = z % BufferSize
    BY <2>1, Congruent
  <2> QED
    BY <2>1, <2>2
<1> QED
  BY <1>5, <1>8 DEF w

\* The distance of wrapped offsets is that of the offsets.
LEMMA DistanceIs ==
  ASSUME NEW a \in Int, NEW c \in Int, a - c \in 0..(Offsets - 1)
  PROVE  Distance(a % Offsets, c % Offsets) = a - c
<1>1. PICK q \in Int : c = q * Offsets + (c % Offsets)
  BY Constants, Division
<1> DEFINE w == c % Offsets
<1>2. w \in Int /\ c = q * Offsets + w
  BY <1>1, Constants
<1>3. Distance(a % Offsets, w) = (a - w) % Offsets
  <2>1. Distance(a % Offsets, w) = ((a % Offsets) + (-w)) % Offsets
    BY <1>2, Constants DEF Distance
  <2>2. -w \in Int /\ a + (-w) = a - w
    BY <1>2
  <2> HIDE DEF w
  <2> QED
    BY <2>1, <2>2, Wraps
<1> HIDE DEF w
<1>4. a - w = (a - c) + q * Offsets
  BY <1>2, Constants
<1>5. (a - w) % Offsets = (a - c) % Offsets
  <2> DEFINE y == a - w
             z == a - c
  <2>1. y \in Int /\ z \in Int /\ y = z + q * Offsets /\ Offsets \in Nat \ {0}
    BY <1>2, <1>4, Constants
  <2> HIDE DEF y, z
  <2>2. (z + q * Offsets) % Offsets = z % Offsets
    BY <2>1, Congruent
  <2>3. y % Offsets = z % Offsets
    BY <2>1, <2>2
  <2> QED
    BY <2>3 DEF y, z
<1>6. (a - c) % Offsets = a - c
  <2> DEFINE d == a - c
  <2>1. d \in 0..(Offsets - 1) /\ d = 0 * Offsets + d /\ d \in Int
    BY Constants
  <2> HIDE DEF d
  <2>2. d % Offsets = d
    BY <2>1, Constants, Remainder
  <2> QED
    BY <2>2 DEF d
<1> QED
  BY <1>3, <1>5, <1>6 DEF w

\* Offsets less than the size of the ring apart have different slots.
LEMMA SlotsDiffer ==
  ASSUME NEW a \in Int, NEW c \in Int, a - c \in 1..(BufferSize - 1)
  PROVE  a % BufferSize # c % BufferSize
<1> SUFFICES ASSUME a % BufferSize = c % BufferSize PROVE FALSE
  OBVIOUS
<1>1. PICK q \in Int : a = q * BufferSize + (a % BufferSize)
  BY Constants, Division
<1>2. PICK p \in Int : c = p * BufferSize + (a % BufferSize)
  BY Constants, Division
<1> DEFINE r == a % BufferSize
           d == q - p
           x == q * BufferSize
           y == p * BufferSize
<1>3. r \in Int /\ d \in Int /\ x \in Int /\ y \in Int /\ d * BufferSize = x - y
  BY Constants
<1>4. a = x + r /\ c = y + r
  BY <1>1, <1>2
<1> HIDE DEF r, d, x, y
<1>5. d * BufferSize \in 1..(BufferSize - 1)
  BY <1>3, <1>4
<1>6. d >= 1 => d * BufferSize >= BufferSize
  BY <1>3, Constants
<1>7. d <= 0 => d * BufferSize <= 0
  BY <1>3, Constants
<1> QED
  BY <1>3, <1>5, <1>6, <1>7, Constants

\* Slots follow one another up to the end of the ring and on from its start.
LEMMA SlotMoves ==
  ASSUME NEW a \in Int, NEW j \in 0..BufferSize
  PROVE  /\ a % BufferSize \in 0..(BufferSize - 1)
         /\ (a + j) % BufferSize = IF (a % BufferSize) + j < BufferSize THEN (a % BufferSize) + j
                                   ELSE (a % BufferSize) + j - BufferSize
<1>1. PICK q \in Int : a = q * BufferSize + (a % BufferSize)
  BY Constants, Division
<1> DEFINE r == a % BufferSize
           x == q * BufferSize
           y == (q + 1) * BufferSize
<1>2. r \in 0..(BufferSize - 1)
  BY Constants, Division
<1>3. a = x + r /\ x \in Int /\ y \in Int /\ y = x + BufferSize
  BY <1>1, Constants
<1> HIDE DEF r, x, y
<1>4. CASE r + j < BufferSize
  <2>1. a + j = x + (r + j) /\ r + j \in 0..(BufferSize - 1) /\ a + j \in Int
    BY <1>2, <1>3, <1>4, Constants
  <2>2. (a + j) % BufferSize = r + j
    BY <2>1, Constants, Remainder DEF x
  <2> QED
    BY <1>2, <1>4, <2>2 DEF r
<1>5. CASE ~ (r + j < BufferSize)
  <2>1. /\ a + j = y + (r + j - BufferSize) /\ r + j - BufferSize \in 0..(BufferSize - 1)
        /\ a + j \in Int /\ q + 1 \in Int
    BY <1>2, <1>3, <1>5, Constants
  <2>2. (a + j) % BufferSize = r + j - BufferSize
    BY <2>1, Constants, Remainder DEF y
  <2> QED
    BY <1>2, <1>5, <2>2 DEF r
<1> QED
  BY <1>4, <1>5

\* Peek gives the bytes of the ring that follow one another from an offset on.
LEMMA PeekIs ==
  ASSUME NEW a \in Int, NEW size \in 1..BufferSize
  PROVE  Peek(a % Offsets, size) = [k \in 1..size |-> ring[(a + k - 1) % BufferSize]]
<1>1. Slot(a % Offsets) = a % BufferSize
  <2>1. ((a % Offsets) + 0) % BufferSize = (a + 0) % BufferSize
    BY Wraps
  <2>2. a % Offsets \in Int
    BY Constants
  <2> DEFINE w == a % Offsets
  <2>3. w \in Int /\ (w + 0) % BufferSize = (a + 0) % BufferSize /\ w + 0 = w /\ a + 0 = a
    BY <2>1, <2>2
  <2> HIDE DEF w
  <2>4. w % BufferSize = a % BufferSize
    BY <2>3
  <2> QED
    BY <2>4 DEF Slot, w
<1> DEFINE offset == a % BufferSize
           first == BufferSize - offset
<1>2. offset \in 0..(BufferSize - 1)
  BY Constants, Division
<1>3. ASSUME NEW k \in 1..size
      PROVE  (a + k - 1) % BufferSize = IF BufferSize >= offset + size \/ k <= first
                                        THEN offset + k - 1 ELSE k - first - 1
  <2>1. k - 1 \in 0..BufferSize /\ a + (k - 1) = a + k - 1
    BY Constants
  <2>2. (a + (k - 1)) % BufferSize = IF offset + (k - 1) < BufferSize THEN offset + (k - 1)
                                     ELSE offset + (k - 1) - BufferSize
    BY <2>1, SlotMoves
  <2> HIDE DEF offset
  <2> QED
    BY <1>2, <2>1, <2>2, Constants
<1>4. Peek(a % Offsets, size) =
        [k \in 1..size |-> IF BufferSize >= offset + size \/ k <= first
                           THEN ring[offset + k - 1] ELSE ring[k - first - 1]]
  <2> DEFINE w == a % Offsets
  <2>1. Slot(w) = offset
    BY <1>1
  <2> HIDE DEF w, offset
  <2>2. Peek(w, size) = [k \in 1..size |-> IF BufferSize >= offset + size \/ k <= first
                           THEN ring[offset + k - 1] ELSE ring[k - first - 1]]
    BY <2>1 DEF Peek
  <2> QED
    BY <2>2 DEF w
<1> HIDE DEF offset, first
<1> QED
  BY <1>3, <1>4

\* The first bytes of a published record say which one it is.
LEMMA HeaderIs ==
  ASSUME NEW n \in DOMAIN published, n \in Nat, NEW l \in Nat \ {0}
  PROVE  /\ IsObject(BytesOf(n, 0, l)) /\ HeaderOf(BytesOf(n, 0, l)) = n
<1> DEFINE bytes == BytesOf(n, 0, l)
<1>1. DOMAIN bytes = 1..l /\ 1 \in 1..l /\ \A k \in 1..l : bytes[k] = <<n, k>>
  BY DEF BytesOf
<1> HIDE DEF bytes
<1>2. bytes[1][1] = n /\ bytes[1][2] = 1
  BY <1>1
<1>3. IsObject(bytes)
  BY <1>1, <1>2 DEF IsObject
<1> QED
  BY <1>2, <1>3 DEF HeaderOf, bytes

-----------------------------------------------------------------------------
(* What the invariant says of records and offsets *)

\* How large a record is.
LEMMA SizeIs ==
  ASSUME NEW r \in RecordType
  PROVE  /\ RecordSize(r) \in Nat \ {0} /\ RecordSize(r) >= EventHeaderSize
         /\ r.nr \in Nat /\ r.nr * ValueSize \in Nat
         /\ r.type = "sample" =>
              RecordSize(r) = EventHeaderSize + IpSize + NrSize + r.nr * ValueSize
<1>1. r.nr \in Nat
  BY Constants DEF RecordType
<1> DEFINE values == r.nr * ValueSize
<1>2. values \in Nat
  BY <1>1, Constants
<1>3. RecordSize(r) = EventHeaderSize + (IF r.type = "sample" THEN IpSize + NrSize + values ELSE 0)
  BY DEF RecordSize
<1> HIDE DEF values
<1>4. /\ RecordSize(r) \in Nat \ {0} /\ RecordSize(r) >= EventHeaderSize
      /\ r.type = "sample" => RecordSize(r) = EventHeaderSize + IpSize + NrSize + values
  BY <1>2, <1>3, Constants
<1> QED
  BY <1>1, <1>2, <1>4 DEF values

\* The tail of a sequence, element by element.
LEMMA TailIs ==
  ASSUME NEW S, NEW s \in Seq(S), Len(s) > 0
  PROVE  Tail(s) = [k \in 1..(Len(s) - 1) |-> s[k + 1]]
<1>1. Tail(s) \in Seq(S) /\ Len(Tail(s)) = Len(s) - 1
  OBVIOUS
<1>2. \A k \in 1..(Len(s) - 1) : Tail(s)[k] = s[k + 1]
  OBVIOUS
<1> DEFINE t == Tail(s)
<1>3. t = [k \in 1..Len(t) |-> t[k]]
  <2>1. t \in Seq(S)
    BY <1>1
  <2> HIDE DEF t
  <2> QED
    BY <2>1
<1> QED
  BY <1>2, <1>3

\* The bytes of a record from one to another, as a sequence.
LEMMA BytesFacts ==
  ASSUME NEW n \in Nat, NEW m \in Nat, NEW l \in Nat, m <= l
  PROVE  /\ BytesOf(n, m, l) \in Seq(Bytes) /\ Len(BytesOf(n, m, l)) = l - m
         /\ \A k \in 1..(l - m) : BytesOf(n, m, l)[k] = <<n, m + k>>
         /\ m < l => /\ BytesOf(n, m, l) # <<>> /\ Head(BytesOf(n, m, l)) = <<n, m + 1>>
                     /\ Tail(BytesOf(n, m, l)) = BytesOf(n, m + 1, l)
<1> DEFINE d == l - m
           b == BytesOf(n, m, l)
<1>1. b = [k \in 1..d |-> <<n, m + k>>]
  BY DEF BytesOf
<1>2. d \in Nat
  OBVIOUS
<1>3. \A k \in 1..d : <<n, m + k>> \in Bytes
  BY DEF Bytes
<1>4. b \in Seq(Bytes) /\ Len(b) = d
  <2>1. b = [k \in 1..d |-> b[k]] /\ \A k \in 1..d : b[k] \in Bytes
    <3> HIDE DEF d, b
    <3> QED
      BY <1>1, <1>3
  <2> HIDE DEF d, b
  <2> QED
    BY <1>2, <2>1
<1>5. \A k \in 1..d : b[k] = <<n, m + k>>
  <2> HIDE DEF d, b
  <2> QED
    BY <1>1
<1>6. ASSUME m < l
      PROVE  b # <<>> /\ Head(b) = <<n, m + 1>> /\ Tail(b) = BytesOf(n, m + 1, l)
  <2>1. d \in Nat \ {0} /\ l - (m + 1) = d - 1
    BY <1>6
  <2>2. BytesOf(n, m + 1, l) = [k \in 1..(d - 1) |-> <<n, (m + 1) + k>>]
    BY <2>1 DEF BytesOf
  <2> HIDE DEF d, b
  <2>3. b # <<>> /\ Head(b) = b[1] /\ b[1] = <<n, m + 1>>
    BY <1>4, <1>5, <2>1
  <2>4. Tail(b) = [k \in 1..(d - 1) |-> b[k + 1]]
    <3>1. Len(b) = d /\ Len(b) > 0 /\ b \in Seq(Bytes)
      BY <1>4, <2>1
    <3> QED
      BY <3>1, TailIs
  <2>5. \A k \in 1..(d - 1) : b[k + 1] = <<n, (m + 1) + k>>
    <3> TAKE k \in 1..(d - 1)
    <3>1. k + 1 \in 1..d /\ m + (k + 1) = (m + 1) + k
      BY <2>1
    <3> QED
      BY <1>5, <3>1
  <2> QED
    BY <2>2, <2>3, <2>4, <2>5
<1> QED
  BY <1>4, <1>5, <1>6

\* The records not yet parsed, and the part of one that is written, fit in the ring.
LEMMA StartFacts ==
  ASSUME RingTypeOK, NEW start, NEW w \in Nat, StartInv(start), KernelInv(start, w)
  PROVE  /\ Len(published) \in Nat /\ Len(parsed) \in 0..Len(published)
         /\ start[Len(published) + 1] \in Nat /\ start[Len(parsed) + 1] \in Nat
         /\ start[Len(parsed) + 1] <= start[Len(published) + 1]
         /\ start[Len(published) + 1] + w - start[Len(parsed) + 1] \in 0..BufferSize
         /\ \A n \in 1..Len(published) :
              published[n] \in RecordType /\ start[n] \in Nat /\ start[n + 1] \in Nat
         /\ \A n \in (Len(parsed) + 1)..Len(published) :
              /\ n \in 1..Len(published)
              /\ start[Len(parsed) + 1] <= start[n] /\ start[n + 1] <= start[Len(published) + 1]
<1>1. Len(published) \in Nat /\ Len(parsed) \in Nat /\ Len(parsed) <= Len(published)
  BY DEF RingTypeOK
<1> DEFINE np == Len(published)
           nq == Len(parsed)
<1>2. np + 1 \in 1..(np + 1) /\ nq + 1 \in 1..(np + 1) /\ nq + 1 <= np + 1
  BY <1>1
<1>3. \A n \in 1..np : n \in 1..(np + 1) /\ n + 1 \in 1..(np + 1) /\ n + 1 <= np + 1
  BY <1>1
<1>4. \A n \in (nq + 1)..np : n \in 1..np /\ nq + 1 <= n
  BY <1>1
<1>5. \A n \in 1..np : published[n] \in RecordType
  BY DEF RingTypeOK
<1>6. /\ start \in [1..(np + 1) -> Nat]
      /\ \A i, j \in 1..(np + 1) : i <= j => start[i] <= start[j]
      /\ start[np + 1] + w - start[nq + 1] <= BufferSize
  BY DEF StartInv, KernelInv
<1>7. np \in Nat /\ nq \in 0..np
  BY <1>1
<1> HIDE DEF np, nq
<1>8. /\ start[np + 1] \in Nat /\ start[nq + 1] \in Nat /\ start[nq + 1] <= start[np + 1]
      /\ start[np + 1] + w - start[nq + 1] \in 0..BufferSize
  <2>1. start[np + 1] \in Nat /\ start[nq + 1] \in Nat /\ start[nq + 1] <= start[np + 1]
    BY <1>2, <1>6
  <2> QED
    BY <1>6, <2>1, Constants
<1>9. \A n \in 1..np : start[n] \in Nat /\ start[n + 1] \in Nat /\ start[n + 1] <= start[np + 1]
  BY <1>2, <1>3, <1>6
<1>10. \A n \in (nq + 1)..np : start[nq + 1] <= start[n]
  BY <1>2, <1>3, <1>4, <1>6
<1> QED
  BY <1>4, <1>5, <1>7, <1>8, <1>9, <1>10 DEF np, nq

\* At first there are no records.
LEMMA BeforeRecords == RingInit => RingInv
<1> SUFFICES ASSUME RingInit PROVE RingInv
  OBVIOUS
<1> USE DEF RingInit
<1>1. 0..(BufferSize - 1) \subseteq Nat /\ FirstOffset \in Nat /\ FirstOffset % Offsets = FirstOffset
  <2>1. FirstOffset \in 0..(Offsets - 1) /\ FirstOffset \in Int /\ FirstOffset = 0 * Offsets + FirstOffset
    BY Constants, RingAssumption
  <2>2. FirstOffset % Offsets = FirstOffset
    BY <2>1, Constants, Remainder
  <2> QED
    BY <2>1, <2>2, Constants
<1>2. RingTypeOK
  <2>1. ring \in [0..(BufferSize - 1) -> Bytes]
    BY DEF Bytes
  <2>2. kernel \in [at : Int, left : Seq(Bytes), record : SUBSET RecordType]
    <3>1. FirstOffset \in Int /\ <<>> \in Seq(Bytes) /\ {} \in SUBSET RecordType
      BY <1>1
    <3> QED
      BY <3>1
  <2>3. reader \in [at : {"idle", "sample", "view", "failed", "died"}, head : Int, tail : Int,
                    objects : Seq(Nat)]
    BY DEF NoView
  <2>4. /\ published \in Seq(RecordType) /\ Len(published) <= MaxRecords
        /\ parsed \in Seq(Nat) /\ Len(parsed) <= Len(published) /\ got \in Seq(Bytes)
    BY Constants
  <2> QED
    BY <2>1, <2>2, <2>3, <2>4 DEF RingTypeOK
<1> DEFINE start == [n \in 1..1 |-> FirstOffset]
<1>3. Len(published) = 0 /\ Len(parsed) = 0
  OBVIOUS
<1>4. StartInv(start) /\ start \in [1..(Len(published) + 1) -> Nat]
  BY <1>1, <1>3 DEF StartInv
<1>5. KernelInv(start, 0)
  BY <1>1, <1>3, Constants DEF KernelInv
<1>6. ContentInv(start, 0)
  BY <1>1, <1>3 DEF ContentInv
<1>7. ParserInv(start, 0)
  BY DEF ParserInv, GivesUpRightly, NoView
<1> QED
  BY <1>2, <1>4, <1>5, <1>6, <1>7 DEF RingInv, RingStarts

-----------------------------------------------------------------------------
(* The kernel *)

\* What does not touch a part of the state leaves what is said of it.
LEMMA StartStays ==
  ASSUME NEW start, StartInv(start), UNCHANGED <<published, parsed, data_head, data_tail>>
  PROVE  StartInv(start)'
BY DEF StartInv

LEMMA ParserStays ==
  ASSUME NEW start, NEW v, ParserInv(start, v), UNCHANGED <<published, parsed, reader, got>>
  PROVE  ParserInv(start, v)'
<1>1. published' = published /\ parsed' = parsed /\ reader' = reader /\ got' = got
  OBVIOUS
<1> QED
  BY <1>1 DEF ParserInv, GivesUpRightly

LEMMA ContentStays ==
  ASSUME NEW start, NEW w, ContentInv(start, w), UNCHANGED <<published, parsed, ring>>
  PROVE  ContentInv(start, w)'
<1>1. published' = published /\ parsed' = parsed /\ ring' = ring
  OBVIOUS
<1>2. \A n \in (Len(parsed') + 1)..Len(published') : \A k \in 1..RecordSize(published'[n]) :
        ring'[(start[n] + k - 1) % BufferSize] = <<n, k>>
  <2>1. \A n \in (Len(parsed) + 1)..Len(published) : \A k \in 1..RecordSize(published[n]) :
          ring[(start[n] + k - 1) % BufferSize] = <<n, k>>
    BY DEF ContentInv
  <2> QED
    BY <1>1, <2>1
<1>3. \A k \in 1..w : ring'[(start[Len(published') + 1] + k - 1) % BufferSize] = <<Len(published') + 1, k>>
  BY <1>1 DEF ContentInv
<1>4. \A p \in start[Len(parsed') + 1]..(start[Len(published') + 1] - 1) :
        \E n \in (Len(parsed') + 1)..Len(published') :
          \E k \in 1..RecordSize(published'[n]) : p = start[n] + k - 1
  <2>1. \A p \in start[Len(parsed) + 1]..(start[Len(published) + 1] - 1) :
          \E n \in (Len(parsed) + 1)..Len(published) :
            \E k \in 1..RecordSize(published[n]) : p = start[n] + k - 1
    BY DEF ContentInv
  <2> QED
    BY <1>1, <2>1
<1> QED
  BY <1>2, <1>3, <1>4 DEF ContentInv

\* How far the kernel is in a record.
LEMMA KernelFacts ==
  ASSUME RingTypeOK, NEW start, NEW w \in Nat, StartInv(start), KernelInv(start, w)
  PROVE  /\ kernel.at = data_head <=> w = 0
         /\ kernel.left = <<>> /\ w = 0 => kernel.record = {}
         /\ kernel.left # <<>> \/ w # 0 =>
              \E r \in RecordType :
                /\ kernel.record = {r} /\ w \in 0..RecordSize(r) /\ Len(published) < MaxRecords
                /\ kernel.left = BytesOf(Len(published) + 1, w, RecordSize(r))
                /\ start[Len(published) + 1] + RecordSize(r) - start[Len(parsed) + 1] <= BufferSize
                /\ w < RecordSize(r) <=> kernel.left # <<>>
<1> DEFINE end == start[Len(published) + 1]
<1>1. end \in Nat /\ start[Len(parsed) + 1] \in Nat /\ start[Len(parsed) + 1] <= end
      /\ end + w - start[Len(parsed) + 1] \in 0..BufferSize /\ Len(published) \in Nat
  BY StartFacts
<1>2. kernel.at = (end + w) % Offsets /\ data_head = end % Offsets
  BY DEF KernelInv, StartInv
<1>3. kernel.at = data_head <=> w = 0
  <2>1. w \in 0..(Offsets - 1) /\ 0 \in 0..(Offsets - 1)
    <3> DEFINE b == start[Len(parsed) + 1]
    <3>1. end \in Nat /\ b \in Nat /\ b <= end /\ end + w - b \in 0..BufferSize
      BY <1>1
    <3> HIDE DEF end, b
    <3> QED
      BY <3>1, Constants
  <2> DEFINE a == end + w
  <2>2. a \in Int /\ end \in Int /\ a - end \in 0..(Offsets - 1) /\ end - end \in 0..(Offsets - 1)
        /\ a - end = w /\ end - end = 0
    <3>1. end \in Nat
      BY <1>1
    <3> HIDE DEF end
    <3> QED
      BY <2>1, <3>1
  <2> HIDE DEF a, end
  <2>3. Distance(a % Offsets, end % Offsets) = w /\ Distance(end % Offsets, end % Offsets) = 0
    BY <2>2, DistanceIs
  <2>4. a % Offsets = end % Offsets => w = 0
    BY <2>3
  <2>5. w = 0 => a = end
    BY <2>2
  <2>6. kernel.at = a % Offsets
    BY <1>2 DEF a
  <2> QED
    BY <1>2, <2>4, <2>5, <2>6
<1>4. ASSUME NEW r \in RecordType, w <= RecordSize(r),
             kernel.left = BytesOf(Len(published) + 1, w, RecordSize(r))
      PROVE  w \in 0..RecordSize(r) /\ (w < RecordSize(r) <=> kernel.left # <<>>)
  <2> DEFINE n == Len(published) + 1
             l == RecordSize(r)
  <2>1. l \in Nat /\ n \in Nat /\ w <= l
    BY <1>1, <1>4, SizeIs
  <2>2. kernel.left = BytesOf(n, w, l)
    BY <1>4
  <2>3. Len(kernel.left) = l - w /\ (w < l => kernel.left # <<>>)
    <3> HIDE DEF n, l
    <3>1. Len(BytesOf(n, w, l)) = l - w /\ (w < l => BytesOf(n, w, l) # <<>>)
      BY <2>1, BytesFacts
    <3> QED
      BY <2>2, <3>1
  <2>4. kernel.left # <<>> => Len(kernel.left) # 0
    BY DEF RingTypeOK
  <2> QED
    BY <2>1, <2>3, <2>4
<1>5. CASE kernel.record = {} /\ kernel.left = <<>> /\ w = 0
  BY <1>3, <1>5
<1>6. CASE ~ (kernel.record = {} /\ kernel.left = <<>> /\ w = 0)
  <2>1. PICK r \in RecordType :
          /\ kernel.record = {r} /\ w <= RecordSize(r) /\ Len(published) < MaxRecords
          /\ kernel.left = BytesOf(Len(published) + 1, w, RecordSize(r))
          /\ start[Len(published) + 1] + RecordSize(r) - start[Len(parsed) + 1] <= BufferSize
    BY <1>6 DEF KernelInv
  <2>2. w \in 0..RecordSize(r) /\ (w < RecordSize(r) <=> kernel.left # <<>>)
    BY <1>4, <2>1
  <2>3. kernel.left # <<>> \/ w # 0
    BY <2>2, SizeIs
  <2> QED
    BY <1>3, <2>1, <2>2, <2>3
<1> QED
  BY <1>5, <1>6

\* The kernel begins a record that has room, or loses it.
LEMMA KernelBeginsKeeps ==
  ASSUME RingTypeOK, NEW start \in [1..(Len(published) + 1) -> Nat], NEW w \in Nat, NEW v \in Nat,
         RingStarts(start, w, v), KernelBegins
  PROVE  RingInv'
<1> DEFINE end == start[Len(published) + 1]
           n == Len(published) + 1
<1>1. StartInv(start) /\ KernelInv(start, w) /\ ContentInv(start, w) /\ ParserInv(start, v)
  BY DEF RingStarts
<1>2. w = 0 /\ kernel.left = <<>> /\ kernel.record = {} /\ kernel.at = data_head
  BY <1>1, KernelFacts DEF KernelBegins
<1>3. UNCHANGED <<ring, data_head, data_tail, published, reader, got, parsed>>
  BY DEF KernelBegins
<1>4. StartInv(start)' /\ ParserInv(start, v)'
  <2>1. UNCHANGED <<published, parsed, data_head, data_tail>> /\ UNCHANGED <<published, parsed, reader, got>>
    BY <1>3
  <2>2. StartInv(start)'
    BY <1>1, <2>1, StartStays
  <2>3. ParserInv(start, v)'
    BY <1>1, <2>1, ParserStays
  <2> QED
    BY <2>2, <2>3
<1>5. ContentInv(start, w)'
  <2>1. UNCHANGED <<published, parsed, ring>>
    BY <1>3
  <2> QED
    BY <1>1, <2>1, ContentStays
<1>6. CASE kernel' = kernel
  <2>1. RingTypeOK' /\ KernelInv(start, w)'
    BY <1>1, <1>3, <1>6 DEF RingTypeOK, KernelInv
  <2> QED
    BY <1>3, <1>4, <1>5, <2>1 DEF RingInv, RingStarts
<1>7. ASSUME NEW r \in RecordType, RecordSize(r) <= Room,
             kernel' = [kernel EXCEPT !.left = [k \in 1..RecordSize(r) |-> <<n, k>>], !.record = {r}]
      PROVE  RingTypeOK' /\ KernelInv(start, w)'
  <2>1. end \in Nat /\ start[Len(parsed) + 1] \in Nat /\ end - start[Len(parsed) + 1] \in 0..BufferSize
        /\ Len(published) \in Nat /\ n \in Nat
    BY <1>1, <1>2, StartFacts
  <2>2. Room = BufferSize - (end - start[Len(parsed) + 1])
    <3> DEFINE b == start[Len(parsed) + 1]
    <3>1. kernel.at = end % Offsets /\ data_tail = b % Offsets
      BY <1>1, <1>2 DEF StartInv
    <3>2. end \in Int /\ b \in Int /\ end - b \in 0..(Offsets - 1)
      BY <2>1, Constants
    <3> HIDE DEF end, b
    <3> QED
      BY <3>1, <3>2, DistanceIs DEF Room, b
  <2>3. RecordSize(r) \in Nat
    BY SizeIs
  <2>4. [k \in 1..RecordSize(r) |-> <<n, k>>] = BytesOf(n, 0, RecordSize(r))
        /\ BytesOf(n, 0, RecordSize(r)) \in Seq(Bytes)
    <3>1. BytesOf(n, 0, RecordSize(r)) \in Seq(Bytes)
      BY <2>1, <2>3, BytesFacts
    <3> DEFINE l == RecordSize(r)
    <3>2. l - 0 = l /\ \A k \in 1..l : 0 + k = k
      BY <2>3
    <3> HIDE DEF n, l
    <3>3. [k \in 1..l |-> <<n, k>>] = BytesOf(n, 0, l)
      BY <3>2 DEF BytesOf
    <3> QED
      BY <3>1, <3>3 DEF l
  <2>5. kernel \in [at : Int, left : Seq(Bytes), record : SUBSET RecordType]
    BY DEF RingTypeOK
  <2> HIDE DEF n
  <2>6. /\ kernel' \in [at : Int, left : Seq(Bytes), record : SUBSET RecordType]
        /\ kernel'.at = kernel.at /\ kernel'.left = BytesOf(n, 0, RecordSize(r)) /\ kernel'.record = {r}
    BY <1>7, <2>4, <2>5
  <2>7. RingTypeOK'
    <3>1. published' = published /\ parsed' = parsed /\ ring' = ring /\ reader' = reader /\ got' = got
      BY <1>3
    <3>2. /\ ring' \in [0..(BufferSize - 1) -> Bytes]
          /\ published' \in Seq(RecordType) /\ Len(published)' <= MaxRecords
          /\ parsed' \in Seq(Nat) /\ Len(parsed)' <= Len(published)'
          /\ reader' \in [at : {"idle", "sample", "view", "failed", "died"}, head : Int, tail : Int,
                         objects : Seq(Nat)]
          /\ got' \in Seq(Bytes)
      BY <3>1 DEF RingTypeOK
    <3> QED
      BY <2>6, <3>2 DEF RingTypeOK
  <2>8. end + RecordSize(r) - start[Len(parsed) + 1] <= BufferSize
    <3> DEFINE b == start[Len(parsed) + 1]
               l == RecordSize(r)
    <3>1. l <= BufferSize - (end - b) /\ end \in Nat /\ b \in Nat /\ l \in Nat
      BY <1>7, <2>1, <2>2, <2>3
    <3> HIDE DEF end, b, l
    <3>2. end + l - b <= BufferSize
      BY <3>1, Constants
    <3> QED
      BY <3>2 DEF b, l
  <2>9. Len(published) < MaxRecords
    BY DEF KernelBegins
  <2>10. KernelInv(start, w)'
    <3>1. /\ kernel'.record = {r} /\ w <= RecordSize(r) /\ Len(published) < MaxRecords
          /\ kernel'.left = BytesOf(Len(published) + 1, w, RecordSize(r))
      BY <1>2, <2>3, <2>6, <2>9 DEF n
    <3>2. /\ kernel'.at = (end + w) % Offsets /\ end + w - start[Len(parsed) + 1] <= BufferSize
      BY <1>1, <2>6 DEF KernelInv
    <3> QED
      BY <1>3, <2>8, <3>1, <3>2 DEF KernelInv
  <2> QED
    BY <2>7, <2>10
<1>8. kernel' = kernel \/
      \E r \in RecordType :
        /\ RecordSize(r) <= Room
        /\ kernel' = [kernel EXCEPT !.left = [k \in 1..RecordSize(r) |-> <<n, k>>], !.record = {r}]
  <2>1. PICK nr \in NumValues :
          LET r == [type |-> IF lost THEN "lost" ELSE "sample", nr |-> nr]
          IN  IF RecordSize(r) > Room THEN lost' = TRUE /\ UNCHANGED kernel
              ELSE /\ kernel' = [kernel EXCEPT !.left = [k \in 1..RecordSize(r) |-> <<n, k>>],
                                               !.record = {r}]
                   /\ lost' = FALSE
    BY DEF KernelBegins
  <2> DEFINE r == [type |-> IF lost THEN "lost" ELSE "sample", nr |-> nr]
  <2>2. r \in RecordType
    BY DEF RecordType
  <2>3. RecordSize(r) \in Nat /\ Room \in Int
    <3>1. RecordSize(r) \in Nat
      BY <2>2, SizeIs
    <3>2. kernel.at \in Int /\ data_tail \in Int
      <4>1. kernel.at \in Int
        BY DEF RingTypeOK
      <4>2. start[Len(parsed) + 1] \in Nat
        BY <1>1, StartFacts
      <4>3. data_tail = start[Len(parsed) + 1] % Offsets
        BY <1>1 DEF StartInv
      <4> QED
        BY <4>1, <4>2, <4>3, Constants
    <3> QED
      BY <3>1, <3>2, Constants DEF Room, Distance
  <2>4. RecordSize(r) > Room \/ RecordSize(r) <= Room
    BY <2>3
  <2> QED
    BY <2>1, <2>2, <2>4
<1>9. ASSUME NEW r \in RecordType, RecordSize(r) <= Room,
             kernel' = [kernel EXCEPT !.left = [k \in 1..RecordSize(r) |-> <<n, k>>], !.record = {r}]
      PROVE  RingInv'
  <2>1. RingTypeOK' /\ KernelInv(start, w)'
    BY <1>7, <1>9
  <2> QED
    BY <1>3, <1>4, <1>5, <2>1 DEF RingInv, RingStarts
<1> QED
  BY <1>6, <1>8, <1>9

\* The next byte of the kernel goes where nothing is that has yet to be read.
LEMMA NextByte ==
  ASSUME RingTypeOK, NEW start, NEW w \in Nat, StartInv(start), KernelInv(start, w), KernelWrites
  PROVE  /\ \E r \in RecordType :
              /\ kernel.record = {r} /\ w + 1 <= RecordSize(r) /\ Len(published) < MaxRecords
              /\ start[Len(published) + 1] + RecordSize(r) - start[Len(parsed) + 1] <= BufferSize
              /\ start[Len(published) + 1] + (w + 1) - start[Len(parsed) + 1] <= BufferSize
              /\ kernel'.left = BytesOf(Len(published) + 1, w + 1, RecordSize(r))
              /\ kernel'.left \in Seq(Bytes)
         /\ kernel'.record = kernel.record
         /\ kernel'.at = (start[Len(published) + 1] + (w + 1)) % Offsets /\ kernel'.at \in Int
         /\ kernel' \in [at : Int, left : Seq(Bytes), record : SUBSET RecordType]
         /\ ring' = [ring EXCEPT ![(start[Len(published) + 1] + w) % BufferSize] =
                       <<Len(published) + 1, w + 1>>]
         /\ \A p \in start[Len(parsed) + 1]..(start[Len(published) + 1] + w - 1) :
              ring'[p % BufferSize] = ring[p % BufferSize]
<1> DEFINE e == start[Len(published) + 1]
           b == start[Len(parsed) + 1]
           n == Len(published) + 1
<1>1. e \in Nat /\ b \in Nat /\ b <= e /\ n \in Nat
  BY StartFacts
<1>2. kernel.left # <<>>
  BY DEF KernelWrites
<1>3. PICK r \in RecordType :
        /\ kernel.record = {r} /\ w \in 0..RecordSize(r) /\ Len(published) < MaxRecords
        /\ kernel.left = BytesOf(n, w, RecordSize(r))
        /\ e + RecordSize(r) - b <= BufferSize
        /\ w < RecordSize(r)
  BY <1>2, KernelFacts
<1> DEFINE l == RecordSize(r)
<1>4. l \in Nat /\ w < l /\ w + 1 <= l
  BY <1>3, SizeIs
<1>5. Head(kernel.left) = <<n, w + 1>> /\ Tail(kernel.left) = BytesOf(n, w + 1, l)
      /\ Tail(kernel.left) \in Seq(Bytes)
  <2>1. kernel.left = BytesOf(n, w, l)
    BY <1>3
  <2> HIDE DEF n, l
  <2>2. n \in Nat /\ l \in Nat /\ w \in Nat /\ w + 1 \in Nat /\ w < l /\ w <= l /\ w + 1 <= l
    BY <1>1, <1>4
  <2>3. Head(BytesOf(n, w, l)) = <<n, w + 1>> /\ Tail(BytesOf(n, w, l)) = BytesOf(n, w + 1, l)
    BY <2>2, BytesFacts, ZenonT(30)
  <2>4. BytesOf(n, w + 1, l) \in Seq(Bytes)
    BY <2>2, BytesFacts
  <2> QED
    BY <2>1, <2>3, <2>4
<1>6. kernel.at = (e + w) % Offsets
  BY DEF KernelInv
<1>7. Slot(kernel.at) = (e + w) % BufferSize /\ (kernel.at + 1) % Offsets = (e + (w + 1)) % Offsets
  <2> DEFINE a == e + w
             t == a % Offsets
  <2>1. a \in Int /\ a + 0 = a /\ a + 1 = e + (w + 1)
    BY <1>1
  <2>2. t \in Int /\ t + 0 = t
    BY <1>1, Constants
  <2>3. (t + 0) % BufferSize = (a + 0) % BufferSize /\ (t + 1) % Offsets = (a + 1) % Offsets
    <3> HIDE DEF a
    <3>1. a \in Int /\ 0 \in Int /\ 1 \in Int
      BY <2>1
    <3>2. ((a % Offsets) + 0) % BufferSize = (a + 0) % BufferSize
      BY <3>1, Wraps
    <3>3. ((a % Offsets) + 1) % Offsets = (a + 1) % Offsets
      BY <3>1, Wraps
    <3> QED
      BY <3>2, <3>3
  <2>4. kernel.at = t
    BY <1>6
  <2> HIDE DEF a, t
  <2>5. t % BufferSize = a % BufferSize
    BY <2>1, <2>2, <2>3
  <2>6. Slot(kernel.at) = a % BufferSize /\ (kernel.at + 1) % Offsets = (a + 1) % Offsets
    BY <2>3, <2>4, <2>5 DEF Slot
  <2> QED
    BY <2>1, <2>6 DEF a
<1>8. kernel \in [at : Int, left : Seq(Bytes), record : SUBSET RecordType]
  BY DEF RingTypeOK
<1>9. /\ kernel'.at = (e + (w + 1)) % Offsets /\ kernel'.left = BytesOf(n, w + 1, l)
      /\ kernel'.record = kernel.record
      /\ kernel'.left \in Seq(Bytes)
      /\ kernel' = [kernel EXCEPT !.at = (e + (w + 1)) % Offsets, !.left = BytesOf(n, w + 1, l)]
  <2>1. kernel' = [kernel EXCEPT !.at = (kernel.at + 1) % Offsets, !.left = Tail(kernel.left)]
    BY DEF KernelWrites
  <2>2. kernel' = [kernel EXCEPT !.at = (e + (w + 1)) % Offsets, !.left = BytesOf(n, w + 1, l)]
    BY <1>5, <1>7, <2>1
  <2> HIDE DEF e, n, l
  <2> QED
    BY <1>5, <1>8, <2>2
<1>10. kernel'.at \in Int /\ kernel' \in [at : Int, left : Seq(Bytes), record : SUBSET RecordType]
  <2> DEFINE z == e + (w + 1)
  <2>1. z \in Int
    BY <1>1
  <2>2. z % Offsets \in Int
    <3> HIDE DEF z
    <3> QED
      BY <2>1, Constants
  <2> HIDE DEF e, n, l
  <2> QED
    BY <1>8, <1>9, <2>2
<1>11. ring' = [ring EXCEPT ![(e + w) % BufferSize] = <<n, w + 1>>]
  BY <1>5, <1>7 DEF KernelWrites
<1>12. e + (w + 1) - b <= BufferSize
  <2> HIDE DEF e, b, l
  <2>1. e + l - b <= BufferSize
    BY <1>3 DEF l
  <2> QED
    BY <1>1, <1>4, <2>1, Constants
<1>13. ASSUME NEW p \in b..(e + w - 1)
       PROVE  ring'[p % BufferSize] = ring[p % BufferSize]
  <2> DEFINE a == e + w
             s == a % BufferSize
             t == p % BufferSize
  <2>1. a \in Int /\ p \in Int /\ a - p \in 1..(BufferSize - 1)
    <3> HIDE DEF e, b
    <3> QED
      BY <1>1, <1>12, Constants
  <2>2. s # t
    <3> HIDE DEF a
    <3> QED
      BY <2>1, SlotsDiffer
  <2>3. ring' = [ring EXCEPT ![s] = <<n, w + 1>>]
    BY <1>11
  <2>4. ring \in [0..(BufferSize - 1) -> Bytes] /\ t \in 0..(BufferSize - 1)
    <3>1. t \in 0..(BufferSize - 1)
      BY <2>1, Constants, Division
    <3> QED
      BY <3>1 DEF RingTypeOK
  <2> HIDE DEF s, t, n
  <2>5. ring'[t] = ring[t]
    BY <2>2, <2>3, <2>4
  <2> QED
    BY <2>5 DEF t
<1>14. /\ w + 1 <= l /\ e + l - b <= BufferSize /\ e + (w + 1) - b <= BufferSize
  BY <1>3, <1>4, <1>12
<1> QED
  BY <1>3, <1>9, <1>10, <1>11, <1>13, <1>14

\* It writes a byte of it,
LEMMA KernelWritesKeeps ==
  ASSUME RingTypeOK, NEW start \in [1..(Len(published) + 1) -> Nat], NEW w \in Nat, NEW v \in Nat,
         RingStarts(start, w, v), KernelWrites
  PROVE  RingInv'
<1> DEFINE e == start[Len(published) + 1]
           b == start[Len(parsed) + 1]
           n == Len(published) + 1
<1>1. StartInv(start) /\ KernelInv(start, w) /\ ContentInv(start, w) /\ ParserInv(start, v)
  BY DEF RingStarts
<1>2. UNCHANGED <<data_head, data_tail, published, reader, got, parsed>>
  BY DEF KernelWrites
<1>3. PICK r \in RecordType :
        /\ kernel.record = {r} /\ w + 1 <= RecordSize(r) /\ Len(published) < MaxRecords
        /\ e + RecordSize(r) - b <= BufferSize
        /\ e + (w + 1) - b <= BufferSize
        /\ kernel'.left = BytesOf(n, w + 1, RecordSize(r))
        /\ kernel'.left \in Seq(Bytes)
  BY <1>1, NextByte
<1>4. /\ kernel'.record = kernel.record
      /\ kernel'.at = (e + (w + 1)) % Offsets /\ kernel'.at \in Int
      /\ kernel' \in [at : Int, left : Seq(Bytes), record : SUBSET RecordType]
      /\ ring' = [ring EXCEPT ![(e + w) % BufferSize] = <<n, w + 1>>]
  BY <1>1, NextByte
<1>5. \A p \in b..(e + w - 1) : ring'[p % BufferSize] = ring[p % BufferSize]
  BY <1>1, NextByte
<1>6. e \in Nat /\ b \in Nat /\ b <= e /\ n \in Nat /\ w + 1 \in Nat
  BY <1>1, StartFacts
<1>7. StartInv(start)' /\ ParserInv(start, v)'
  <2>1. UNCHANGED <<published, parsed, data_head, data_tail>> /\ UNCHANGED <<published, parsed, reader, got>>
    BY <1>2
  <2>2. StartInv(start)'
    BY <1>1, <2>1, StartStays
  <2>3. ParserInv(start, v)'
    BY <1>1, <2>1, ParserStays
  <2> QED
    BY <2>2, <2>3
<1>8. published' = published /\ parsed' = parsed /\ reader' = reader /\ got' = got
  BY <1>2
<1>9. RingTypeOK'
  <2>1. ring' \in [0..(BufferSize - 1) -> Bytes]
    <3>1. <<n, w + 1>> \in Bytes
      BY <1>6 DEF Bytes
    <3> HIDE DEF n
    <3> QED
      BY <1>4, <3>1 DEF RingTypeOK
  <2>2. /\ published' \in Seq(RecordType) /\ Len(published)' <= MaxRecords
        /\ parsed' \in Seq(Nat) /\ Len(parsed)' <= Len(published)'
        /\ reader' \in [at : {"idle", "sample", "view", "failed", "died"}, head : Int, tail : Int,
                        objects : Seq(Nat)]
        /\ got' \in Seq(Bytes)
    BY <1>8 DEF RingTypeOK
  <2> QED
    BY <1>4, <2>1, <2>2 DEF RingTypeOK
<1>10. KernelInv(start, w + 1)'
  <2>1. /\ kernel'.record = {r} /\ w + 1 <= RecordSize(r) /\ Len(published)' < MaxRecords
        /\ kernel'.left = BytesOf(Len(published)' + 1, w + 1, RecordSize(r))
        /\ start[Len(published)' + 1] + RecordSize(r) - start[Len(parsed)' + 1] <= BufferSize
    BY <1>3, <1>4, <1>8
  <2>2. /\ kernel'.at = (start[Len(published)' + 1] + (w + 1)) % Offsets
        /\ start[Len(published)' + 1] + (w + 1) - start[Len(parsed)' + 1] <= BufferSize
    BY <1>3, <1>4, <1>8
  <2> QED
    BY <2>1, <2>2 DEF KernelInv
<1>11. ContentInv(start, w + 1)'
  <2>1. ASSUME NEW m \in (Len(parsed) + 1)..Len(published), NEW k \in 1..RecordSize(published[m])
        PROVE  ring'[(start[m] + k - 1) % BufferSize] = <<m, k>>
    <3>1. /\ m \in 1..Len(published) /\ published[m] \in RecordType
          /\ start[m] \in Nat /\ start[m + 1] \in Nat /\ b <= start[m] /\ start[m + 1] <= e
      BY <1>1, StartFacts
    <3>2. start[m + 1] = start[m] + RecordSize(published[m])
      BY <1>1, <3>1 DEF StartInv
    <3> DEFINE l == RecordSize(published[m])
               a == start[m]
               p == a + k - 1
    <3>3. l \in Nat /\ a \in Nat /\ b <= a /\ a + l <= e
      BY <3>1, <3>2, SizeIs
    <3>4. p \in b..(e + w - 1)
      <4>1. k \in 1..l
        OBVIOUS
      <4> HIDE DEF l, a, b, e
      <4> QED
        BY <1>6, <3>3, <4>1
    <3>5. ring'[p % BufferSize] = ring[p % BufferSize]
      <4> HIDE DEF p
      <4> QED
        BY <1>5, <3>4
    <3>6. ring[p % BufferSize] = <<m, k>>
      BY <1>1 DEF ContentInv
    <3> QED
      BY <3>5, <3>6
  <2>2. ASSUME NEW k \in 1..(w + 1)
        PROVE  ring'[(e + k - 1) % BufferSize] = <<n, k>>
    <3> DEFINE p == e + k - 1
    <3>1. CASE k = w + 1
      <4>1. p = e + w /\ p \in Int
        BY <1>6, <3>1
      <4>2. p % BufferSize \in 0..(BufferSize - 1)
        <5> HIDE DEF p
        <5> QED
          BY <4>1, Constants, Division
      <4> DEFINE s == p % BufferSize
      <4>3. ring' = [ring EXCEPT ![s] = <<n, w + 1>>] /\ ring \in [0..(BufferSize - 1) -> Bytes]
        BY <1>4, <4>1 DEF RingTypeOK
      <4>4. s \in 0..(BufferSize - 1)
        BY <4>2
      <4> HIDE DEF s, n
      <4>5. ring'[s] = <<n, w + 1>>
        BY <4>3, <4>4
      <4> QED
        BY <3>1, <4>5 DEF s
    <3>2. CASE k # w + 1
      <4>1. k \in 1..w
        BY <3>2
      <4>2. p \in b..(e + w - 1)
        <5> HIDE DEF b, e
        <5> QED
          BY <1>6, <4>1
      <4>3. ring[p % BufferSize] = <<n, k>>
        BY <1>1, <4>1 DEF ContentInv
      <4>4. ring'[p % BufferSize] = ring[p % BufferSize]
        <5> HIDE DEF p
        <5> QED
          BY <1>5, <4>2
      <4> QED
        BY <4>3, <4>4
    <3> QED
      BY <3>1, <3>2
  <2>3. \A p \in b..(e - 1) :
          \E m \in (Len(parsed) + 1)..Len(published) :
            \E k \in 1..RecordSize(published[m]) : p = start[m] + k - 1
    BY <1>1 DEF ContentInv
  <2>4. /\ \A m \in (Len(parsed)' + 1)..Len(published)' : \A k \in 1..RecordSize(published'[m]) :
             ring'[(start[m] + k - 1) % BufferSize] = <<m, k>>
        /\ \A k \in 1..(w + 1) :
             ring'[(start[Len(published)' + 1] + k - 1) % BufferSize] = <<Len(published)' + 1, k>>
        /\ \A p \in start[Len(parsed)' + 1]..(start[Len(published)' + 1] - 1) :
             \E m \in (Len(parsed)' + 1)..Len(published)' :
               \E k \in 1..RecordSize(published'[m]) : p = start[m] + k - 1
    <3>1. \A m \in (Len(parsed)' + 1)..Len(published)' : \A k \in 1..RecordSize(published'[m]) :
            ring'[(start[m] + k - 1) % BufferSize] = <<m, k>>
      <4>1. \A m \in (Len(parsed) + 1)..Len(published) : \A k \in 1..RecordSize(published[m]) :
              ring'[(start[m] + k - 1) % BufferSize] = <<m, k>>
        BY <2>1
      <4> QED
        BY <1>8, <4>1
    <3>2. \A k \in 1..(w + 1) :
            ring'[(start[Len(published)' + 1] + k - 1) % BufferSize] = <<Len(published)' + 1, k>>
      BY <1>8, <2>2
    <3>3. \A p \in start[Len(parsed)' + 1]..(start[Len(published)' + 1] - 1) :
             \E m \in (Len(parsed)' + 1)..Len(published)' :
               \E k \in 1..RecordSize(published'[m]) : p = start[m] + k - 1
      BY <1>8, <2>3
    <3> QED
      BY <3>1, <3>2, <3>3
  <2> QED
    BY <2>4 DEF ContentInv
<1>12. RingStarts(start, w + 1, v)'
  BY <1>7, <1>10, <1>11 DEF RingStarts
<1>13. start \in [1..(Len(published)' + 1) -> Nat]
  BY <1>8
<1> QED
  BY <1>6, <1>9, <1>12, <1>13 DEF RingInv

\* What is published is a whole record, the one that was begun.
LEMMA PublishedIs ==
  ASSUME RingTypeOK, NEW start, NEW w \in Nat, StartInv(start), KernelInv(start, w), KernelPublishes
  PROVE  /\ \E r \in RecordType :
              /\ published' = Append(published, r) /\ w = RecordSize(r)
              /\ Len(published') = Len(published) + 1 /\ published' \in Seq(RecordType)
              /\ Len(published') <= MaxRecords
              /\ published'[Len(published) + 1] = r
              /\ \A m \in 1..Len(published) : published'[m] = published[m]
         /\ kernel' \in [at : Int, left : Seq(Bytes), record : SUBSET RecordType]
         /\ kernel'.at = kernel.at /\ kernel'.left = <<>> /\ kernel'.record = {}
         /\ data_head' = kernel.at
         /\ UNCHANGED <<ring, data_tail, lost, reader, got, parsed>>
<1>1. w # 0 /\ kernel.left = <<>>
  BY KernelFacts DEF KernelPublishes
<1>2. PICK r \in RecordType :
        /\ kernel.record = {r} /\ w \in 0..RecordSize(r) /\ Len(published) < MaxRecords
        /\ w < RecordSize(r) <=> kernel.left # <<>>
  BY <1>1, KernelFacts
<1>3. w = RecordSize(r)
  <2>1. RecordSize(r) \in Nat
    BY SizeIs
  <2> QED
    BY <1>1, <1>2, <2>1
<1>4. published' = Append(published, r)
  BY <1>2 DEF KernelPublishes
<1>5. published \in Seq(RecordType) /\ MaxRecords \in Nat
  BY Constants DEF RingTypeOK
<1>6. /\ Len(published') = Len(published) + 1 /\ published' \in Seq(RecordType)
      /\ Len(published') <= MaxRecords
      /\ published'[Len(published) + 1] = r
      /\ \A m \in 1..Len(published) : published'[m] = published[m]
  BY <1>2, <1>4, <1>5
<1>7. /\ kernel' \in [at : Int, left : Seq(Bytes), record : SUBSET RecordType]
      /\ kernel'.at = kernel.at /\ kernel'.left = <<>> /\ kernel'.record = {}
  <2>1. kernel' = [kernel EXCEPT !.record = {}]
    BY DEF KernelPublishes
  <2>2. kernel \in [at : Int, left : Seq(Bytes), record : SUBSET RecordType]
    BY DEF RingTypeOK
  <2> QED
    BY <1>1, <2>1, <2>2
<1>8. data_head' = kernel.at /\ UNCHANGED <<ring, data_tail, lost, reader, got, parsed>>
  BY DEF KernelPublishes
<1> QED
  BY <1>3, <1>4, <1>6, <1>7, <1>8

\* and moves data_head behind it.
LEMMA KernelPublishesKeeps ==
  ASSUME RingTypeOK, NEW start \in [1..(Len(published) + 1) -> Nat], NEW w \in Nat, NEW v \in Nat,
         RingStarts(start, w, v), KernelPublishes
  PROVE  RingInv'
<1> DEFINE np == Len(published)
           nq == Len(parsed)
           e == start[np + 1]
           b == start[nq + 1]
<1>1. StartInv(start) /\ KernelInv(start, w) /\ ContentInv(start, w) /\ ParserInv(start, v)
  BY DEF RingStarts
<1>2. PICK r \in RecordType :
        /\ published' = Append(published, r) /\ w = RecordSize(r)
        /\ Len(published') = np + 1 /\ published' \in Seq(RecordType) /\ Len(published') <= MaxRecords
        /\ published'[np + 1] = r
        /\ \A m \in 1..np : published'[m] = published[m]
  BY <1>1, PublishedIs
<1>3. /\ kernel' \in [at : Int, left : Seq(Bytes), record : SUBSET RecordType]
      /\ kernel'.at = kernel.at /\ kernel'.left = <<>> /\ kernel'.record = {}
      /\ data_head' = kernel.at
      /\ ring' = ring /\ data_tail' = data_tail /\ reader' = reader /\ got' = got /\ parsed' = parsed
  BY <1>1, PublishedIs
<1>4. e \in Nat /\ b \in Nat /\ b <= e /\ np \in Nat /\ nq \in 0..np
  BY <1>1, StartFacts
<1>5. PICK next :
        /\ next \in [1..((np + 1) + 1) -> Nat]
        /\ \A m \in 1..(np + 1) : m \in 1..(np + 2) /\ next[m] = start[m]
        /\ next[np + 2] = e + w
  <2> DEFINE next == [m \in 1..(np + 2) |-> IF m <= np + 1 THEN start[m] ELSE e + w]
  <2>1. start \in [1..(np + 1) -> Nat] /\ e + w \in Nat /\ (np + 1) + 1 = np + 2
    BY <1>4
  <2>2. next \in [1..(np + 2) -> Nat]
    <3> HIDE DEF np, e
    <3> QED
      BY <1>4, <2>1
  <2>3. \A m \in 1..(np + 1) : m \in 1..(np + 2) /\ next[m] = start[m]
    <3> HIDE DEF np, e
    <3> QED
      BY <1>4, <2>1
  <2>4. next[np + 2] = e + w
    <3> HIDE DEF np, e
    <3> QED
      BY <1>4, <2>1
  <2> QED
    BY <2>1, <2>2, <2>3, <2>4
<1>6. RingTypeOK'
  <2>1. nq <= np + 1
    BY <1>4
  <2> HIDE DEF np, nq
  <2> QED
    BY <1>2, <1>3, <2>1 DEF RingTypeOK, nq
<1>7. StartInv(next)'
  <2>1. \A m \in 1..np : start[m + 1] = start[m] + RecordSize(published[m])
    BY <1>1 DEF StartInv
  <2>2. \A i, j \in 1..(np + 1) : i <= j => start[i] <= start[j]
    BY <1>1 DEF StartInv
  <2>3. data_tail = b % Offsets /\ kernel.at = (e + w) % Offsets
    BY <1>1 DEF StartInv, KernelInv
  <2>4. next[nq + 1] = b
    <3>1. nq + 1 \in 1..(np + 1)
      BY <1>4
    <3> QED
      BY <1>5, <3>1
  <2>5. ASSUME NEW m \in 1..(np + 1)
        PROVE  next[m + 1] = next[m] + RecordSize(published'[m])
    <3>1. CASE m = np + 1
      <4>1. m + 1 = np + 2 /\ next[m] = e /\ published'[m] = r
        BY <1>2, <1>4, <1>5, <3>1
      <4> QED
        BY <1>2, <1>5, <4>1
    <3>2. CASE m # np + 1
      <4>1. m \in 1..np /\ m + 1 \in 1..(np + 1)
        BY <1>4, <3>2
      <4>2. next[m + 1] = start[m + 1] /\ next[m] = start[m] /\ published'[m] = published[m]
        BY <1>2, <1>5, <4>1
      <4> QED
        BY <2>1, <4>1, <4>2
    <3> QED
      BY <3>1, <3>2
  <2>6. ASSUME NEW i \in 1..((np + 1) + 1), NEW j \in 1..((np + 1) + 1), i <= j
        PROVE  next[i] <= next[j]
    <3>1. CASE j # np + 2
      <4>1. i \in 1..(np + 1) /\ j \in 1..(np + 1)
        BY <1>4, <2>6, <3>1
      <4> QED
        BY <1>5, <2>2, <2>6, <4>1
    <3>2. CASE j = np + 2 /\ i # np + 2
      <4>1. i \in 1..(np + 1) /\ np + 1 \in 1..(np + 1) /\ i <= np + 1
        BY <1>4, <3>2
      <4>2. next[i] = start[i] /\ start[i] <= e /\ next[j] = e + w /\ start[i] \in Nat
        BY <1>5, <2>2, <3>2, <4>1
      <4> HIDE DEF e
      <4> QED
        BY <1>4, <4>2
    <3>3. CASE j = np + 2 /\ i = np + 2
      <4>1. next[i] \in Nat
        BY <1>5
      <4> QED
        BY <3>3, <4>1
    <3> QED
      BY <3>1, <3>2, <3>3
  <2>7. Len(published') + 1 = (np + 1) + 1 /\ (np + 1) + 1 = np + 2 /\ Len(published') = np + 1
    BY <1>2, <1>4
  <2>8. /\ next \in [1..(Len(published') + 1) -> Nat]
        /\ \A m \in 1..Len(published') : next[m + 1] = next[m] + RecordSize(published'[m])
        /\ \A i, j \in 1..(Len(published') + 1) : i <= j => next[i] <= next[j]
    BY <1>5, <2>5, <2>6, <2>7
  <2>9. data_head' = next[Len(published') + 1] % Offsets /\ data_tail' = next[Len(parsed') + 1] % Offsets
    BY <1>3, <1>5, <2>3, <2>4, <2>7
  <2> QED
    BY <2>8, <2>9 DEF StartInv
<1>8. KernelInv(next, 0)'
  <2>1. next[Len(published') + 1] = e + w /\ next[Len(parsed') + 1] = b
    <3>1. nq + 1 \in 1..(np + 1) /\ Len(published') + 1 = np + 2
      BY <1>2, <1>4
    <3> QED
      BY <1>3, <1>5, <3>1
  <2>2. kernel.at = (e + w) % Offsets
    BY <1>1 DEF KernelInv
  <2>3. e + w - b <= BufferSize
    BY <1>1 DEF KernelInv
  <2>4. /\ kernel'.at = (next[Len(published') + 1] + 0) % Offsets
        /\ next[Len(published') + 1] + 0 - next[Len(parsed') + 1] <= BufferSize
        /\ kernel'.record = {} /\ kernel'.left = <<>>
    <3> DEFINE z == e + w
    <3>1. z + 0 = z /\ z \in Nat /\ b \in Nat
      BY <1>4
    <3>2. kernel'.at = kernel.at /\ kernel'.record = {} /\ kernel'.left = <<>>
      BY <1>3
    <3>3. kernel'.at = z % Offsets
      BY <2>2, <3>2
    <3>4. z - b <= BufferSize
      <4>1. e \in Nat /\ b \in Nat
        BY <1>4
      <4> HIDE DEF e, b
      <4> QED
        BY <2>3, <4>1
    <3>5. next[Len(published') + 1] = z /\ next[Len(parsed') + 1] = b
      BY <2>1
    <3> HIDE DEF z, b
    <3>6. next[Len(published') + 1] + 0 = z
      BY <3>1, <3>5
    <3>7. kernel'.at = (next[Len(published') + 1] + 0) % Offsets
      BY <3>3, <3>6
    <3>8. next[Len(published') + 1] + 0 - next[Len(parsed') + 1] <= BufferSize
      BY <3>1, <3>5, <3>4
    <3> QED
      BY <3>2, <3>7, <3>8
  <2> QED
    BY <2>4 DEF KernelInv
<1>9. ContentInv(next, 0)'
  <2>1. \A m \in (nq + 1)..np : \A k \in 1..RecordSize(published[m]) :
          ring[(start[m] + k - 1) % BufferSize] = <<m, k>>
    BY <1>1 DEF ContentInv
  <2>2. \A k \in 1..w : ring[(e + k - 1) % BufferSize] = <<np + 1, k>>
    BY <1>1 DEF ContentInv
  <2>3. \A p \in b..(e - 1) :
          \E m \in (nq + 1)..np : \E k \in 1..RecordSize(published[m]) : p = start[m] + k - 1
    BY <1>1 DEF ContentInv
  <2>4. \A m \in (nq + 1)..(np + 1) :
          \/ m = np + 1 /\ next[m] = e /\ published'[m] = r
          \/ m \in (nq + 1)..np /\ next[m] = start[m] /\ published'[m] = published[m]
    <3> TAKE m \in (nq + 1)..(np + 1)
    <3>1. m \in 1..(np + 1) /\ (m = np + 1 \/ (m \in 1..np /\ m \in (nq + 1)..np))
      BY <1>4
    <3> QED
      BY <1>2, <1>5, <3>1
  <2>5. next[nq + 1] = b /\ next[(np + 1) + 1] = e + w
    <3>1. nq + 1 \in 1..(np + 1) /\ (np + 1) + 1 = np + 2
      BY <1>4
    <3> QED
      BY <1>5, <3>1
  <2>6. ASSUME NEW m \in (nq + 1)..(np + 1), NEW k \in 1..RecordSize(published'[m])
        PROVE  ring[(next[m] + k - 1) % BufferSize] = <<m, k>>
    BY <1>2, <2>1, <2>2, <2>4
  <2>7. ASSUME NEW p \in b..((e + w) - 1)
        PROVE  \E m \in (nq + 1)..(np + 1) : \E k \in 1..RecordSize(published'[m]) : p = next[m] + k - 1
    <3>1. CASE p < e
      <4>1. p \in b..(e - 1)
        <5> HIDE DEF b, e
        <5> QED
          BY <1>4, <3>1
      <4>2. PICK m \in (nq + 1)..np : \E k \in 1..RecordSize(published[m]) : p = start[m] + k - 1
        BY <2>3, <4>1
      <4>3. m \in (nq + 1)..(np + 1) /\ m \in 1..np /\ m \in 1..(np + 1)
        BY <1>4
      <4>4. next[m] = start[m] /\ published'[m] = published[m]
        BY <1>2, <1>5, <4>3
      <4> QED
        BY <4>2, <4>3, <4>4
    <3>2. CASE ~ (p < e)
      <4>1. p - e + 1 \in 1..w /\ p = e + (p - e + 1) - 1
        <5> HIDE DEF b, e
        <5> QED
          BY <1>4, <3>2
      <4>2. np + 1 \in (nq + 1)..(np + 1) /\ np + 1 \in 1..(np + 1)
        BY <1>4
      <4>3. next[np + 1] = e /\ published'[np + 1] = r
        BY <1>2, <1>5, <4>2
      <4> QED
        BY <1>2, <4>1, <4>2, <4>3
    <3> QED
      BY <3>1, <3>2
  <2>8. Len(published') = np + 1 /\ Len(parsed') = nq
    BY <1>2, <1>3
  <2>9. \A m \in (Len(parsed') + 1)..Len(published') : \A k \in 1..RecordSize(published'[m]) :
          ring'[(next[m] + k - 1) % BufferSize] = <<m, k>>
    BY <1>3, <2>6, <2>8
  <2>10. \A p \in next[Len(parsed') + 1]..(next[Len(published') + 1] - 1) :
          \E m \in (Len(parsed') + 1)..Len(published') :
            \E k \in 1..RecordSize(published'[m]) : p = next[m] + k - 1
    BY <2>5, <2>7, <2>8
  <2>11. \A k \in 1..0 : ring'[(next[Len(published') + 1] + k - 1) % BufferSize] = <<Len(published') + 1, k>>
    OBVIOUS
  <2> QED
    BY <2>9, <2>10, <2>11 DEF ContentInv
<1>10. ParserInv(next, v)'
  <2>1. reader.at # "idle" => nq + 1 \in 1..np /\ published'[nq + 1] = published[nq + 1]
    <3>1. reader.at # "idle" => nq + 1 \in 1..np
      BY <1>1, <1>4 DEF ParserInv
    <3> QED
      BY <1>2, <3>1
  <2>2. reader.at = "view" => v \in (nq + 1)..(np + 1) /\ next[v + 1] = start[v + 1] /\ next[nq + 1] = b
    <3>1. reader.at = "view" => v \in (nq + 1)..np
      BY <1>1 DEF ParserInv
    <3>2. reader.at = "view" => v \in (nq + 1)..(np + 1) /\ v + 1 \in 1..(np + 1) /\ nq + 1 \in 1..(np + 1)
      BY <1>4, <3>1
    <3> QED
      BY <1>5, <3>2
  <2>3. reader.at # "idle" => Len(parsed') < Len(published')
    <3>1. reader.at # "idle" => nq < np
      BY <1>1 DEF ParserInv
    <3> QED
      BY <1>2, <1>3, <1>4, <3>1
  <2>4. reader.at \in {"sample", "view"} => published'[Len(parsed') + 1].type = "sample"
    BY <1>1, <1>3, <2>1 DEF ParserInv
  <2>5. reader.at = "view" =>
          /\ v \in (Len(parsed') + 1)..Len(published')
          /\ reader.head = next[v + 1] % Offsets
          /\ reader.tail = (next[Len(parsed') + 1] + Len(got)) % Offsets
          /\ got = BytesOf(Len(parsed') + 1, 0, Len(got))
          /\ ToRead(published'[Len(parsed') + 1].nr, Len(got), reader.objects)
    <3>1. reader.at = "view" =>
          /\ reader.head = start[v + 1] % Offsets
          /\ reader.tail = (b + Len(got)) % Offsets
          /\ got = BytesOf(nq + 1, 0, Len(got))
          /\ ToRead(published[nq + 1].nr, Len(got), reader.objects)
      BY <1>1 DEF ParserInv
    <3> QED
      BY <1>2, <1>3, <2>1, <2>2, <3>1
  <2>6. GivesUpRightly'
    <3>1. GivesUpRightly
      BY <1>1 DEF ParserInv
    <3> QED
      BY <1>3, <2>1, <3>1 DEF GivesUpRightly
  <2>7. reader.at # "view" => got = <<>>
    BY <1>1 DEF ParserInv
  <2> QED
    BY <1>3, <2>3, <2>4, <2>5, <2>6, <2>7 DEF ParserInv
<1>11. next \in [1..(Len(published') + 1) -> Nat] /\ RingStarts(next, 0, v)'
  BY <1>2, <1>5, <1>7, <1>8, <1>9, <1>10 DEF RingStarts
<1> QED
  BY <1>6, <1>11 DEF RingInv

-----------------------------------------------------------------------------
(* The proxy *)

\* The record that is parsed next is in the ring, behind data_tail.
LEMMA NextRecord ==
  ASSUME RingTypeOK, NEW start, NEW w \in Nat, StartInv(start), KernelInv(start, w),
         Len(parsed) < Len(published)
  PROVE  /\ Len(parsed) + 1 \in 1..Len(published) /\ published[Len(parsed) + 1] \in RecordType
         /\ RecordSize(published[Len(parsed) + 1]) \in 1..BufferSize
         /\ start[Len(parsed) + 1] \in Nat
         /\ start[(Len(parsed) + 1) + 1] =
              start[Len(parsed) + 1] + RecordSize(published[Len(parsed) + 1])
         /\ start[(Len(parsed) + 1) + 1] <= start[Len(published) + 1]
<1> DEFINE n == Len(parsed) + 1
           e == start[Len(published) + 1]
           l == RecordSize(published[n])
<1>1. n \in (Len(parsed) + 1)..Len(published) /\ n \in 1..Len(published)
  BY StartFacts
<1>2. /\ published[n] \in RecordType /\ start[n] \in Nat /\ start[n + 1] \in Nat
      /\ start[n + 1] <= e /\ e \in Nat /\ e + w - start[n] \in 0..BufferSize
  <2>1. \A m \in 1..Len(published) :
          published[m] \in RecordType /\ start[m] \in Nat /\ start[m + 1] \in Nat
    BY StartFacts
  <2>2. \A m \in (Len(parsed) + 1)..Len(published) : start[m + 1] <= e
    BY StartFacts
  <2>3. e \in Nat /\ e + w - start[n] \in 0..BufferSize
    BY StartFacts
  <2> QED
    BY <1>1, <2>1, <2>2, <2>3
<1>3. start[n + 1] = start[n] + l
  BY <1>1 DEF StartInv
<1>4. l \in Nat \ {0}
  BY <1>2, SizeIs
<1>5. l \in 1..BufferSize
  <2> DEFINE a == start[n]
             c == start[n + 1]
  <2>1. /\ a \in Nat /\ c \in Nat /\ c <= e /\ e \in Nat /\ e + w - a \in 0..BufferSize
        /\ c = a + l
    BY <1>2, <1>3
  <2> HIDE DEF a, c, e, l
  <2> QED
    BY <1>4, <2>1, Constants
<1> QED
  BY <1>1, <1>2, <1>3, <1>5

\* To peek into it is to see its bytes.
LEMMA PeekSees ==
  ASSUME RingTypeOK, NEW start, NEW w \in Nat, StartInv(start), KernelInv(start, w),
         ContentInv(start, w), Len(parsed) < Len(published),
         NEW g \in Nat, NEW size \in Nat \ {0}, g + size <= RecordSize(published[Len(parsed) + 1])
  PROVE  Peek((start[Len(parsed) + 1] + g) % Offsets, size) =
           [k \in 1..size |-> <<Len(parsed) + 1, g + k>>]
<1> DEFINE n == Len(parsed) + 1
           b == start[n]
           l == RecordSize(published[n])
<1>1. /\ n \in 1..Len(published) /\ l \in 1..BufferSize /\ b \in Nat
  BY NextRecord
<1>2. n \in (Len(parsed) + 1)..Len(published)
  BY StartFacts
<1>3. \A k \in 1..l : ring[(b + k - 1) % BufferSize] = <<n, k>>
  BY <1>2 DEF ContentInv
<1>4. g + size <= l
  OBVIOUS
<1> HIDE DEF n, b, l
<1>5. size \in 1..BufferSize /\ b + g \in Int
  BY <1>1, <1>4, Constants
<1> DEFINE a == b + g
<1>6. Peek(a % Offsets, size) = [k \in 1..size |-> ring[(a + k - 1) % BufferSize]]
  <2> HIDE DEF a
  <2>1. a \in Int /\ size \in 1..BufferSize
    BY <1>5 DEF a
  <2> QED
    BY <2>1, PeekIs
<1>7. ASSUME NEW k \in 1..size
      PROVE  ring[(a + k - 1) % BufferSize] = <<n, g + k>>
  <2>1. g + k \in 1..l /\ a + k - 1 = b + (g + k) - 1
    BY <1>1, <1>4, Constants
  <2> HIDE DEF a
  <2> QED
    BY <1>3, <2>1
<1>8. Peek(a % Offsets, size) = [k \in 1..size |-> <<n, g + k>>]
  <2> HIDE DEF a
  <2> QED
    BY <1>6, <1>7
<1> QED
  BY <1>8 DEF n, b

\* What is looked at is the header of the next record.
LEMMA HeaderSeen ==
  ASSUME RingTypeOK, NEW start \in [1..(Len(published) + 1) -> Nat], NEW w \in Nat, NEW v \in Nat,
         RingStarts(start, w, v), NextEventType
  PROVE  /\ Len(parsed) < Len(published)
         /\ HeaderOf(Peek(data_tail, EventHeaderSize)) = Len(parsed) + 1
<1> DEFINE np == Len(published)
           nq == Len(parsed)
           e == start[np + 1]
           b == start[nq + 1]
<1>1. StartInv(start) /\ KernelInv(start, w) /\ ContentInv(start, w)
  BY DEF RingStarts
<1>2. e \in Nat /\ b \in Nat /\ b <= e /\ np \in Nat /\ nq \in 0..np /\ e + w - b \in 0..BufferSize
  BY <1>1, StartFacts
<1>3. data_head = e % Offsets /\ data_tail = b % Offsets
  BY <1>1 DEF StartInv
<1>4. e - b >= EventHeaderSize
  <2>1. e \in Int /\ b \in Int /\ e - b \in 0..(Offsets - 1)
    <3> HIDE DEF e, b
    <3> QED
      BY <1>2, Constants
  <2>2. Distance(data_head, data_tail) >= EventHeaderSize
    BY DEF NextEventType
  <2> HIDE DEF e, b
  <2>3. Distance(e % Offsets, b % Offsets) = e - b
    BY <2>1, DistanceIs
  <2> QED
    BY <1>3, <2>2, <2>3
<1>5. nq < np
  <2>1. nq = np => e = b
    OBVIOUS
  <2>2. e # b
    <3> HIDE DEF e, b
    <3> QED
      BY <1>2, <1>4, Constants
  <2> QED
    BY <1>2, <2>1, <2>2
<1>6. nq + 1 \in 1..np /\ published[nq + 1] \in RecordType
  BY <1>1, <1>5, NextRecord
<1>7. Peek(data_tail, EventHeaderSize) = BytesOf(nq + 1, 0, EventHeaderSize)
  <2> DEFINE n == nq + 1
             h == EventHeaderSize
             l == RecordSize(published[n])
  <2>1. h \in Nat \ {0} /\ 0 \in Nat /\ 0 + h <= l
    BY <1>6, SizeIs, Constants
  <2>2. Peek((b + 0) % Offsets, h) = [k \in 1..h |-> <<n, 0 + k>>]
    BY <1>1, <1>5, <2>1, PeekSees, ZenonT(30)
  <2>3. b + 0 = b /\ h - 0 = h
    BY <1>2, <2>1
  <2> HIDE DEF b, n, h
  <2>4. Peek(b % Offsets, h) = BytesOf(n, 0, h)
    BY <2>2, <2>3 DEF BytesOf
  <2> QED
    BY <1>3, <2>4 DEF n, h
<1>8. HeaderOf(BytesOf(nq + 1, 0, EventHeaderSize)) = nq + 1
  <2>1. nq + 1 \in DOMAIN published /\ nq + 1 \in Nat /\ EventHeaderSize \in Nat \ {0}
    BY <1>6, Constants DEF RingTypeOK
  <2> HIDE DEF nq
  <2> QED
    BY <2>1, HeaderIs
<1> QED
  BY <1>5, <1>7, <1>8

\* A step of the reader that only looks leaves everything else.
LEMMA ReaderTurns ==
  ASSUME RingTypeOK, NEW start \in [1..(Len(published) + 1) -> Nat], NEW w \in Nat, NEW v \in Nat,
         RingStarts(start, w, v), NEW u \in Nat,
         UNCHANGED <<ring, data_head, data_tail, kernel, published, parsed>>,
         reader' \in [at : {"idle", "sample", "view", "failed", "died"}, head : Int, tail : Int,
                      objects : Seq(Nat)],
         got' \in Seq(Bytes), ParserInv(start, u)'
  PROVE  RingInv'
<1>1. StartInv(start) /\ KernelInv(start, w) /\ ContentInv(start, w)
  BY DEF RingStarts
<1>2. /\ ring' = ring /\ kernel' = kernel /\ published' = published /\ parsed' = parsed
      /\ data_head' = data_head /\ data_tail' = data_tail
  OBVIOUS
<1>3. StartInv(start)'
  BY <1>1, StartStays
<1>4. KernelInv(start, w)'
  BY <1>1, <1>2 DEF KernelInv
<1>5. ContentInv(start, w)'
  BY <1>1, ContentStays
<1>6. RingTypeOK'
  <2>1. /\ ring' \in [0..(BufferSize - 1) -> Bytes]
        /\ kernel' \in [at : Int, left : Seq(Bytes), record : SUBSET RecordType]
        /\ published' \in Seq(RecordType) /\ Len(published)' <= MaxRecords
        /\ parsed' \in Seq(Nat) /\ Len(parsed)' <= Len(published)'
    BY <1>2 DEF RingTypeOK
  <2> QED
    BY <2>1 DEF RingTypeOK
<1>7. start \in [1..(Len(published') + 1) -> Nat] /\ RingStarts(start, w, u)'
  BY <1>2, <1>3, <1>4, <1>5 DEF RingStarts
<1> QED
  BY <1>6, <1>7 DEF RingInv

\* The proxy looks at the type of the next record,
LEMMA NextEventTypeKeeps ==
  ASSUME RingTypeOK, NEW start \in [1..(Len(published) + 1) -> Nat], NEW w \in Nat, NEW v \in Nat,
         RingStarts(start, w, v), NextEventType
  PROVE  RingInv'
<1> DEFINE n == Len(parsed) + 1
<1>1. Len(parsed) < Len(published) /\ HeaderOf(Peek(data_tail, EventHeaderSize)) = n
  BY HeaderSeen
<1>2. n # 0
  BY StartFacts DEF RingStarts
<1>3. reader' = [NoView EXCEPT !.at = IF published[n].type # "sample" THEN "died" ELSE "sample"]
  BY <1>1, <1>2 DEF NextEventType
<1>4. /\ UNCHANGED <<ring, data_head, data_tail, kernel, published, parsed>>
      /\ got' = got /\ published' = published /\ parsed' = parsed
  BY DEF NextEventType
<1>5. got = <<>> /\ got \in Seq(Bytes)
  BY DEF NextEventType, RingStarts, ParserInv, RingTypeOK
<1>6. /\ reader' \in [at : {"idle", "sample", "view", "failed", "died"}, head : Int, tail : Int,
                      objects : Seq(Nat)]
      /\ reader'.at = IF published[n].type # "sample" THEN "died" ELSE "sample"
  <2> DEFINE x == IF published[n].type # "sample" THEN "died" ELSE "sample"
  <2>1. reader' = [at |-> x, head |-> 0, tail |-> 0, objects |-> <<>>] /\ x \in {"died", "sample"}
    BY <1>3 DEF NoView
  <2> HIDE DEF x
  <2> QED
    BY <2>1 DEF x
<1>7. n \in 1..Len(published) /\ published[n] \in RecordType
  BY <1>1, NextRecord DEF RingStarts
<1>8. published[n].type \in {"sample", "lost"}
  BY <1>7 DEF RecordType
<1>9. ParserInv(start, v)'
  BY <1>1, <1>4, <1>5, <1>6, <1>8 DEF ParserInv, GivesUpRightly
<1> QED
  BY <1>4, <1>5, <1>6, <1>9, ReaderTurns

\* takes a view of what has been published,
LEMMA ReadSampleRecordKeeps ==
  ASSUME RingTypeOK, NEW start \in [1..(Len(published) + 1) -> Nat], NEW w \in Nat, NEW v \in Nat,
         RingStarts(start, w, v), ReadSampleRecord
  PROVE  RingInv'
<1> DEFINE n == Len(parsed) + 1
           np == Len(published)
<1>1. reader.at = "sample" /\ reader' = [GetCurrentView EXCEPT !.objects = <<EventHeaderSize>>]
  BY DEF ReadSampleRecord
<1>2. /\ UNCHANGED <<ring, data_head, data_tail, kernel, published, parsed>>
      /\ got' = got /\ published' = published /\ parsed' = parsed
  BY DEF ReadSampleRecord
<1>3. StartInv(start) /\ KernelInv(start, w) /\ ParserInv(start, v)
  BY DEF RingStarts
<1>4. /\ got = <<>> /\ Len(parsed) < np /\ published[n].type = "sample"
  BY <1>1, <1>3 DEF ParserInv
<1>5. n \in 1..np /\ np \in Nat /\ np \in n..np /\ start[n] \in Nat
  BY <1>3, <1>4, NextRecord, StartFacts
<1>6. data_head = start[np + 1] % Offsets /\ data_tail = start[n] % Offsets
  BY <1>3 DEF StartInv
<1>7. /\ reader' \in [at : {"idle", "sample", "view", "failed", "died"}, head : Int, tail : Int,
                      objects : Seq(Nat)]
      /\ reader'.at = "view" /\ reader'.head = data_head /\ reader'.tail = data_tail
      /\ reader'.objects = <<EventHeaderSize>>
  <2>1. data_head \in Int /\ data_tail \in Int
    <3>1. start[np + 1] \in Nat
      BY <1>3, StartFacts
    <3> QED
      BY <1>5, <1>6, <3>1, Constants
  <2>2. <<EventHeaderSize>> \in Seq(Nat)
    BY Constants
  <2> QED
    BY <1>1, <2>1, <2>2 DEF GetCurrentView
<1>8. got = BytesOf(n, 0, Len(got)) /\ Len(got) = 0
  <2>1. BytesOf(n, 0, 0) \in Seq(Bytes) /\ Len(BytesOf(n, 0, 0)) = 0 - 0
    <3>1. n \in Nat /\ 0 \in Nat /\ 0 <= 0
      BY <1>5
    <3> HIDE DEF n
    <3> QED
      BY <3>1, BytesFacts, ZenonT(30)
  <2>2. BytesOf(n, 0, 0) = <<>>
    BY <2>1
  <2> QED
    BY <1>4, <2>2
<1>9. ToRead(published[n].nr, 0, <<EventHeaderSize>>)
  BY DEF ToRead
<1>10. start[n] + 0 = start[n]
  BY <1>5
<1>11. GivesUpRightly'
  BY <1>7 DEF GivesUpRightly
<1>12. ParserInv(start, np)'
  <2>1. /\ np \in (Len(parsed') + 1)..Len(published')
        /\ reader'.head = start[np + 1] % Offsets
        /\ reader'.tail = (start[Len(parsed') + 1] + Len(got')) % Offsets
        /\ got' = BytesOf(Len(parsed') + 1, 0, Len(got'))
        /\ ToRead(published'[Len(parsed') + 1].nr, Len(got'), reader'.objects)
    BY <1>2, <1>5, <1>6, <1>7, <1>8, <1>9, <1>10
  <2> QED
    BY <1>2, <1>4, <1>7, <1>11, <2>1 DEF ParserInv
<1> QED
  BY <1>2, <1>4, <1>5, <1>7, <1>12, ReaderTurns

\* The first bytes of a record.
LEMMA FirstBytes ==
  ASSUME NEW n \in Nat, NEW l \in Nat
  PROVE  /\ BytesOf(n, 0, l) \in Seq(Bytes) /\ Len(BytesOf(n, 0, l)) = l
         /\ \A k \in 1..l : BytesOf(n, 0, l)[k] = <<n, k>>
<1> DEFINE b == BytesOf(n, 0, l)
           z == 0
<1>1. z \in Nat /\ z <= l /\ l - z = l /\ \A k \in 1..l : z + k = k
  OBVIOUS
<1> HIDE DEF z
<1>2. /\ BytesOf(n, z, l) \in Seq(Bytes) /\ Len(BytesOf(n, z, l)) = l - z
      /\ \A k \in 1..(l - z) : BytesOf(n, z, l)[k] = <<n, z + k>>
  BY <1>1, BytesFacts, ZenonT(30)
<1>3. /\ BytesOf(n, z, l) \in Seq(Bytes) /\ Len(BytesOf(n, z, l)) = l
      /\ \A k \in 1..l : BytesOf(n, z, l)[k] = <<n, k>>
  BY <1>1, <1>2
<1> QED
  BY <1>3 DEF z

\* More of them,
LEMMA BytesMore ==
  ASSUME NEW n \in Nat, NEW g \in Nat, NEW size \in Nat
  PROVE  BytesOf(n, 0, g) \o [k \in 1..size |-> <<n, g + k>>] = BytesOf(n, 0, g + size)
<1> DEFINE a == BytesOf(n, 0, g)
           more == [k \in 1..size |-> <<n, g + k>>]
           c == BytesOf(n, 0, g + size)
<1>1. a \in Seq(Bytes) /\ Len(a) = g /\ \A k \in 1..g : a[k] = <<n, k>>
  BY FirstBytes
<1>2. more \in Seq(Bytes) /\ Len(more) = size /\ \A k \in 1..size : more[k] = <<n, g + k>>
  <2>1. more = [k \in 1..size |-> more[k]] /\ \A k \in 1..size : more[k] \in Bytes /\ more[k] = <<n, g + k>>
    BY DEF Bytes
  <2> HIDE DEF more
  <2> QED
    BY <2>1
<1>3. c \in Seq(Bytes) /\ Len(c) = g + size /\ \A k \in 1..(g + size) : c[k] = <<n, k>>
  <2> DEFINE l == g + size
  <2>1. l \in Nat
    OBVIOUS
  <2> HIDE DEF l
  <2>2. /\ BytesOf(n, 0, l) \in Seq(Bytes) /\ Len(BytesOf(n, 0, l)) = l
        /\ \A k \in 1..l : BytesOf(n, 0, l)[k] = <<n, k>>
    BY <2>1, FirstBytes
  <2> QED
    BY <2>2 DEF l
<1> HIDE DEF a, more, c
<1> DEFINE all == a \o more
<1>4. all \in Seq(Bytes) /\ Len(all) = g + size
  BY <1>1, <1>2
<1>5. ASSUME NEW k \in 1..(g + size) PROVE all[k] = <<n, k>>
  <2>1. CASE k <= g
    <3>1. all[k] = a[k]
      BY <1>1, <1>2, <2>1
    <3> QED
      BY <1>1, <2>1, <3>1
  <2>2. CASE ~ (k <= g)
    <3>1. all[k] = more[k - g] /\ k - g \in 1..size /\ g + (k - g) = k
      BY <1>1, <1>2, <2>2
    <3> QED
      BY <1>2, <3>1
  <2> QED
    BY <2>1, <2>2
<1>6. all = c
  <2> HIDE DEF all
  <2>1. all \in Seq(Bytes) /\ c \in Seq(Bytes) /\ Len(all) = Len(c) /\ \A k \in 1..Len(all) : all[k] = c[k]
    BY <1>3, <1>4, <1>5
  <2> QED
    BY <2>1, SameSeq
<1> QED
  BY <1>6 DEF a, more, c

\* and fewer.
LEMMA BytesFewer ==
  ASSUME NEW n \in Nat, NEW h \in Nat, NEW l \in Nat, h <= l
  PROVE  SubSeq(BytesOf(n, 0, l), 1, h) = BytesOf(n, 0, h)
<1> DEFINE a == BytesOf(n, 0, l)
           c == SubSeq(a, 1, h)
<1>1. a \in Seq(Bytes) /\ Len(a) = l /\ \A k \in 1..l : a[k] = <<n, k>>
  BY FirstBytes
<1>2. c = [k \in 1..h |-> a[k]]
  <2> HIDE DEF a
  <2>1. h \in 0..Len(a)
    BY <1>1
  <2> QED
    BY <1>1, <2>1
<1>3. \A k \in 1..h : a[k] = <<n, 0 + k>> /\ h - 0 = h
  <2> HIDE DEF a
  <2> QED
    BY <1>1
<1> HIDE DEF a, c
<1>4. h - 0 = h
  OBVIOUS
<1>5. c = BytesOf(n, 0, h)
  BY <1>2, <1>3, <1>4 DEF BytesOf
<1> QED
  BY <1>5 DEF a, c

\* What is left to read after one more object.
Left(nr, g, objects) ==
  IF g = 0 THEN <<IpSize, NrSize>>
  ELSE IF g = EventHeaderSize + IpSize THEN [k \in 1..nr |-> ValueSize] ELSE Tail(objects)

\* What is read next is within the record, and there is nothing left to read at its end.
LEMMA ReadsOn ==
  ASSUME NEW nr \in Nat, NEW g \in Nat, NEW objects \in Seq(Nat), ToRead(nr, g, objects)
  PROVE  LET l == EventHeaderSize + IpSize + NrSize + nr * ValueSize
         IN  /\ objects = <<>> => g = l
             /\ objects # <<>> =>
                  /\ Head(objects) \in Nat \ {0}
                  /\ g + Head(objects) <= l /\ EventHeaderSize <= g + Head(objects)
                  /\ Left(nr, g, objects) \in Seq(Nat)
                  /\ ToRead(nr, g + Head(objects), Left(nr, g, objects))
<1> DEFINE h == EventHeaderSize + IpSize + NrSize
           values == nr * ValueSize
           l == h + values
<1>1. h \in Nat /\ values \in Nat /\ l \in Nat /\ h >= EventHeaderSize
  <2>1. values \in Nat
    BY Constants
  <2> HIDE DEF values
  <2> QED
    BY <2>1, Constants
<1>2. CASE g = 0 /\ objects = <<EventHeaderSize>>
  <2>1. Head(objects) = EventHeaderSize /\ objects # <<>> /\ Left(nr, g, objects) = <<IpSize, NrSize>>
    BY <1>2 DEF Left
  <2>2. g + EventHeaderSize = EventHeaderSize /\ <<IpSize, NrSize>> \in Seq(Nat)
    BY <1>2, Constants
  <2>3. ToRead(nr, EventHeaderSize, <<IpSize, NrSize>>)
    BY DEF ToRead
  <2> HIDE DEF h, values
  <2> QED
    BY <1>1, <2>1, <2>2, <2>3, Constants, SMTT(30)
<1>3. CASE g = EventHeaderSize /\ objects = <<IpSize, NrSize>>
  <2>1. Head(objects) = IpSize /\ objects # <<>> /\ Tail(objects) = <<NrSize>>
    BY <1>3
  <2>2. Left(nr, g, objects) = <<NrSize>>
    <3>1. g # 0 /\ g # EventHeaderSize + IpSize
      BY <1>3, Constants
    <3> QED
      BY <2>1, <3>1 DEF Left
  <2>3. ToRead(nr, EventHeaderSize + IpSize, <<NrSize>>) /\ <<NrSize>> \in Seq(Nat)
    BY Constants DEF ToRead
  <2>4. g + IpSize <= l /\ EventHeaderSize <= g + IpSize
    <3>1. h = EventHeaderSize + IpSize + NrSize
      OBVIOUS
    <3> HIDE DEF h, values
    <3> QED
      BY <1>1, <1>3, <3>1, Constants
  <2>5. g + IpSize = EventHeaderSize + IpSize
    BY <1>3
  <2> QED
    BY <2>1, <2>2, <2>3, <2>4, <2>5, Constants
<1>4. CASE g = EventHeaderSize + IpSize /\ objects = <<NrSize>>
  <2>1. Head(objects) = NrSize /\ objects # <<>>
    BY <1>4
  <2>2. Left(nr, g, objects) = [k \in 1..nr |-> ValueSize]
    <3>1. g # 0
      BY <1>4, Constants
    <3> QED
      BY <1>4, <3>1 DEF Left
  <2>3. g + NrSize = h + 0 * ValueSize /\ g + NrSize <= l /\ EventHeaderSize <= g + NrSize
    <3>1. g + NrSize = h /\ 0 * ValueSize = 0
      BY <1>4, Constants
    <3> HIDE DEF h, values
    <3> QED
      BY <1>1, <3>1
  <2>4. [k \in 1..nr |-> ValueSize] = [k \in 1..(nr - 0) |-> ValueSize] /\ 0 \in 0..nr
    OBVIOUS
  <2>5. ToRead(nr, g + NrSize, [k \in 1..nr |-> ValueSize])
    BY <2>3, <2>4 DEF ToRead
  <2>6. [k \in 1..nr |-> ValueSize] \in Seq(Nat)
    BY Constants
  <2> QED
    BY <2>1, <2>2, <2>3, <2>5, <2>6, Constants
<1>5. ASSUME NEW j \in 0..nr, g = h + j * ValueSize, objects = [k \in 1..(nr - j) |-> ValueSize]
      PROVE  /\ objects = <<>> => g = l
             /\ objects # <<>> =>
                  /\ Head(objects) \in Nat \ {0}
                  /\ g + Head(objects) <= l /\ EventHeaderSize <= g + Head(objects)
                  /\ Left(nr, g, objects) \in Seq(Nat)
                  /\ ToRead(nr, g + Head(objects), Left(nr, g, objects))
  <2> DEFINE d == nr - j
  <2>1. d \in Nat /\ Len(objects) = d
    <3>1. d \in Nat /\ objects = [k \in 1..d |-> ValueSize]
      BY <1>5
    <3> HIDE DEF d
    <3> QED
      BY <3>1, Constants
  <2>2. CASE d = 0
    <3>1. objects = <<>> /\ j = nr
      BY <1>5, <2>1, <2>2
    <3> QED
      BY <1>5, <3>1
  <2>3. CASE d # 0
    <3>1. objects # <<>> /\ Head(objects) = ValueSize
      BY <1>5, <2>1, <2>3
    <3>2. /\ j + 1 \in 0..nr /\ nr - (j + 1) = d - 1 /\ j \in Nat
      BY <2>1, <2>3
    <3> DEFINE v == j * ValueSize
               u == (j + 1) * ValueSize
    <3>3. v \in Nat /\ u = v + ValueSize /\ u <= values
      <4>1. v \in Nat /\ u = v + ValueSize
        BY <3>2, Constants
      <4>2. j + 1 <= nr => (j + 1) * ValueSize <= nr * ValueSize
        <5> DEFINE x == j + 1
                   y == nr - x
                   p == x * ValueSize
                   q == y * ValueSize
        <5>1. x \in Nat /\ y \in Nat /\ nr = x + y
          BY <3>2
        <5> HIDE DEF x, y
        <5>2. p \in Nat /\ q \in Nat /\ (x + y) * ValueSize = p + q
          BY <5>1, Constants
        <5>3. (x + y) * ValueSize >= p
          <6> HIDE DEF p, q
          <6> QED
            BY <5>2
        <5> QED
          BY <5>1, <5>3 DEF x
      <4> QED
        BY <3>2, <4>1, <4>2
    <3>4. g + ValueSize = h + u /\ g + ValueSize <= l /\ EventHeaderSize <= g + ValueSize
      <4>1. g = h + v
        BY <1>5
      <4> HIDE DEF h, values, v, u
      <4> QED
        BY <1>1, <3>3, <4>1, Constants
    <3>5. Left(nr, g, objects) = Tail(objects)
      <4>1. g = h + v /\ h = EventHeaderSize + IpSize + NrSize
        BY <1>5
      <4>2. g # 0 /\ g # EventHeaderSize + IpSize
        <5> HIDE DEF h, v
        <5> QED
          BY <3>3, <4>1, Constants
      <4> QED
        BY <4>2 DEF Left
    <3>6. Tail(objects) = [k \in 1..(nr - (j + 1)) |-> ValueSize] /\ Tail(objects) \in Seq(Nat)
      <4>1. Tail(objects) = [k \in 1..(d - 1) |-> objects[k + 1]]
        <5>1. Len(objects) > 0
          BY <2>1, <2>3
        <5> QED
          BY <2>1, <5>1, TailIs
      <4>2. \A k \in 1..(d - 1) : objects[k + 1] = ValueSize
        <5> TAKE k \in 1..(d - 1)
        <5>1. k + 1 \in 1..(nr - j)
          BY <2>1
        <5> QED
          BY <1>5, <5>1
      <4>3. Tail(objects) \in Seq(Nat)
        BY <3>1
      <4> QED
        BY <3>2, <4>1, <4>2, <4>3
    <3>7. ToRead(nr, g + ValueSize, Tail(objects))
      BY <3>2, <3>4, <3>6 DEF ToRead
    <3> HIDE DEF h, values
    <3> QED
      BY <3>1, <3>4, <3>5, <3>6, <3>7, Constants
  <2> QED
    BY <2>2, <2>3
<1> HIDE DEF h
<1> QED
  BY <1>2, <1>3, <1>4, <1>5 DEF ToRead, h

\* What is known of a record being parsed.
LEMMA Parsing ==
  ASSUME RingTypeOK, NEW start, NEW w \in Nat, NEW v \in Nat,
         RingStarts(start, w, v), reader.at = "view"
  PROVE  /\ Len(parsed) < Len(published) /\ published[Len(parsed) + 1].type = "sample"
         /\ published[Len(parsed) + 1].nr \in Nat /\ Len(got) \in Nat
         /\ RecordSize(published[Len(parsed) + 1]) =
              EventHeaderSize + IpSize + NrSize + published[Len(parsed) + 1].nr * ValueSize
         /\ reader.tail = (start[Len(parsed) + 1] + Len(got)) % Offsets
         /\ got = BytesOf(Len(parsed) + 1, 0, Len(got))
         /\ ToRead(published[Len(parsed) + 1].nr, Len(got), reader.objects)
         /\ reader.objects \in Seq(Nat)
         /\ reader.head = start[v + 1] % Offsets /\ start[v + 1] \in Nat
         /\ start[(Len(parsed) + 1) + 1] <= start[v + 1]
         /\ start[v + 1] - start[Len(parsed) + 1] <= BufferSize
<1> DEFINE n == Len(parsed) + 1
           np == Len(published)
           e == start[np + 1]
<1>1. StartInv(start) /\ KernelInv(start, w) /\ ParserInv(start, v)
  BY DEF RingStarts
<1>2. /\ Len(parsed) < np /\ published[n].type = "sample"
      /\ v \in n..np /\ reader.head = start[v + 1] % Offsets
      /\ reader.tail = (start[n] + Len(got)) % Offsets
      /\ got = BytesOf(n, 0, Len(got))
      /\ ToRead(published[n].nr, Len(got), reader.objects)
  BY <1>1 DEF ParserInv
<1>3. n \in 1..np /\ np \in Nat /\ published[n] \in RecordType
  BY <1>1, <1>2, NextRecord, StartFacts
<1>4. Len(got) \in Nat /\ reader.objects \in Seq(Nat)
  BY DEF RingTypeOK
<1>5. n + 1 \in 1..(np + 1) /\ v + 1 \in 1..(np + 1) /\ np + 1 \in 1..(np + 1) /\ n + 1 <= v + 1
      /\ v + 1 <= np + 1
  BY <1>2, <1>3
<1>6. start[v + 1] \in Nat /\ start[n + 1] <= start[v + 1] /\ start[v + 1] <= e
  BY <1>1, <1>5 DEF StartInv
<1>7. start[n] \in Nat /\ e \in Nat /\ e + w - start[n] \in 0..BufferSize
  BY <1>1, StartFacts
<1>8. start[v + 1] - start[n] <= BufferSize
  <2> DEFINE a == start[n]
             c == start[v + 1]
  <2>1. c \in Nat /\ a \in Nat /\ c <= e /\ e \in Nat /\ e + w - a \in 0..BufferSize
    BY <1>6, <1>7
  <2> HIDE DEF a, c, e
  <2>2. c - a <= BufferSize
    BY <2>1, Constants
  <2> QED
    BY <2>2 DEF a, c
<1>9. /\ published[n].nr \in Nat
      /\ RecordSize(published[n]) = EventHeaderSize + IpSize + NrSize + published[n].nr * ValueSize
  BY <1>2, <1>3, SizeIs
<1> QED
  BY <1>2, <1>4, <1>6, <1>8, <1>9

\* An object is read whole, or the sample has too many values.
LEMMA ObjectRead ==
  ASSUME RingTypeOK, NEW start, NEW w \in Nat, NEW v \in Nat,
         RingStarts(start, w, v), ReadObject
  PROVE  LET n == Len(parsed) + 1
             more == Len(got) + Head(reader.objects)
         IN  \/ /\ published[n].nr > kMaxNumValues
                /\ reader' = [reader EXCEPT !.at = "failed"] /\ got' = <<>>
             \/ /\ more \in Nat /\ got' = BytesOf(n, 0, more)
                /\ reader' = [reader EXCEPT !.tail = (start[n] + more) % Offsets,
                                            !.objects = Left(published[n].nr, Len(got), reader.objects)]
                /\ Left(published[n].nr, Len(got), reader.objects) \in Seq(Nat)
                /\ ToRead(published[n].nr, more, Left(published[n].nr, Len(got), reader.objects))
<1> DEFINE n == Len(parsed) + 1
           b == start[n]
           g == Len(got)
           nr == published[n].nr
           l == RecordSize(published[n])
           size == Head(reader.objects)
           end == start[v + 1]
<1>1. reader.at = "view" /\ reader.objects # <<>>
  BY DEF ReadObject
<1>2. StartInv(start) /\ KernelInv(start, w) /\ ContentInv(start, w)
  BY DEF RingStarts
<1>3. /\ Len(parsed) < Len(published)
      /\ nr \in Nat /\ g \in Nat /\ l = EventHeaderSize + IpSize + NrSize + nr * ValueSize
      /\ reader.tail = (b + g) % Offsets /\ got = BytesOf(n, 0, g) /\ ToRead(nr, g, reader.objects)
      /\ reader.objects \in Seq(Nat)
  BY <1>1, Parsing
<1>4. /\ reader.head = end % Offsets /\ end \in Nat
      /\ start[n + 1] <= end /\ end - b <= BufferSize
  BY <1>1, Parsing
<1>5. b \in Nat /\ start[n + 1] = b + l /\ l \in Nat /\ n \in 1..Len(published) /\ n \in Nat
  BY <1>2, <1>3, NextRecord
<1>6. /\ size \in Nat \ {0} /\ g + size <= l /\ EventHeaderSize <= g + size
      /\ Left(nr, g, reader.objects) \in Seq(Nat)
      /\ ToRead(nr, g + size, Left(nr, g, reader.objects))
  <2>1. nr \in Nat /\ g \in Nat /\ reader.objects \in Seq(Nat) /\ ToRead(nr, g, reader.objects)
    BY <1>3
  <2> DEFINE objects == reader.objects
             whole == EventHeaderSize + IpSize + NrSize + nr * ValueSize
  <2>2. l = whole /\ size = Head(objects) /\ objects # <<>>
    BY <1>1, <1>3
  <2>3. /\ Head(objects) \in Nat \ {0}
        /\ g + Head(objects) <= whole /\ EventHeaderSize <= g + Head(objects)
        /\ Left(nr, g, objects) \in Seq(Nat)
        /\ ToRead(nr, g + Head(objects), Left(nr, g, objects))
    <3>1. nr \in Nat /\ g \in Nat /\ objects \in Seq(Nat) /\ ToRead(nr, g, objects) /\ objects # <<>>
      BY <2>1, <2>2
    <3> HIDE DEF nr, g, objects
    <3> QED
      BY <3>1, ReadsOn
  <2> HIDE DEF l, size, whole
  <2> QED
    BY <2>2, <2>3
<1>7. /\ b \in Nat /\ g \in Nat /\ l \in Nat /\ end \in Nat /\ size \in Nat \ {0}
       /\ g + size <= l /\ EventHeaderSize <= g + size /\ b + l <= end /\ end - b <= BufferSize
  <2>1. b \in Nat /\ l \in Nat /\ b + l <= end
    BY <1>4, <1>5
  <2>2. g \in Nat /\ size \in Nat \ {0} /\ g + size <= l /\ EventHeaderSize <= g + size
    BY <1>3, <1>6
  <2> HIDE DEF g, size, b, l
  <2> QED
    BY <1>4, <2>1, <2>2 DEF b
<1>8. Peek(reader.tail, size) = [k \in 1..size |-> <<n, g + k>>]
  <2>1. g \in Nat /\ size \in Nat \ {0} /\ g + size <= RecordSize(published[Len(parsed) + 1])
    BY <1>7
  <2>2. Peek((start[Len(parsed) + 1] + g) % Offsets, size) = [k \in 1..size |-> <<Len(parsed) + 1, g + k>>]
    <3>1. Len(parsed) < Len(published)
      BY <1>3
    <3> HIDE DEF g, size
    <3> QED
      BY <1>2, <2>1, <3>1, PeekSees, ZenonT(30)
  <2> QED
    BY <1>3, <2>2
<1>9. got \o Peek(reader.tail, size) = BytesOf(n, 0, g + size)
  <2> HIDE DEF n, size
  <2>1. BytesOf(n, 0, g) \o [k \in 1..size |-> <<n, g + k>>] = BytesOf(n, 0, g + size)
    <3>1. g \in Nat /\ size \in Nat /\ n \in Nat
      BY <1>3, <1>5, <1>6
    <3> HIDE DEF g
    <3> QED
      BY <3>1, BytesMore
  <2>2. got = BytesOf(n, 0, g)
    BY <1>3
  <2> HIDE DEF g
  <2> QED
    BY <1>8, <2>1, <2>2
<1>10. Distance(reader.head, reader.tail) >= size
  <2> DEFINE t == b + g
  <2>1. end \in Int /\ t \in Int /\ end - t \in 0..(Offsets - 1) /\ end - t >= size
    <3> HIDE DEF end, b, g, l, size
    <3> QED
      BY <1>7, Constants
  <2> HIDE DEF end, t
  <2>2. Distance(end % Offsets, t % Offsets) = end - t
    BY <2>1, DistanceIs
  <2>3. reader.tail = t % Offsets
    BY <1>3 DEF t
  <2> QED
    BY <1>4, <2>1, <2>2, <2>3
<1>11. /\ IsObject(BytesOf(n, 0, g + size))
       /\ HeaderOf(SubSeq(BytesOf(n, 0, g + size), 1, EventHeaderSize)) = n
  <2> DEFINE m == g + size
  <2>1. m \in Nat \ {0} /\ EventHeaderSize <= m /\ EventHeaderSize \in Nat \ {0}
    <3> HIDE DEF g, size
    <3> QED
      BY <1>3, <1>6, Constants
  <2>2. n \in DOMAIN published
    BY <1>5 DEF RingTypeOK
  <2> HIDE DEF m, n
  <2>3. IsObject(BytesOf(n, 0, m)) /\ HeaderOf(BytesOf(n, 0, EventHeaderSize)) = n
    BY <1>5, <2>1, <2>2, HeaderIs
  <2>4. SubSeq(BytesOf(n, 0, m), 1, EventHeaderSize) = BytesOf(n, 0, EventHeaderSize)
    BY <1>5, <2>1, BytesFewer
  <2> QED
    BY <2>3, <2>4 DEF m
<1>12. (reader.tail + size) % Offsets = (b + (g + size)) % Offsets
  <2> DEFINE t == b + g
  <2>1. t \in Int /\ size \in Int /\ t + size = b + (g + size)
    <3> HIDE DEF b, g, size
    <3> QED
      BY <1>3, <1>5, <1>6, SMTT(30)
  <2>2. reader.tail = t % Offsets
    BY <1>3
  <2>3. (t + size) % Offsets = (b + (g + size)) % Offsets
    BY <2>1
  <2> HIDE DEF t, size
  <2>4. ((t % Offsets) + size) % Offsets = (t + size) % Offsets
    BY <2>1, Wraps
  <2> QED
    BY <2>2, <2>3, <2>4
<1>13. g = 0 <=> got = <<>>
  BY DEF RingTypeOK
<1>14. \/ /\ nr > kMaxNumValues
          /\ reader' = [reader EXCEPT !.at = "failed"] /\ got' = <<>>
       \/ /\ got' = got \o Peek(reader.tail, size)
          /\ reader' = [reader EXCEPT !.tail = (reader.tail + size) % Offsets,
                                      !.objects = Left(nr, g, reader.objects)]
  <2> DEFINE all == got \o Peek(reader.tail, size)
             record == HeaderOf(SubSeq(all, 1, EventHeaderSize))
             isNr == Len(got) = EventHeaderSize + IpSize
             bad == \/ Distance(reader.head, reader.tail) < size
                    \/ ~ IsObject(all) \/ record = 0
                    \/ isNr /\ published[record].nr > kMaxNumValues
             left == IF got = <<>> THEN <<IpSize, NrSize>>
                     ELSE IF isNr THEN [k \in 1..published[record].nr |-> ValueSize]
                     ELSE Tail(reader.objects)
  <2>1. IF bad
        THEN reader' = [reader EXCEPT !.at = "failed"] /\ got' = <<>>
        ELSE /\ reader' = [reader EXCEPT !.tail = (reader.tail + size) % Offsets, !.objects = left]
             /\ got' = all
    <3>1. CASE bad
      BY <3>1 DEF ReadObject
    <3>2. CASE ~ bad
      BY <3>2 DEF ReadObject
    <3> QED
      BY <3>1, <3>2
  <2>2. record = n /\ n # 0 /\ IsObject(all)
    <3>1. all = BytesOf(n, 0, g + size)
      BY <1>9
    <3>2. n # 0
      BY <1>5
    <3>3. IsObject(all) /\ HeaderOf(SubSeq(all, 1, EventHeaderSize)) = n
      <4> HIDE DEF all, n, g, size
      <4> QED
        BY <1>11, <3>1
    <3> QED
      BY <3>2, <3>3
  <2>3. bad => nr > kMaxNumValues
    <3>1. ~ (Distance(reader.head, reader.tail) < size)
      <4>1. Distance(reader.head, reader.tail) \in Int
        <5>1. reader.head \in Int /\ reader.tail \in Int
          BY DEF RingTypeOK
        <5>2. reader.head - reader.tail \in Int
          BY <5>1
        <5> QED
          BY <5>2, Constants DEF Distance
      <4> DEFINE d == Distance(reader.head, reader.tail)
      <4>2. d \in Int /\ size \in Nat /\ d >= size
        BY <1>6, <1>10, <4>1
      <4> HIDE DEF d, size
      <4>3. ~ (d < size)
        BY <4>2
      <4> QED
        BY <4>3 DEF d
    <3> HIDE DEF all, record, isNr
    <3> QED
      BY <2>2, <3>1
  <2>4. left = Left(nr, g, reader.objects)
    <3>1. published[record].nr = nr
      BY <2>2
    <3> HIDE DEF all, record
    <3> QED
      BY <1>13, <3>1 DEF Left
  <2> HIDE DEF bad, left, all
  <2> QED
    BY <2>1, <2>3, <2>4 DEF all
<1> QED
  <2>1. g + size \in Nat
    BY <1>3, <1>6, SMTT(30)
  <2> QED
    BY <1>6, <1>9, <1>12, <1>14, <2>1

\* reads an object of the sample, or gives up on it,
LEMMA ReadObjectKeeps ==
  ASSUME RingTypeOK, NEW start \in [1..(Len(published) + 1) -> Nat], NEW w \in Nat, NEW v \in Nat,
         RingStarts(start, w, v), ReadObject
  PROVE  RingInv'
<1> DEFINE n == Len(parsed) + 1
           more == Len(got) + Head(reader.objects)
           left == Left(published[n].nr, Len(got), reader.objects)
<1>1. reader.at = "view"
  BY DEF ReadObject
<1>2. /\ UNCHANGED <<ring, data_head, data_tail, kernel, published, parsed>>
      /\ published' = published /\ parsed' = parsed
  BY DEF ReadObject
<1>3. reader \in [at : {"idle", "sample", "view", "failed", "died"}, head : Int, tail : Int,
                  objects : Seq(Nat)]
  BY DEF RingTypeOK
<1>4. /\ Len(parsed) < Len(published) /\ published[n].type = "sample"
  BY <1>1, Parsing
<1>5. /\ v \in n..Len(published) /\ reader.head = start[v + 1] % Offsets
  BY <1>1 DEF RingStarts, ParserInv
<1>6. CASE /\ published[n].nr > kMaxNumValues
           /\ reader' = [reader EXCEPT !.at = "failed"] /\ got' = <<>>
  <2>1. /\ reader' \in [at : {"idle", "sample", "view", "failed", "died"}, head : Int, tail : Int,
                        objects : Seq(Nat)]
        /\ reader'.at = "failed" /\ got' \in Seq(Bytes)
    BY <1>3, <1>6
  <2>2. ParserInv(start, v)'
    BY <1>2, <1>4, <1>6, <2>1 DEF ParserInv, GivesUpRightly
  <2> QED
    BY <1>2, <2>1, <2>2, ReaderTurns
<1>7. CASE /\ more \in Nat /\ got' = BytesOf(n, 0, more)
           /\ reader' = [reader EXCEPT !.tail = (start[n] + more) % Offsets, !.objects = left]
           /\ left \in Seq(Nat) /\ ToRead(published[n].nr, more, left)
  <2>1. n \in Nat /\ start[n] \in Nat
    BY <1>4, NextRecord DEF RingStarts
  <2>2. got' \in Seq(Bytes) /\ Len(got') = more
    <3>1. BytesOf(n, 0, more) \in Seq(Bytes) /\ Len(BytesOf(n, 0, more)) = more
      <4>1. more \in Nat
        BY <1>7
      <4> HIDE DEF n, more
      <4> QED
        BY <2>1, <4>1, FirstBytes
    <3> QED
      BY <1>7, <3>1
  <2>3. /\ reader' \in [at : {"idle", "sample", "view", "failed", "died"}, head : Int, tail : Int,
                        objects : Seq(Nat)]
        /\ reader'.at = "view" /\ reader'.head = reader.head
        /\ reader'.tail = (start[n] + more) % Offsets /\ reader'.objects = left
    <3> DEFINE t == (start[n] + more) % Offsets
    <3>1. t \in Int
      <4> DEFINE a == start[n] + more
      <4>1. a \in Int
        BY <1>7, <2>1
      <4> HIDE DEF a
      <4>2. a % Offsets \in Int
        BY <4>1, Constants
      <4> QED
        BY <4>2 DEF a
    <3>2. reader' = [reader EXCEPT !.tail = t, !.objects = left] /\ left \in Seq(Nat)
      BY <1>7
    <3> HIDE DEF t, left
    <3>3. /\ reader' \in [at : {"idle", "sample", "view", "failed", "died"}, head : Int, tail : Int,
                        objects : Seq(Nat)]
          /\ reader'.at = "view" /\ reader'.head = reader.head
          /\ reader'.tail = t /\ reader'.objects = left
      BY <1>1, <1>3, <3>1, <3>2
    <3> QED
      BY <3>3 DEF t
  <2>4. ParserInv(start, v)'
    <3>1. /\ v \in (Len(parsed') + 1)..Len(published')
          /\ reader'.head = start[v + 1] % Offsets
          /\ reader'.tail = (start[Len(parsed') + 1] + Len(got')) % Offsets
          /\ got' = BytesOf(Len(parsed') + 1, 0, Len(got'))
          /\ ToRead(published'[Len(parsed') + 1].nr, Len(got'), reader'.objects)
      <4> HIDE DEF more, left
      <4> QED
        BY <1>2, <1>5, <1>7, <2>2, <2>3
    <3>2. GivesUpRightly'
      BY <2>3 DEF GivesUpRightly
    <3>3. /\ reader'.at = "view" /\ Len(parsed') < Len(published')
          /\ published'[Len(parsed') + 1].type = "sample"
      BY <1>2, <1>4, <2>3
    <3> QED
      BY <3>1, <3>2, <3>3 DEF ParserInv
  <2> QED
    BY <1>2, <2>2, <2>3, <2>4, ReaderTurns
<1> QED
  BY <1>6, <1>7, ObjectRead

\* A record that is parsed to its end is the next one, whole.
LEMMA RecordRead ==
  ASSUME RingTypeOK, NEW start, NEW w \in Nat, NEW v \in Nat,
         RingStarts(start, w, v), CommitReads
  PROVE  /\ Len(parsed) < Len(published) /\ parsed' = Append(parsed, Len(parsed) + 1)
         /\ start[(Len(parsed) + 1) + 1] \in Nat
         /\ data_tail' = start[(Len(parsed) + 1) + 1] % Offsets
         /\ reader' = NoView /\ got' = <<>>
         /\ UNCHANGED <<ring, data_head, kernel, lost, published>>
<1> DEFINE n == Len(parsed) + 1
           nr == published[n].nr
           g == Len(got)
           l == RecordSize(published[n])
<1>1. reader.at = "view" /\ reader.objects = <<>>
  BY DEF CommitReads
<1>2. StartInv(start) /\ KernelInv(start, w)
  BY DEF RingStarts
<1>3. /\ Len(parsed) < Len(published)
      /\ nr \in Nat /\ g \in Nat /\ l = EventHeaderSize + IpSize + NrSize + nr * ValueSize
      /\ reader.tail = (start[n] + g) % Offsets /\ got = BytesOf(n, 0, g)
      /\ ToRead(nr, g, reader.objects) /\ reader.objects \in Seq(Nat)
  BY <1>1, Parsing
<1>4. start[n] \in Nat /\ start[n + 1] = start[n] + l /\ l \in Nat \ {0} /\ n \in 1..Len(published)
  BY <1>2, <1>3, NextRecord
<1>5. g = l
  <2> DEFINE objects == reader.objects
             whole == EventHeaderSize + IpSize + NrSize + nr * ValueSize
  <2>1. l = whole /\ objects = <<>> /\ nr \in Nat /\ g \in Nat /\ objects \in Seq(Nat)
        /\ ToRead(nr, g, objects)
    BY <1>1, <1>3
  <2>2. g = whole
    <3> HIDE DEF nr, g, objects
    <3> QED
      BY <2>1, ReadsOn
  <2> QED
    BY <2>1, <2>2
<1>6. HeaderOf(got) = n
  <2>1. n \in DOMAIN published /\ n \in Nat
    BY <1>4 DEF RingTypeOK
  <2>2. got = BytesOf(n, 0, l)
    BY <1>3, <1>5
  <2>3. l \in Nat \ {0}
    BY <1>4
  <2> HIDE DEF n, l
  <2> QED
    BY <2>1, <2>2, <2>3, HeaderIs
<1>7. parsed' = Append(parsed, n) /\ data_tail' = reader.tail
  BY <1>6 DEF CommitReads
<1>8. data_tail' = start[n + 1] % Offsets
  BY <1>3, <1>4, <1>5, <1>7
<1>9. /\ reader' = NoView /\ got' = <<>>
      /\ UNCHANGED <<ring, data_head, kernel, lost, published>>
  BY DEF CommitReads
<1>10. start[n + 1] \in Nat
  BY <1>4
<1> QED
  BY <1>3, <1>7, <1>8, <1>9, <1>10

\* and returns the record.
LEMMA CommitReadsKeeps ==
  ASSUME RingTypeOK, NEW start \in [1..(Len(published) + 1) -> Nat], NEW w \in Nat, NEW v \in Nat,
         RingStarts(start, w, v), CommitReads
  PROVE  RingInv'
<1> DEFINE n == Len(parsed) + 1
           np == Len(published)
           e == start[np + 1]
           b == start[n]
           c == start[n + 1]
           l == RecordSize(published[n])
<1>1. StartInv(start) /\ KernelInv(start, w) /\ ContentInv(start, w)
  BY DEF RingStarts
<1>2. /\ Len(parsed) < np /\ parsed' = Append(parsed, n)
      /\ data_tail' = c % Offsets
      /\ reader' = NoView /\ got' = <<>>
      /\ ring' = ring /\ data_head' = data_head /\ kernel' = kernel /\ published' = published
  BY RecordRead
<1>3. /\ n \in 1..np /\ l \in 1..BufferSize /\ b \in Nat /\ c = b + l /\ c <= e
  BY <1>1, <1>2, NextRecord
<1>4. e \in Nat /\ np \in Nat
  BY <1>1, StartFacts
<1>5. Len(parsed') = n /\ parsed' \in Seq(Nat) /\ n \in Nat
  <2>1. parsed \in Seq(Nat) /\ n \in Nat
    BY <1>3 DEF RingTypeOK
  <2> QED
    BY <1>2, <2>1
<1>6. RingTypeOK'
  <2>1. reader' \in [at : {"idle", "sample", "view", "failed", "died"}, head : Int, tail : Int,
                     objects : Seq(Nat)] /\ got' \in Seq(Bytes)
    BY <1>2 DEF NoView
  <2>2. /\ ring' \in [0..(BufferSize - 1) -> Bytes]
        /\ kernel' \in [at : Int, left : Seq(Bytes), record : SUBSET RecordType]
        /\ published' \in Seq(RecordType) /\ Len(published') <= MaxRecords
    BY <1>2 DEF RingTypeOK
  <2>3. Len(parsed') <= Len(published')
    BY <1>2, <1>3, <1>5
  <2> QED
    BY <1>5, <2>1, <2>2, <2>3 DEF RingTypeOK
<1>7. StartInv(start)'
  <2>1. /\ start \in [1..(np + 1) -> Nat]
        /\ \A m \in 1..np : start[m + 1] = start[m] + RecordSize(published[m])
        /\ \A i, j \in 1..(np + 1) : i <= j => start[i] <= start[j]
        /\ data_head = start[np + 1] % Offsets
    BY <1>1 DEF StartInv
  <2> QED
    BY <1>2, <1>5, <2>1 DEF StartInv
<1>8. KernelInv(start, w)'
  <2>1. kernel.at = (e + w) % Offsets
    BY <1>1 DEF KernelInv
  <2>2. e + w - c <= BufferSize
    <3>1. e + w - b <= BufferSize
      BY <1>1 DEF KernelInv
    <3> HIDE DEF e, b, c, l
    <3> QED
      BY <1>3, <1>4, <3>1, Constants
  <2>3. \/ kernel.record = {} /\ kernel.left = <<>> /\ w = 0
        \/ \E r \in RecordType :
             /\ kernel.record = {r} /\ w <= RecordSize(r) /\ np < MaxRecords
             /\ kernel.left = BytesOf(np + 1, w, RecordSize(r))
             /\ e + RecordSize(r) - c <= BufferSize
    <3>1. ASSUME NEW r \in RecordType, e + RecordSize(r) - b <= BufferSize
          PROVE  e + RecordSize(r) - c <= BufferSize
      <4> DEFINE size == RecordSize(r)
      <4>1. size \in Nat /\ e + size - b <= BufferSize
        BY <3>1, SizeIs
      <4> HIDE DEF e, b, c, l, size
      <4>2. e + size - c <= BufferSize
        BY <1>3, <1>4, <4>1, Constants
      <4> QED
        BY <4>2 DEF size
    <3> HIDE DEF c
    <3> QED
      BY <1>1, <3>1 DEF KernelInv
  <2> QED
    BY <1>2, <1>5, <2>1, <2>2, <2>3 DEF KernelInv
<1>9. ContentInv(start, w)'
  <2>1. \A m \in n..np : \A k \in 1..RecordSize(published[m]) :
          ring[(start[m] + k - 1) % BufferSize] = <<m, k>>
    BY <1>1 DEF ContentInv
  <2>2. \A k \in 1..w : ring[(e + k - 1) % BufferSize] = <<np + 1, k>>
    BY <1>1 DEF ContentInv
  <2>3. ASSUME NEW p \in c..(e - 1)
        PROVE  \E m \in (n + 1)..np : \E k \in 1..RecordSize(published[m]) : p = start[m] + k - 1
    <3>1. p \in b..(e - 1)
      <4> HIDE DEF b, c, e, l
      <4> QED
        BY <1>3, <1>4
    <3>2. PICK m \in n..np : \E k \in 1..RecordSize(published[m]) : p = start[m] + k - 1
      BY <1>1, <3>1 DEF ContentInv
    <3>3. m # n
      <4> SUFFICES ASSUME m = n PROVE FALSE
        OBVIOUS
      <4>1. PICK k \in 1..l : p = b + k - 1
        BY <3>2
      <4> HIDE DEF b, c, e, l
      <4> QED
        BY <1>3, <4>1
    <3>4. m \in (n + 1)..np
      BY <1>5, <3>3
    <3> QED
      BY <3>2, <3>4
  <2>4. \A m \in (n + 1)..np : m \in n..np
    BY <1>5
  <2>5. \A m \in (Len(parsed') + 1)..Len(published') : \A k \in 1..RecordSize(published'[m]) :
          ring'[(start[m] + k - 1) % BufferSize] = <<m, k>>
    <3>1. \A m \in (n + 1)..np : \A k \in 1..RecordSize(published[m]) :
            ring[(start[m] + k - 1) % BufferSize] = <<m, k>>
      BY <2>1, <2>4
    <3>2. Len(parsed') = n /\ published' = published /\ ring' = ring
      BY <1>2, <1>5
    <3> HIDE DEF n
    <3> QED
      BY <3>1, <3>2
  <2>6. \A k \in 1..w : ring'[(start[Len(published') + 1] + k - 1) % BufferSize] = <<Len(published') + 1, k>>
    BY <1>2, <2>2
  <2>7. \A p \in start[Len(parsed') + 1]..(start[Len(published') + 1] - 1) :
          \E m \in (Len(parsed') + 1)..Len(published') :
            \E k \in 1..RecordSize(published'[m]) : p = start[m] + k - 1
    <3>1. \A p \in c..(e - 1) :
            \E m \in (n + 1)..np : \E k \in 1..RecordSize(published[m]) : p = start[m] + k - 1
      BY <2>3
    <3>2. Len(parsed') = n /\ published' = published
      BY <1>2, <1>5
    <3> HIDE DEF n
    <3> QED
      BY <3>1, <3>2
  <2> QED
    BY <2>5, <2>6, <2>7 DEF ContentInv
<1>10. ParserInv(start, v)'
  <2>1. reader'.at = "idle"
    BY <1>2 DEF NoView
  <2>2. GivesUpRightly'
    BY <2>1 DEF GivesUpRightly
  <2> QED
    BY <1>2, <2>1, <2>2 DEF ParserInv
<1>11. start \in [1..(Len(published') + 1) -> Nat] /\ RingStarts(start, w, v)'
  BY <1>2, <1>7, <1>8, <1>9, <1>10 DEF RingStarts
<1> QED
  BY <1>6, <1>11 DEF RingInv

\* Every step keeps the invariant.
LEMMA RingStep ==
  ASSUME RingInv, [RingNext]_ringvars
  PROVE  RingInv'
<1>1. PICK start \in [1..(Len(published) + 1) -> Nat], w \in Nat, v \in Nat : RingStarts(start, w, v)
  BY DEF RingInv
<1>2. RingTypeOK
  BY DEF RingInv
<1>3. CASE KernelBegins
  BY <1>1, <1>2, <1>3, KernelBeginsKeeps
<1>4. CASE KernelWrites
  BY <1>1, <1>2, <1>4, KernelWritesKeeps
<1>5. CASE KernelPublishes
  BY <1>1, <1>2, <1>5, KernelPublishesKeeps
<1>6. CASE NextEventType
  BY <1>1, <1>2, <1>6, NextEventTypeKeeps
<1>7. CASE ReadSampleRecord
  BY <1>1, <1>2, <1>7, ReadSampleRecordKeeps
<1>8. CASE ReadObject
  BY <1>1, <1>2, <1>8, ReadObjectKeeps
<1>9. CASE CommitReads
  BY <1>1, <1>2, <1>9, CommitReadsKeeps
<1>10. CASE UNCHANGED ringvars
  <2>1. /\ UNCHANGED <<ring, data_head, data_tail, kernel, published, parsed>>
        /\ UNCHANGED <<published, parsed, reader, got>> /\ reader' = reader /\ got' = got
    BY <1>10 DEF ringvars
  <2>2. /\ reader' \in [at : {"idle", "sample", "view", "failed", "died"}, head : Int, tail : Int,
                        objects : Seq(Nat)]
        /\ got' \in Seq(Bytes)
    BY <1>2, <2>1 DEF RingTypeOK
  <2>3. ParserInv(start, v)'
    BY <1>1, <2>1, ParserStays DEF RingStarts
  <2> QED
    BY <1>1, <1>2, <2>1, <2>2, <2>3, ReaderTurns
<1> QED
  BY <1>3, <1>4, <1>5, <1>6, <1>7, <1>8, <1>9, <1>10 DEF RingNext

-----------------------------------------------------------------------------
(* What it means for the proxy *)

\* The view that is parsed has records in it, whole, and the kernel stays out of it.
LEMMA ViewHolds ==
  ASSUME RingTypeOK, NEW start, NEW w \in Nat, NEW v \in Nat, RingStarts(start, w, v)
  PROVE  ViewIsStable
<1> SUFFICES ASSUME reader.at = "view" PROVE ViewIsStable
  BY DEF ViewIsStable
<1> DEFINE n == Len(parsed) + 1
           np == Len(published)
           b == start[n]
           c == start[v + 1]
           e == start[np + 1]
           t == b + Len(got)
           size == Distance(reader.head, reader.tail)
           Ends(a) == a[1] \in DOMAIN published /\ a[2] = RecordSize(published[a[1]])
<1>1. StartInv(start) /\ KernelInv(start, w) /\ ContentInv(start, w)
  BY DEF RingStarts
<1>2. /\ Len(parsed) < np /\ Len(got) \in Nat
      /\ reader.tail = t % Offsets /\ reader.head = c % Offsets /\ c \in Nat /\ c - b <= BufferSize
      /\ start[n + 1] <= c
  BY Parsing
<1>3. b \in Nat /\ start[n + 1] = b + RecordSize(published[n]) /\ n \in 1..np /\ np \in Nat
  BY <1>1, <1>2, NextRecord, StartFacts
<1>4. v \in n..np
  BY DEF RingStarts, ParserInv
<1>5. Len(got) <= RecordSize(published[n])
  <2> DEFINE nr == published[n].nr
             g == Len(got)
             objects == reader.objects
             whole == EventHeaderSize + IpSize + NrSize + nr * ValueSize
  <2>1. nr \in Nat /\ g \in Nat /\ objects \in Seq(Nat) /\ ToRead(nr, g, objects)
        /\ RecordSize(published[n]) = whole
    BY Parsing
  <2>2. /\ objects = <<>> => g = whole
        /\ objects # <<>> => Head(objects) \in Nat \ {0} /\ g + Head(objects) <= whole
    <3> HIDE DEF nr, g, objects
    <3>1. CASE objects = <<>>
      BY <2>1, <3>1, ReadsOn
    <3>2. CASE objects # <<>>
      BY <2>1, <3>2, ReadsOn
    <3> QED
      BY <3>1, <3>2
  <2>3. whole \in Nat
    <3>1. nr * ValueSize \in Nat
      <4> HIDE DEF nr
      <4> QED
        BY <2>1, Constants
    <3> DEFINE values == nr * ValueSize
    <3>2. values \in Nat /\ whole = EventHeaderSize + IpSize + NrSize + values
      BY <3>1
    <3> HIDE DEF values, whole
    <3> QED
      BY <3>2, Constants
  <2> HIDE DEF g, objects, whole
  <2>4. g <= whole
    <3> DEFINE x == Head(objects)
    <3>1. /\ objects = <<>> => g = whole
          /\ objects # <<>> => x \in Nat \ {0} /\ g + x <= whole
      BY <2>2
    <3> HIDE DEF x
    <3> QED
      BY <2>1, <2>3, <3>1
  <2> QED
    BY <2>1, <2>4 DEF g
<1>6. t \in Nat /\ b <= t /\ t <= c /\ c - t \in 0..BufferSize
  <2> DEFINE l == RecordSize(published[n])
             g == Len(got)
  <2>1. g \in Nat /\ b \in Nat /\ c \in Nat /\ g <= l /\ b + l <= c /\ c - b <= BufferSize /\ t = b + g
    BY <1>2, <1>3, <1>5
  <2>2. l \in Nat
    BY <1>1, <1>2, NextRecord
  <2> HIDE DEF b, c, l, g, t
  <2> QED
    BY <2>1, <2>2, Constants
<1>7. size = c - t
  <2>1. c \in Int /\ t \in Int /\ c - t \in 0..(Offsets - 1)
    <3> HIDE DEF c, t
    <3> QED
      BY <1>2, <1>6, Constants
  <2> HIDE DEF c, t
  <2>2. Distance(c % Offsets, t % Offsets) = c - t
    BY <2>1, DistanceIs
  <2> QED
    BY <1>2, <2>2
<1>8. ASSUME NEW x \in Int, NEW o, o = x % Offsets, NEW j \in Int
      PROVE  Slot(o + j) = (x + j) % BufferSize
  BY <1>8, Wraps DEF Slot
<1>9. ASSUME NEW m \in n..np, NEW k \in 1..RecordSize(published[m])
      PROVE  ring[(start[m] + k - 1) % BufferSize] = <<m, k>>
  BY <1>1 DEF ContentInv
<1>10. c <= e /\ e \in Nat
  <2>1. v + 1 \in 1..(np + 1) /\ np + 1 \in 1..(np + 1) /\ v + 1 <= np + 1
    BY <1>3, <1>4
  <2> QED
    BY <1>1, <2>1 DEF StartInv
<1>11. ASSUME NEW m \in n..np
       PROVE  /\ m \in DOMAIN published /\ m \in 1..np /\ RecordSize(published[m]) \in Nat \ {0}
              /\ start[m] \in Nat /\ start[m + 1] = start[m] + RecordSize(published[m])
  <2>1. m \in 1..np
    BY <1>3
  <2>2. published[m] \in RecordType /\ start[m] \in Nat
    BY <1>1, <2>1, StartFacts
  <2>3. start[m + 1] = start[m] + RecordSize(published[m])
    BY <1>1, <2>1 DEF StartInv
  <2> QED
    BY <2>1, <2>2, <2>3, SizeIs DEF RingTypeOK
<1>12. ASSUME NEW p \in t..(c - 2)
       PROVE  LET y == ring[p % BufferSize] z == ring[(p + 1) % BufferSize]
              IN  z = <<y[1], y[2] + 1>> \/ (Ends(y) /\ z = <<y[1] + 1, 1>>)
  <2>1. p \in b..(e - 1) /\ p + 1 < c /\ p \in Int
    <3> HIDE DEF b, c, e, t
    <3> QED
      BY <1>2, <1>3, <1>6, <1>10
  <2>2. PICK m \in n..np : \E k \in 1..RecordSize(published[m]) : p = start[m] + k - 1
    BY <1>1, <2>1 DEF ContentInv
  <2>3. PICK k \in 1..RecordSize(published[m]) : p = start[m] + k - 1
    BY <2>2
  <2> DEFINE l == RecordSize(published[m])
  <2>4. ring[p % BufferSize] = <<m, k>>
    BY <1>9, <2>3
  <2>5. start[m] \in Nat /\ l \in Nat \ {0} /\ m \in DOMAIN published /\ start[m + 1] = start[m] + l /\ m \in 1..np
    BY <1>11
  <2>6. k \in 1..l
    OBVIOUS
  <2>7. CASE k < l
    <3>1. k + 1 \in 1..l /\ p + 1 = start[m] + (k + 1) - 1
      <4> HIDE DEF l
      <4> QED
        BY <2>3, <2>5, <2>7, <2>6
    <3>2. ring[(p + 1) % BufferSize] = <<m, k + 1>>
      BY <1>9, <3>1
    <3> DEFINE y == ring[p % BufferSize]
               z == ring[(p + 1) % BufferSize]
    <3>3. y = <<m, k>> /\ z = <<m, k + 1>>
      BY <2>4, <3>2
    <3> HIDE DEF y, z
    <3>4. z = <<y[1], y[2] + 1>>
      BY <3>3
    <3> QED
      BY <3>4 DEF y, z
  <2>8. CASE ~ (k < l)
    <3>1. k = l /\ p + 1 = start[m + 1]
      <4> HIDE DEF l
      <4> QED
        BY <2>3, <2>5, <2>8, <2>6, SMTT(30)
    <3>2. m # np
      <4> SUFFICES ASSUME m = np PROVE FALSE
        OBVIOUS
      <4>1. p + 1 = e
        BY <3>1
      <4> HIDE DEF c, e
      <4> QED
        BY <1>2, <1>10, <2>1, <4>1
    <3>3. m + 1 \in n..np
      BY <1>3, <2>5, <3>2, SMTT(30)
    <3>4. start[m + 1] \in Nat /\ RecordSize(published[m + 1]) \in Nat \ {0}
      BY <1>11, <3>3
    <3>5. 1 \in 1..RecordSize(published[m + 1]) /\ start[m + 1] + 1 - 1 = start[m + 1]
      BY <3>4
    <3>6. ring[(start[m + 1] + 1 - 1) % BufferSize] = <<m + 1, 1>>
      BY <1>9, <3>3, <3>5
    <3>7. ring[(p + 1) % BufferSize] = <<m + 1, 1>>
      BY <3>1, <3>5, <3>6
    <3>8. Ends(<<m, k>>)
      BY <2>5, <3>1
    <3> QED
      BY <2>4, <3>7, <3>8
  <2> QED
    BY <2>7, <2>8
<1>13. ASSUME NEW i \in 1..(size - 1)
       PROVE  LET y == ring[Slot(reader.tail + i - 1)] z == ring[Slot(reader.tail + i)]
              IN  z = <<y[1], y[2] + 1>> \/ (Ends(y) /\ z = <<y[1] + 1, 1>>)
  <2> DEFINE p == t + (i - 1)
  <2>1. i \in 1..((c - t) - 1)
    BY <1>7
  <2>2. p \in t..(c - 2) /\ p + 1 = t + i /\ i \in Int /\ i - 1 \in Int
    <3> HIDE DEF c, t
    <3> QED
      BY <1>2, <1>6, <2>1
  <2>3. reader.tail \in Int /\ reader.tail + i - 1 = reader.tail + (i - 1)
    <3>1. reader.tail \in Int
      BY DEF RingTypeOK
    <3> QED
      BY <2>2, <3>1
  <2>4. Slot(reader.tail + (i - 1)) = p % BufferSize /\ Slot(reader.tail + i) = (t + i) % BufferSize
    <3>1. t \in Int /\ reader.tail = t % Offsets
      BY <1>2, <1>6
    <3> HIDE DEF t
    <3> QED
      BY <1>8, <2>2, <3>1
  <2>5. Slot(reader.tail + i - 1) = p % BufferSize /\ Slot(reader.tail + i) = (p + 1) % BufferSize
    BY <2>2, <2>3, <2>4
  <2> HIDE DEF p, c, t, Ends
  <2>6. LET y == ring[p % BufferSize] z == ring[(p + 1) % BufferSize]
        IN  z = <<y[1], y[2] + 1>> \/ (Ends(y) /\ z = <<y[1] + 1, 1>>)
    BY <1>12, <2>2
  <2> QED
    BY <2>5, <2>6
<1>14. size > 0 => Ends(ring[Slot(reader.head - 1)])
  <2> DEFINE l == RecordSize(published[v])
  <2>1. /\ v \in DOMAIN published /\ l \in Nat \ {0} /\ start[v] \in Nat /\ c = start[v] + l
    BY <1>4, <1>11
  <2>2. ring[(start[v] + l - 1) % BufferSize] = <<v, l>>
    <3>1. l \in 1..RecordSize(published[v])
      BY <2>1
    <3> HIDE DEF l
    <3> QED
      BY <1>4, <1>9, <3>1
  <2>3. start[v] + l - 1 = c + (-1) /\ -1 \in Int /\ c \in Int
    <3> HIDE DEF c, l
    <3> QED
      BY <2>1
  <2>4. reader.head - 1 = reader.head + (-1)
    BY DEF RingTypeOK
  <2>5. Slot(reader.head + (-1)) = (c + (-1)) % BufferSize
    <3> HIDE DEF c
    <3> QED
      BY <1>2, <1>8, <2>3
  <2>6. ring[Slot(reader.head - 1)] = <<v, l>>
    BY <2>2, <2>3, <2>4, <2>5
  <2>7. Ends(<<v, l>>)
    BY <2>1
  <2> QED
    BY <2>6, <2>7
<1>15. size <= BufferSize
  <2> HIDE DEF c, t
  <2> QED
    BY <1>6, <1>7
<1> HIDE DEF size
<1> QED
  BY <1>13, <1>14, <1>15 DEF ViewIsStable, size

\* Every step of the ring writes a record, reads one that comes next, or does neither.
LEMMA RecordsStep ==
  ASSUME RingInv, [RingNext]_ringvars
  PROVE  [Records!StreamNext]_<<[n \in DOMAIN published |-> n], parsed, TRUE>>
<1> DEFINE Numbers(p) == [n \in DOMAIN p |-> n]
<1>1. PICK start \in [1..(Len(published) + 1) -> Nat], w \in Nat, v \in Nat : RingStarts(start, w, v)
  BY DEF RingInv
<1>2. RingTypeOK /\ StartInv(start) /\ KernelInv(start, w)
  BY <1>1 DEF RingInv, RingStarts
<1>3. CASE KernelPublishes
  <2>1. PICK r \in RecordType :
          /\ published' = Append(published, r) /\ Len(published') = Len(published) + 1
          /\ Len(published') <= MaxRecords /\ published' \in Seq(RecordType)
    BY <1>2, <1>3, PublishedIs
  <2>2. parsed' = parsed
    BY <1>3 DEF KernelPublishes
  <2> DEFINE n == Len(published) + 1
  <2>3. n \in 0..MaxRecords /\ published \in Seq(RecordType) /\ n \in Nat
    BY <1>2, <2>1, Constants DEF RingTypeOK
  <2>4. Numbers(published') = Append(Numbers(published), n)
    <3>1. DOMAIN published = 1..Len(published) /\ DOMAIN published' = 1..n /\ Len(published) \in Nat
      BY <2>1, <2>3
    <3> DEFINE np == Len(published)
               s == [k \in 1..np |-> k]
               u == [k \in 1..n |-> k]
    <3>2. np \in Nat /\ n = np + 1
      BY <3>1
    <3> HIDE DEF np, n
    <3>3. s \in Seq(Nat) /\ Len(s) = np /\ u \in Seq(Nat) /\ Len(u) = n
      BY <3>2
    <3>4. Append(s, n) \in Seq(Nat) /\ Len(Append(s, n)) = n
      BY <3>2, <3>3
    <3>5. \A k \in 1..n : Append(s, n)[k] = k
      BY <3>2, <3>3
    <3>6. \A k \in 1..n : u[k] = k
      OBVIOUS
    <3> HIDE DEF s, u
    <3>7. u = Append(s, n)
      <4> DEFINE x == Append(s, n)
      <4>1. x \in Seq(Nat) /\ u \in Seq(Nat) /\ Len(u) = Len(x) /\ \A k \in 1..Len(u) : u[k] = x[k]
        BY <3>3, <3>4, <3>5, <3>6
      <4> HIDE DEF x
      <4>2. u = x
        BY <4>1, SameSeq
      <4> QED
        BY <4>2 DEF x
    <3> QED
      BY <3>1, <3>7 DEF s, u, np
  <2> HIDE DEF n
  <2> QED
    BY <2>2, <2>3, <2>4 DEF Records!StreamNext, Records!Accept
<1>4. CASE CommitReads
  <2>1. /\ Len(parsed) < Len(published) /\ parsed' = Append(parsed, Len(parsed) + 1)
        /\ published' = published
    BY <1>1, <1>2, <1>4, RecordRead
  <2> DEFINE n == Len(parsed) + 1
             s == Numbers(published)
  <2>2. n \in 1..Len(published) /\ DOMAIN published = 1..Len(published) /\ Len(published) \in Nat
    BY <1>2, <2>1 DEF RingTypeOK
  <2>3. s[n] = n /\ Len(s) = Len(published)
    <3> DEFINE np == Len(published)
    <3>1. s = [k \in 1..np |-> k] /\ np \in Nat /\ n \in 1..np
      BY <2>2
    <3> HIDE DEF s, n, np
    <3>2. s[n] = n /\ Len(s) = np
      BY <3>1
    <3> QED
      BY <3>2 DEF np
  <2>4. Numbers(published') = s
    BY <2>1
  <2> HIDE DEF s
  <2> QED
    BY <2>1, <2>3, <2>4 DEF Records!StreamNext, Records!Deliver, s
<1>5. CASE KernelBegins \/ KernelWrites \/ NextEventType \/ ReadSampleRecord \/ ReadObject \/ UNCHANGED ringvars
  <2>1. published' = published /\ parsed' = parsed
    BY <1>5 DEF KernelBegins, KernelWrites, NextEventType, ReadSampleRecord, ReadObject, ringvars
  <2> QED
    BY <2>1
<1> QED
  BY <1>3, <1>4, <1>5 DEF RingNext

\* RingIsRead: whatever the sizes of the ring, the records and the offsets at which they wrap
\* around, what ReadSampleRecord returns are the samples the kernel wrote, whole, once and in
\* order; while one is parsed the kernel stays out of the view; and the proxy gives up only on a
\* sample of too many values or on records that were lost.
THEOREM RingRead == RingSpec => RingIsRead
<1>1. RingInit => Records!StreamInit
  <2> SUFFICES ASSUME RingInit PROVE Records!StreamInit
    OBVIOUS
  <2>1. published = <<>> /\ parsed = <<>>
    BY DEF RingInit
  <2>2. [n \in DOMAIN published |-> n] = <<>>
    BY <2>1
  <2> QED
    BY <2>1, <2>2 DEF Records!StreamInit
<1>2. RingSpec => []RingInv
  <2>1. RingInv /\ [RingNext]_ringvars => RingInv'
    BY RingStep
  <2> QED
    BY BeforeRecords, <2>1, PTL DEF RingSpec
<1>3. RingInv /\ [RingNext]_ringvars =>
        [Records!StreamNext]_<<[n \in DOMAIN published |-> n], parsed, TRUE>>
  BY RecordsStep
<1>4. RingInv => ViewIsStable /\ GivesUpRightly
  <2> SUFFICES ASSUME RingInv PROVE ViewIsStable /\ GivesUpRightly
    OBVIOUS
  <2>1. PICK start \in [1..(Len(published) + 1) -> Nat], w \in Nat, v \in Nat : RingStarts(start, w, v)
    BY DEF RingInv
  <2>2. ViewIsStable
    BY <2>1, ViewHolds DEF RingInv
  <2> QED
    BY <2>1, <2>2 DEF RingStarts, ParserInv
<1> QED
  BY <1>1, <1>2, <1>3, <1>4, PTL DEF RingSpec, RingIsRead, SamplesAreRecords, Records!StreamSpec

-----------------------------------------------------------------------------
(* Proxies: the events and their groups *)

EventsOf == UniqueFilteredEvents(pmu.library)

\* The groups made so far and the sources that are left share the events among them, each
\* group with sub-events of different events and no more than there are counters, each
\* source with the sub-events of one.
ScheduleInv ==
  /\ pmu.library \in Libraries /\ OneCorePMU(pmu.library)
  /\ pmu.events = SortedEvents(EventsOf)
  /\ pmu.groups \in Seq(SUBSET EventsOf) /\ pmu.source_groups \subseteq SUBSET EventsOf
  /\ {} \notin pmu.source_groups
  /\ \A s, t \in pmu.source_groups : \A e \in s, d \in t :
       (Idx(pmu.library, e) = Idx(pmu.library, d)) <=> (s = t)
  /\ \A e \in EventsOf :
       (\E k \in DOMAIN pmu.groups : e \in pmu.groups[k]) <=> ~(\E s \in pmu.source_groups : e \in s)
  /\ \A k, l \in DOMAIN pmu.groups : k # l => pmu.groups[k] \cap pmu.groups[l] = {}
  /\ \A k \in DOMAIN pmu.groups :
       /\ Cardinality(pmu.groups[k]) \in 1..GetNumCounters(pmu.library)
       /\ \A e, d \in pmu.groups[k] : Idx(pmu.library, e) = Idx(pmu.library, d) => e = d

PmuType == [library : Libraries, events : {pmu.events}, source_groups : {pmu.source_groups},
            groups : {pmu.groups}, status : {"none", "ok", "error"}]
ProxyType == [at : {"start", "schedule", "idle", "ready", "tracing", "measure", "returned", "crashed",
                    "not_initialized"},
              type : {"unicorn_aarch64", "unicorn_x86_64", "pmu"}, layout : {proxy.layout},
              status : {"none", "ok", "discard"}, inputs : {proxy.inputs}]

EventsInv ==
  /\ proxy \in ProxyType /\ pmu \in PmuType
  /\ proxy.at = "schedule" => proxy.type = "pmu" /\ pmu.status = "ok" /\ ScheduleInv
  /\ proxy.at \in {"idle", "ready", "tracing", "measure", "returned"} /\ proxy.type = "pmu"
       /\ pmu.status = "ok" => pmu.source_groups = {} /\ ScheduleInv
  /\ proxy.at = "measure" => proxy.type = "pmu"

-----------------------------------------------------------------------------
(* Proxies: what was emitted *)

Ids == InstructionIDs \cup {kInvalidInstructionId}
Steps == [id : Ids, registers : SUBSET RegBits]
RunType ==
  [pending : BOOLEAN, id : Ids, in_range : BOOLEAN, registers : SUBSET RegBits,
   first : SUBSET RegBits, path : Seq(Steps), memory : {{}} \cup Dirty, called : BOOLEAN,
   counts : Seq(Nat)]
ToggleType == [zero_one : SUBSET RegBits, one_zero : SUBSET RegBits]
OpType == [count : Nat, toggles : ToggleType]
GenShape(g) ==
  g \in [features : {g.features}, emitted : {g.emitted}, prev_id : Ids, initial : SUBSET RegBits,
         prev : SUBSET RegBits, toggles : ToggleType, op_info : [InstructionIDs -> OpType]]

\* The registers after i of the instructions c, which bits of them rose and fell, and the
\* instructions that are known.
At(first, c, i) == IF i = 0 THEN first ELSE c[i].registers
Rise(first, c, i) == At(first, c, i) \ At(first, c, i - 1)
Fall(first, c, i) == At(first, c, i - 1) \ At(first, c, i)
KnownIn(c) == {i \in DOMAIN c : c[i].id # kInvalidInstructionId}
NamedIn(c) == {c[i].id : i \in KnownIn(c)}
Doing(c, id) == {i \in DOMAIN c : c[i].id = id}
Rises(first, c, at) == UNION {Rise(first, c, i) : i \in at}
Falls(first, c, at) == UNION {Fall(first, c, i) : i \in at}

\* What a generator knows after the instructions c.
Knows(g, first, c) ==
  /\ g.prev_id = IF c = <<>> THEN kInvalidInstructionId ELSE c[Len(c)].id
  /\ g.initial = first /\ g.prev = At(first, c, Len(c))
  /\ g.toggles = [zero_one |-> Rises(first, c, DOMAIN c), one_zero |-> Falls(first, c, DOMAIN c)]
  /\ \A id \in InstructionIDs :
       /\ (g.op_info[id].count > 0) <=> (Doing(c, id) # {})
       /\ g.op_info[id].toggles = [zero_one |-> Rises(first, c, Doing(c, id)),
                                   one_zero |-> Falls(first, c, Doing(c, id))]

\* The features of a proxy of some type.
DomainsOf(type) ==
  IF type = "pmu" THEN <<3, 4, 5, 6, 7, 8, 9, 0, 1, 2>> ELSE <<0, 1, 2, 3, 4, 5, 6, 7>>
DomainOf(type, kind) == DomainsOf(type)[CHOOSE k \in DOMAIN DomainsOf(type) : DomainKinds[k] = kind]
FeatureOf(type, kind, number) ==
  LET domain == DomainOf(type, kind) IN <<domain, IF domain = 0 THEN number + 1 ELSE number>>
ToldOf(type, bits) == IF type = "pmu" THEN bits \ Aliased ELSE bits

PairFeatures(type, c) ==
  {FeatureOf(type, "op_pair", c[i - 1].id * NumInstructionIDs + c[i].id) :
     i \in {i \in KnownIn(c) : i - 1 \in KnownIn(c)}}
BitFeatures(type, kind, base, bits) == {FeatureOf(type, kind, base + b) : b \in ToldOf(type, bits)}
OpFeatures(type, first, c, id) ==
  BitFeatures(type, "op_toggle_zero_one", id * NumRegBits, Rises(first, c, Doing(c, id)))
    \cup BitFeatures(type, "op_toggle_one_zero", id * NumRegBits, Falls(first, c, Doing(c, id)))
ExecFeatures(type, first, c) ==
  BitFeatures(type, "toggle_zero_one", 0, Rises(first, c, DOMAIN c))
    \cup BitFeatures(type, "toggle_one_zero", 0, Falls(first, c, DOMAIN c))
    \cup BitFeatures(type, "difference", 0, BitDiff(first, At(first, c, Len(c))))
    \cup {FeatureOf(type, "op", id) : id \in NamedIn(c)}
    \cup (UNION {OpFeatures(type, first, c, id) : id \in NamedIn(c)})
MemFeatures(type, pages, memory) ==
  {FeatureOf(type, "mem", pm[1][2] + pm[2][2]) :
     pm \in {pm \in pages \X memory : pm[1][1] = pm[2][1]}}
CountsFeatures(type, counts) ==
  LET clipped == ClippedCounts(counts)
      d == Len(counts) * 8
      seen == {i \in DOMAIN counts : clipped[i] > 0}
      compressed(i) == Convert8BitCountToUserFeature(i, clipped[i])
  IN  {FeatureOf(type, "count", (i - 1) * (kMaxCount + 1) + clipped[i]) : i \in DOMAIN counts}
      \cup {FeatureOf(type, "count_pair", compressed(p[1]) * d + compressed(p[2])) :
              p \in {p \in seen \X seen : p[2] < p[1]}}

\* The features are those of the instructions that were counted, of the memory if the last
\* call came, and of the counts.
Complete ==
  gen.features =
    PairFeatures(proxy.type, Counted) \cup CountsFeatures(proxy.type, run_state.counts) \cup
    (IF run_state.called
     THEN ExecFeatures(proxy.type, run_state.first, run_state.path)
            \cup MemFeatures(proxy.type, PagesRead, run_state.memory)
     ELSE {})

FeaturesInv ==
  /\ run_state \in RunType /\ GenShape(gen)
  /\ proxy.at \in {"ready", "tracing"} =>
       ~run_state.called /\ run_state.counts = <<>> /\ gen.features = PairFeatures(proxy.type, Counted)
  /\ proxy.at = "ready" => run_state.path = <<>> /\ ~run_state.pending
  /\ proxy.at = "tracing" =>
       /\ Knows(gen, run_state.first, Counted)
       /\ run_state.pending <=> run_state.path # <<>>
       /\ run_state.pending => run_state.path[Len(run_state.path)] =
                                 [id |-> run_state.id, registers |-> run_state.registers]
  /\ proxy.at = "measure" => run_state.counts = <<>> /\ Complete
  /\ proxy.at = "returned" /\ proxy.status = "ok" =>
       /\ Complete
       /\ proxy.type # "pmu" => run_state.counts = <<>>
       /\ proxy.type = "pmu" => pmu.status = "ok" /\ Len(run_state.counts) = Len(pmu.events)
  /\ ~run_state.called => run_state.memory = {}

ProxyInv == EventsInv /\ FeaturesInv

-----------------------------------------------------------------------------
(* Proxies: what is read of it *)

\* What the number of a feature says.
Meant(kind, number) ==
  LET Split(n) == <<kind, number \div n, number % n>>
  IN  CASE kind = "op_pair" -> Split(NumInstructionIDs)
        [] kind \in {"op_toggle_zero_one", "op_toggle_one_zero"} -> Split(NumRegBits)
        [] kind = "count_pair" -> Split(Len(pmu.events) * 8)
        [] kind = "count" -> <<kind, number \div (kMaxCount + 1) + 1, number % (kMaxCount + 1)>>
        [] kind = "mem" -> LET p == CHOOSE p \in PagesRead : p[2] = number - (number % PageBits)
                           IN  <<kind, p[1], number % PageBits>>
        [] OTHER -> <<kind, number, 0>>

Legible(f) == ~(proxy.type = "pmu" /\ f[1] = Domain("mem"))

\* Each of the features F is read as one of H, and each of H is read.
Tells(F, H) ==
  /\ \A f \in F : Legible(f) /\ Meaning(f) \in H
  /\ \A h \in H : \E f \in F : Meaning(f) = h

PairsIn(c) == {<<"op_pair", c[i - 1].id, c[i].id>> : i \in {i \in KnownIn(c) : i - 1 \in KnownIn(c)}}
BitsIn(kind, bits) == {<<kind, b, 0>> : b \in Told(bits)}
OpBitsOf(kind, id, bits) == {<<kind, id, b>> : b \in Told(bits)}
OpBitsIn(first, c, id) ==
  OpBitsOf("op_toggle_zero_one", id, Rises(first, c, Doing(c, id)))
    \cup OpBitsOf("op_toggle_one_zero", id, Falls(first, c, Doing(c, id)))
RunIn(first, c) ==
  BitsIn("toggle_zero_one", Rises(first, c, DOMAIN c))
    \cup BitsIn("toggle_one_zero", Falls(first, c, DOMAIN c))
    \cup BitsIn("difference", BitDiff(first, At(first, c, Len(c))))
    \cup {<<"op", id, 0>> : id \in NamedIn(c)}
    \cup (UNION {OpBitsIn(first, c, id) : id \in NamedIn(c)})
MemoryIn(memory) == {<<"mem", m[1], m[2]>> : m \in {m \in memory : \E p \in PagesRead : p[1] = m[1]}}
CountsIn(counts) ==
  LET clipped == ClippedCounts(counts)
      seen == {i \in DOMAIN counts : clipped[i] > 0}
      compressed(i) == Convert8BitCountToUserFeature(i, clipped[i])
  IN  {<<"count", i, clipped[i]>> : i \in DOMAIN counts}
      \cup {<<"count_pair", compressed(p[1]), compressed(p[2])>> : p \in {p \in seen \X seen : p[2] < p[1]}}

\* What a feature can tell of what happened, and what it told.
Kept(h) ==
  CASE h[1] = "mem" -> proxy.type # "pmu"
    [] h[1] = "count_pair" -> h[2] \div 8 > h[3] \div 8
    [] OTHER -> TRUE
HappenedIn ==
  RunIn(run_state.first, Counted) \cup PairsIn(Counted) \cup CountsIn(run_state.counts)
    \cup (IF proxy.type = "pmu" THEN {} ELSE MemoryIn(run_state.memory))

-----------------------------------------------------------------------------
(* Proxies: lemmas about numbers in order *)

\* The least of some numbers is one of them.
LEMMA LeastOf ==
  ASSUME NEW S \in SUBSET Nat, S # {}
  PROVE  Min(S) \in S /\ \A y \in S : Min(S) <= y
<1> DEFINE R == OpToRel(<, Nat)
<1>1. IsWellFoundedOn(R, Nat)
  BY NatLessThanWellFounded
<1>2. PICK x \in S : \A y \in S : ~ (<<y, x>> \in R)
  <2> HIDE DEF R
  <2> QED BY <1>1, WFMin
<1>3. ASSUME NEW y \in S PROVE x <= y
  <2>1. x \in Nat /\ y \in Nat
    OBVIOUS
  <2>2. <<y, x>> \in Nat \X Nat /\ <<y, x>>[1] = y /\ <<y, x>>[2] = x
    BY <2>1
  <2>3. ~ (y < x)
    BY <1>2, <2>2 DEF OpToRel
  <2> QED
    BY <2>1, <2>3
<1>4. \E z \in S : \A y \in S : z <= y
  BY <1>3
<1> QED
  BY <1>4 DEF Min

\* In a sequence made from a set, each of its members is found once.
LEMMA SortedEventsIs ==
  ASSUME NEW S \in SUBSET Nat, IsFiniteSet(S)
  PROVE  /\ SortedEvents(S) \in Seq(S) /\ Len(SortedEvents(S)) = Cardinality(S)
         /\ ToSet(SortedEvents(S)) = S
<1> DEFINE n == Cardinality(S)
           below(e) == {d \in S : d < e}
           rank(e) == Cardinality(below(e))
<1>1. n \in Nat
  BY FS_CardinalityType
<1>2. ASSUME NEW e \in S PROVE rank(e) \in 0..(n - 1)
  <2>1. below(e) \in SUBSET S /\ e \notin below(e)
    OBVIOUS
  <2> HIDE DEF below
  <2>2. /\ IsFiniteSet(below(e)) /\ Cardinality(below(e)) \in Nat /\ Cardinality(below(e)) <= n
        /\ n = Cardinality(below(e)) => S = below(e)
    BY <2>1, FS_Subset, FS_CardinalityType
  <2>3. n # Cardinality(below(e))
    BY <2>1, <2>2
  <2> QED
    BY <1>1, <2>2, <2>3
<1>3. ASSUME NEW e \in S, NEW d \in S, e < d PROVE rank(e) < rank(d)
  <2>1. below(e) \in SUBSET below(d) /\ e \in below(d) /\ e \notin below(e)
    <3>1. e \in Nat /\ d \in Nat /\ e < d
      BY <1>3
    <3>2. ASSUME NEW x \in below(e) PROVE x \in below(d)
      <4>1. x \in Nat /\ x \in S /\ x < e
        OBVIOUS
      <4> QED
        BY <3>1, <4>1
    <3>3. e \in below(d) /\ e \notin below(e)
      BY <3>1
    <3> HIDE DEF below
    <3> QED
      BY <3>2, <3>3
  <2>2. IsFiniteSet(below(d))
    BY FS_Subset
  <2> HIDE DEF below
  <2>3. /\ Cardinality(below(e)) <= Cardinality(below(d))
        /\ Cardinality(below(d)) = Cardinality(below(e)) => below(d) = below(e)
    BY <2>1, <2>2, FS_Subset
  <2>4. rank(e) \in Nat /\ rank(d) \in Nat
    BY <1>2
  <2> QED
    BY <2>1, <2>3, <2>4
<1>4. ASSUME NEW e \in S, NEW d \in S, rank(e) = rank(d) PROVE e = d
  <2>1. e \in Nat /\ d \in Nat /\ rank(e) \in Int /\ rank(d) \in Int
    BY <1>2
  <2>2. ~ (e < d) /\ ~ (d < e)
    BY <1>3, <1>4, <2>1
  <2> QED
    BY <2>1, <2>2
<1> HIDE DEF rank
<1>5. ASSUME NEW k \in 1..n PROVE \E e \in S : rank(e) = k - 1
  <2> SUFFICES ASSUME \A e \in S : rank(e) # k - 1 PROVE FALSE
    OBVIOUS
  <2> DEFINE T == (0..(n - 1)) \ {k - 1}
             f == [e \in S |-> rank(e)]
  <2>1. IsFiniteSet(0..(n - 1)) /\ Cardinality(0..(n - 1)) = n
    <3> HIDE DEF n, T, f
    <3>1. 0 \in Int /\ n - 1 \in Int /\ (IF 0 > n - 1 THEN 0 ELSE (n - 1) - 0 + 1) = n
      BY <1>1
    <3> QED
      BY <3>1, FS_Interval
  <2>2. IsFiniteSet(T) /\ Cardinality(T) = n - 1
    <3> HIDE DEF n
    <3>1. k - 1 \in 0..(n - 1)
      BY <1>1
    <3> DEFINE I == 0..(n - 1)
               j == k - 1
    <3>2. T = I \ {j} /\ j \in I /\ IsFiniteSet(I) /\ Cardinality(I) = n
      BY <3>1, <2>1
    <3> HIDE DEF I, j, T
    <3> QED
      BY <3>2, FS_RemoveElement
  <2>3. f \in [S -> T]
    BY <1>2
  <2>4. \E x, y \in S : x # y /\ f[x] = f[y]
    <3> HIDE DEF f, T
    <3>1. Cardinality(T) < Cardinality(S)
      BY <1>1, <2>2
    <3> QED
      BY <2>2, <2>3, <3>1, FS_PigeonHole
  <2> QED
    BY <1>4, <2>4
<1> DEFINE at(k) == CHOOSE e \in S : rank(e) = k - 1
<1>6. ASSUME NEW k \in 1..n PROVE at(k) \in S /\ rank(at(k)) = k - 1
  BY <1>5
<1>7. SortedEvents(S) = [k \in 1..n |-> at(k)]
  BY DEF SortedEvents, rank
<1> HIDE DEF at, n
<1>8. ASSUME NEW e \in S PROVE \E k \in 1..n : at(k) = e
  <2>1. rank(e) + 1 \in 1..n /\ (rank(e) + 1) - 1 = rank(e)
    BY <1>1, <1>2
  <2>2. at(rank(e) + 1) \in S /\ rank(at(rank(e) + 1)) = rank(e)
    BY <1>6, <2>1
  <2> QED
    BY <1>4, <2>1, <2>2
<1>9. /\ SortedEvents(S) \in [1..n -> S] /\ DOMAIN SortedEvents(S) = 1..n
      /\ \A k \in 1..n : SortedEvents(S)[k] = at(k)
  BY <1>6, <1>7
<1>10. SortedEvents(S) \in Seq(S) /\ Len(SortedEvents(S)) = n
  BY <1>1, <1>9
<1>11. ToSet(SortedEvents(S)) = S
  BY <1>6, <1>8, <1>9 DEF ToSet
<1> QED
  BY <1>10, <1>11 DEF n

\* A function that tells the members of a finite set apart counts them.
LEMMA ToldApart ==
  ASSUME NEW S, NEW T, IsFiniteSet(S), NEW f \in [S -> T],
         \A x, y \in S : f[x] = f[y] => x = y, \A t \in T : \E x \in S : f[x] = t
  PROVE  IsFiniteSet(T) /\ Cardinality(T) = Cardinality(S)
<1>1. f \in Surjection(S, T)
  BY DEF Surjection
<1>2. f \in Injection(S, T)
  BY DEF Injection, IsInjective
<1> QED
  BY <1>1, <1>2, FS_Surjection

-----------------------------------------------------------------------------
(* Proxies: each event is measured once *)

\* The events of a library are finitely many names.
LEMMA EventsAreNames ==
  ASSUME NEW library \in Libraries
  PROVE  /\ UniqueFilteredEvents(library) \in SUBSET Nat
         /\ IsFiniteSet(UniqueFilteredEvents(library))
         /\ UniqueFilteredEvents(library) \subseteq EventsAndSubEvents(library)
<1>1. /\ UniqueFilteredEvents(library) \in SUBSET EventsAndSubEvents(library)
      /\ IsFiniteSet(EventsAndSubEvents(library)) /\ EventsAndSubEvents(library) \subseteq Nat
  BY ProxyAssumption DEF UniqueFilteredEvents, FilterEvents, DeduplicateEvents
<1> HIDE DEF UniqueFilteredEvents
<1> QED
  BY <1>1, FS_Subset

\* One round of the scheduler: from each of some sources its first event.
LEMMA RoundKeeps ==
  ASSUME pmu \in PmuType, ScheduleInv, NEW sources \in SUBSET pmu.source_groups,
         pmu.source_groups # {},
         Cardinality(sources) = Min({GetNumCounters(pmu.library), Cardinality(pmu.source_groups)}),
         pmu' = [pmu EXCEPT !.groups = Append(@, TakeOneOfEach(sources)),
                   !.source_groups = {s \ TakeOneOfEach(sources) : s \in @} \ {{}}]
  PROVE  ScheduleInv' /\ pmu' \in PmuType' /\ pmu'.status = pmu.status
<1> DEFINE E == EventsOf
           S == pmu.source_groups
           C == GetNumCounters(pmu.library)
           I(e) == Idx(pmu.library, e)
           group == TakeOneOfEach(sources)
           G == pmu.groups
           left(s) == s \ group
<1>1. /\ E \in SUBSET Nat /\ IsFiniteSet(E) /\ S \subseteq SUBSET E /\ {} \notin S /\ S # {}
      /\ G \in Seq(SUBSET E) /\ C \in Nat \ {0}
  BY EventsAreNames, ProxyAssumption DEF ScheduleInv, EventsOf
<1>2. \A s, t \in S : \A e \in s, d \in t : (I(e) = I(d)) <=> (s = t)
  BY DEF ScheduleInv
<1>3. /\ \A e \in E : (\E k \in DOMAIN G : e \in G[k]) <=> ~(\E s \in S : e \in s)
      /\ \A k, l \in DOMAIN G : k # l => G[k] \cap G[l] = {}
      /\ \A k \in DOMAIN G : /\ Cardinality(G[k]) \in 1..C
                             /\ \A e, d \in G[k] : I(e) = I(d) => e = d
  BY DEF ScheduleInv
<1>4. /\ pmu'.groups = Append(G, group) /\ pmu'.source_groups = {left(s) : s \in S} \ {{}}
      /\ pmu'.library = pmu.library /\ pmu'.events = pmu.events /\ pmu'.status = pmu.status
      /\ pmu' \in PmuType'
  BY DEF PmuType
<1>5. ASSUME NEW s \in S PROVE Min(s) \in s
  BY <1>1, LeastOf
<1>6. group = {Min(s) : s \in sources}
  BY DEF TakeOneOfEach
<1> HIDE DEF E, S, C, I, G, group
<1>7. ASSUME NEW e \in group PROVE \E s \in sources : e = Min(s) /\ e \in s /\ s \in S
  BY <1>5, <1>6 DEF S
<1>8. group \in SUBSET E
  BY <1>1, <1>7
<1>9. ASSUME NEW e \in group, NEW d \in group, I(e) = I(d) PROVE e = d
  BY <1>2, <1>7, <1>9
<1>10. Cardinality(group) \in 1..C
  <2>1. IsFiniteSet(S)
    <3>1. IsFiniteSet(SUBSET E)
      BY <1>1, FS_SUBSET
    <3> QED
      BY <1>1, <3>1, FS_Subset
  <2>2. IsFiniteSet(sources) /\ sources \in SUBSET S
    BY <2>1, FS_Subset DEF S
  <2>3. Cardinality(S) \in Nat /\ Cardinality(S) # 0
    BY <1>1, <2>1, FS_CardinalityType, FS_EmptySet
  <2>4. Cardinality(sources) \in 1..C
    <3> DEFINE W == {C, Cardinality(S)}
    <3>1. W \in SUBSET Nat /\ W # {} /\ C \in W
      BY <1>1, <2>3
    <3>2. Min(W) \in W /\ \A y \in W : Min(W) <= y
      <4> HIDE DEF W
      <4> QED
        BY <3>1, LeastOf
    <3>3. Cardinality(sources) = Min(W)
      BY DEF C, S
    <3> QED
      BY <1>1, <2>3, <3>2, <3>3
  <2>5. Cardinality(group) = Cardinality(sources)
    <3> DEFINE f == [s \in sources |-> Min(s)]
    <3>1. f \in [sources -> group]
      BY <1>6
    <3>2. \A s, t \in sources : f[s] = f[t] => s = t
      <4> SUFFICES ASSUME NEW s \in sources, NEW t \in sources, Min(s) = Min(t) PROVE s = t
        OBVIOUS
      <4>1. s \in S /\ t \in S
        BY <2>2
      <4>2. Min(s) \in s /\ Min(t) \in t
        BY <1>5, <4>1
      <4> QED
        BY <1>2, <4>1, <4>2
    <3>3. \A e \in group : \E s \in sources : f[s] = e
      BY <1>6
    <3> HIDE DEF f
    <3> QED
      BY <2>2, <3>1, <3>2, <3>3, ToldApart
  <2> QED
    BY <2>4, <2>5
<1> DEFINE H == Append(G, group)
           T == {left(s) : s \in S} \ {{}}
<1>11. /\ H \in Seq(SUBSET E) /\ DOMAIN H = 1..(Len(G) + 1) /\ DOMAIN G = 1..Len(G)
       /\ Len(G) \in Nat /\ H[Len(G) + 1] = group /\ \A k \in DOMAIN G : H[k] = G[k]
  BY <1>1, <1>8
<1>12. \A k \in DOMAIN H : k \in DOMAIN G \/ k = Len(G) + 1
  <2> HIDE DEF H
  <2> QED
    BY <1>11
<1>13. /\ T \subseteq SUBSET E /\ {} \notin T
       /\ \A e \in E : (\E u \in T : e \in u) <=> (e \notin group /\ \E s \in S : e \in s)
  <2>1. ASSUME NEW u \in T PROVE u \subseteq E /\ u # {} /\ \E s \in S : u = s \ group
    BY <1>1
  <2>2. ASSUME NEW e \in E, NEW s \in S, e \in s, e \notin group PROVE left(s) \in T /\ e \in left(s)
    BY <2>2
  <2> HIDE DEF T
  <2>3. ASSUME NEW e \in E
        PROVE  (\E u \in T : e \in u) <=> (e \notin group /\ \E s \in S : e \in s)
    <3>1. ASSUME NEW u \in T, e \in u PROVE e \notin group /\ \E s \in S : e \in s
      <4>1. PICK s \in S : u = s \ group
        BY <2>1
      <4> QED
        BY <3>1, <4>1
    <3>2. ASSUME e \notin group, NEW s \in S, e \in s PROVE \E u \in T : e \in u
      BY <2>2, <3>2
    <3> QED
      BY <3>1, <3>2
  <2>4. T \subseteq SUBSET E
    BY <2>1
  <2>5. {} \notin T
    BY <2>1
  <2> QED
    BY <2>3, <2>4, <2>5
<1>14. ASSUME NEW u \in T, NEW v \in T, NEW e \in u, NEW d \in v
       PROVE  (I(e) = I(d)) <=> (u = v)
  <2>1. PICK s \in S : u = left(s)
    OBVIOUS
  <2>2. PICK t \in S : v = left(t)
    OBVIOUS
  <2>3. e \in s /\ d \in t
    BY <2>1, <2>2
  <2>4. u = v => s = t
    <3>1. u = v => e \in t
      BY <2>2
    <3> QED
      BY <1>2, <2>3, <3>1
  <2> QED
    BY <1>2, <2>1, <2>2, <2>3, <2>4
<1> HIDE DEF H, T
<1>15. Len(G) + 1 \in DOMAIN H /\ DOMAIN G \subseteq DOMAIN H
  BY <1>11
<1>16. ASSUME NEW e \in E
       PROVE  (\E k \in DOMAIN H : e \in H[k]) <=> (e \in group \/ \E k \in DOMAIN G : e \in G[k])
  <2>1. ASSUME NEW k \in DOMAIN H, e \in H[k] PROVE e \in group \/ \E l \in DOMAIN G : e \in G[l]
    BY <1>11, <1>12, <2>1
  <2>2. ASSUME e \in group PROVE \E k \in DOMAIN H : e \in H[k]
    BY <1>11, <1>15, <2>2
  <2>3. ASSUME NEW l \in DOMAIN G, e \in G[l] PROVE \E k \in DOMAIN H : e \in H[k]
    BY <1>11, <1>15, <2>3
  <2> QED
    BY <2>1, <2>2, <2>3
<1>17. \A e \in E : (\E k \in DOMAIN H : e \in H[k]) <=> ~(\E u \in T : e \in u)
  BY <1>3, <1>7, <1>13, <1>16
<1>18. \A k \in DOMAIN G : G[k] \cap group = {}
  BY <1>1, <1>3, <1>7, <1>8
<1>19. \A k, l \in DOMAIN H : k # l => H[k] \cap H[l] = {}
  BY <1>3, <1>11, <1>12, <1>18
<1>20. \A k \in DOMAIN H : /\ Cardinality(H[k]) \in 1..C
                           /\ \A e, d \in H[k] : I(e) = I(d) => e = d
  BY <1>3, <1>9, <1>10, <1>11, <1>12
<1>21. pmu'.groups = H /\ pmu'.source_groups = T /\ pmu'.library = pmu.library
       /\ pmu'.events = pmu.events /\ EventsOf' = E
  BY <1>4 DEF H, T, E, EventsOf
<1>22. \A u, v \in T : \A e \in u, d \in v : (I(e) = I(d)) <=> (u = v)
  BY <1>14
<1>23. /\ pmu.library \in Libraries /\ OneCorePMU(pmu.library) /\ pmu.events = SortedEvents(E)
  BY DEF ScheduleInv, E
<1>24. ScheduleInv'
  <2>1. pmu.library' \in Libraries /\ OneCorePMU(pmu.library') /\ pmu.events' = SortedEvents(EventsOf')
    BY <1>21, <1>23
  <2>2. pmu.groups' \in Seq(SUBSET EventsOf') /\ pmu.source_groups' \subseteq SUBSET EventsOf'
        /\ {} \notin pmu.source_groups'
    BY <1>11, <1>13, <1>21
  <2>3. \A s, t \in pmu.source_groups' : \A e \in s, d \in t :
          (Idx(pmu.library', e) = Idx(pmu.library', d)) <=> (s = t)
    <3>1. \A u, v \in T : \A e \in u, d \in v :
            (Idx(pmu.library, e) = Idx(pmu.library, d)) <=> (u = v)
      BY <1>22 DEF I
    <3>2. pmu.source_groups' = T /\ pmu.library' = pmu.library
      BY <1>21
    <3> HIDE DEF left
    <3> QED
      BY ONLY <3>1, <3>2
  <2>4. \A e \in EventsOf' : (\E k \in DOMAIN pmu.groups' : e \in pmu.groups'[k])
                             <=> ~(\E s \in pmu.source_groups' : e \in s)
    BY <1>17, <1>21
  <2>5. \A k, l \in DOMAIN pmu.groups' : k # l => pmu.groups'[k] \cap pmu.groups'[l] = {}
    BY <1>19, <1>21
  <2>6. \A k \in DOMAIN pmu.groups' :
          /\ Cardinality(pmu.groups'[k]) \in 1..GetNumCounters(pmu.library')
          /\ \A e, d \in pmu.groups'[k] : Idx(pmu.library', e) = Idx(pmu.library', d) => e = d
    BY <1>20, <1>21 DEF I, C
  <2> QED
    BY <2>1, <2>2, <2>3, <2>4, <2>5, <2>6 DEF ScheduleInv
<1> QED
  BY <1>4, <1>24

\* What is found out of the machine at the start.
LEMMA InitializeKeeps ==
  ASSUME EventsInv, PMUEventProxyInitialize
  PROVE  EventsInv'
<1> USE DEF EventsInv, PMUEventProxyInitialize
<1>1. PICK library \in Libraries, failed \in BOOLEAN :
        IF ~OneCorePMU(library)
        THEN proxy' = [proxy EXCEPT !.at = "crashed"] /\ UNCHANGED pmu
        ELSE IF failed \/ EventsAndSubEvents(library) = {}
        THEN proxy' = [proxy EXCEPT !.at = "not_initialized"] /\ UNCHANGED pmu
        ELSE LET events == UniqueFilteredEvents(library)
                 same_idx(e) == {d \in events : Idx(library, d) = Idx(library, e)}
             IN  /\ proxy' = [proxy EXCEPT !.at = "schedule"]
                 /\ pmu' = [library |-> library, events |-> SortedEvents(events), groups |-> <<>>,
                            source_groups |-> {same_idx(e) : e \in events}, status |-> "ok"]
  OBVIOUS
<1>2. CASE proxy' = [proxy EXCEPT !.at = "crashed"] /\ UNCHANGED pmu
  BY <1>2 DEF ProxyType, PmuType
<1>3. CASE proxy' = [proxy EXCEPT !.at = "not_initialized"] /\ UNCHANGED pmu
  BY <1>3 DEF ProxyType, PmuType
<1> DEFINE E == UniqueFilteredEvents(library)
           same_idx(e) == {d \in E : Idx(library, d) = Idx(library, e)}
           S == {same_idx(e) : e \in E}
<1>4. CASE /\ OneCorePMU(library) /\ proxy' = [proxy EXCEPT !.at = "schedule"]
           /\ pmu' = [library |-> library, events |-> SortedEvents(E), groups |-> <<>>,
                      source_groups |-> S, status |-> "ok"]
  <2>1. /\ proxy' \in ProxyType' /\ pmu' \in PmuType' /\ proxy'.at = "schedule"
        /\ proxy'.type = "pmu" /\ pmu'.status = "ok"
    BY <1>4 DEF ProxyType, PmuType
  <2>2. /\ pmu'.library = library /\ pmu'.events = SortedEvents(E) /\ pmu'.groups = <<>>
        /\ pmu'.source_groups = S /\ EventsOf' = E
    BY <1>4 DEF EventsOf
  <2>3. S \subseteq SUBSET E /\ {} \notin S
    OBVIOUS
  <2>4. \A s, t \in S : \A e \in s, d \in t : (Idx(library, e) = Idx(library, d)) <=> (s = t)
    <3> SUFFICES ASSUME NEW s \in S, NEW t \in S, NEW e \in s, NEW d \in t
                 PROVE  (Idx(library, e) = Idx(library, d)) <=> (s = t)
      OBVIOUS
    <3>1. PICK a \in E : s = same_idx(a)
      OBVIOUS
    <3>2. PICK b \in E : t = same_idx(b)
      OBVIOUS
    <3>3. Idx(library, e) = Idx(library, a) /\ Idx(library, d) = Idx(library, b)
      BY <3>1, <3>2
    <3>4. Idx(library, a) = Idx(library, b) => s = t
      BY <3>1, <3>2
    <3>5. s = t => e \in same_idx(b)
      BY <3>2
    <3> QED
      BY <3>3, <3>4, <3>5
  <2>5. \A e \in E : \E s \in S : e \in s
    <3> SUFFICES ASSUME NEW e \in E PROVE \E s \in S : e \in s
      OBVIOUS
    <3> WITNESS same_idx(e) \in S
    <3> QED
      OBVIOUS
  <2> HIDE DEF S, E
  <2>6. ScheduleInv'
    BY <1>4, <2>2, <2>3, <2>4, <2>5 DEF ScheduleInv
  <2> QED
    BY <2>1, <2>6
<1> QED
  BY <1>1, <1>2, <1>3, <1>4

\* Who is scheduled stays, until nobody is left.
LEMMA EventsStep == EventsInv /\ [ProxyNext]_proxyvars => EventsInv'
<1> SUFFICES ASSUME EventsInv, [ProxyNext]_proxyvars PROVE EventsInv'
  OBVIOUS
<1>1. CASE PMUEventProxyInitialize
  BY <1>1, InitializeKeeps
<1>2. CASE ScheduleGroup
  <2>1. proxy.at = "schedule" /\ pmu.source_groups # {} /\ proxy' = proxy
    BY <1>2 DEF ScheduleGroup
  <2>2. PICK sources \in SUBSET pmu.source_groups :
          /\ Cardinality(sources) =
               Min({GetNumCounters(pmu.library), Cardinality(pmu.source_groups)})
          /\ pmu' = [pmu EXCEPT !.groups = Append(@, TakeOneOfEach(sources)),
                       !.source_groups = {s \ TakeOneOfEach(sources) : s \in @} \ {{}}]
    BY <1>2 DEF ScheduleGroup
  <2>3. ScheduleInv' /\ pmu' \in PmuType' /\ pmu'.status = pmu.status
    BY <2>1, <2>2, RoundKeeps DEF EventsInv
  <2> QED
    BY <2>1, <2>3 DEF EventsInv, ProxyType
<1>3. ASSUME pmu' = pmu, ScheduleInv PROVE ScheduleInv'
  BY <1>3 DEF ScheduleInv, EventsOf
<1>4. CASE ScheduleEnds
  <2>1. proxy' = [proxy EXCEPT !.at = "idle"] /\ proxy.at = "schedule"
    BY <1>4 DEF ScheduleEnds
  <2>2. CASE pmu.source_groups = {} /\ UNCHANGED pmu
    BY <1>3, <2>1, <2>2 DEF EventsInv, ProxyType, PmuType
  <2>3. CASE pmu' = [pmu EXCEPT !.status = "error", !.source_groups = {}]
    <3>1. pmu'.status = "error" /\ pmu' \in PmuType'
      BY <2>3 DEF EventsInv, PmuType
    <3> QED
      BY <2>1, <3>1 DEF EventsInv, ProxyType
  <2> QED
    BY <1>4, <2>2, <2>3 DEF ScheduleEnds
<1>5. ASSUME pmu' = pmu, proxy' = proxy PROVE EventsInv'
  BY <1>3, <1>5 DEF EventsInv, ProxyType, PmuType
<1>6. ASSUME pmu' = pmu, proxy' \in ProxyType', proxy'.type = proxy.type,
             proxy.at \in {"idle", "ready", "tracing", "measure", "returned"},
             proxy'.at \in {"ready", "tracing", "measure", "returned", "crashed"},
             proxy'.at = "measure" => proxy.type = "pmu"
      PROVE  EventsInv'
  <2>1. pmu' \in PmuType'
    BY <1>6 DEF EventsInv, PmuType
  <2> QED
    BY <1>3, <1>6, <2>1 DEF EventsInv
<1>7. proxy \in ProxyType
  BY DEF EventsInv
<1>8. CASE TestOneInput
  BY <1>6, <1>7, <1>8 DEF TestOneInput, ProxyType
<1>9. CASE StartExecution
  BY <1>6, <1>7, <1>9 DEF StartExecution, ProxyType
<1>10. CASE ExecuteInstruction
  BY <1>6, <1>7, <1>10 DEF ExecuteInstruction, ProxyType, Goto
<1>11. CASE EndExecution
  <2>1. /\ pmu' = pmu /\ proxy.at \in {"ready", "tracing"}
        /\ \E ok \in BOOLEAN :
             LET status == IF ok /\ run_state.in_range THEN "ok" ELSE "discard"
             IN  IF proxy.type = "pmu" /\ status = "ok" THEN Goto("measure") ELSE Return(status)
    BY <1>11 DEF EndExecution
  <2> QED
    BY <1>6, <1>7, <2>1 DEF ProxyType, Goto, Return
<1>12. CASE MeasureEvents
  <2>1. /\ pmu' = pmu /\ proxy.at = "measure" /\ (Return("ok") \/ Return("discard"))
    BY <1>12 DEF MeasureEvents
  <2> QED
    BY <1>6, <1>7, <2>1 DEF ProxyType, Return
<1>13. CASE UNCHANGED proxyvars
  BY <1>5, <1>13 DEF proxyvars
<1> QED
  BY <1>1, <1>2, <1>4, <1>8, <1>9, <1>10, <1>11, <1>12, <1>13 DEF ProxyNext

\* Before the start nothing is scheduled.
LEMMA EventsInitial == ProxyInit => EventsInv
<1> SUFFICES ASSUME ProxyInit PROVE EventsInv
  OBVIOUS
<1>1. pmu = NoEvents /\ NoEvents.library \in Libraries
  BY ProxyAssumption DEF ProxyInit, NoEvents
<1>2. pmu \in PmuType
  BY <1>1 DEF NoEvents, PmuType
<1>3. PICK type \in ProxyTypes, layout \in Layouts :
        proxy = [at |-> IF type = "pmu" THEN "start" ELSE "idle", type |-> type,
                 layout |-> layout, status |-> "none", inputs |-> 0]
  BY DEF ProxyInit
<1>4. proxy \in ProxyType /\ proxy.at \in {"start", "idle"} /\ (proxy.type = "pmu" => proxy.at = "start")
  BY <1>3, ProxyAssumption DEF ProxyType
<1> QED
  BY <1>2, <1>4 DEF EventsInv

\* A set of one number has one member.
LEMMA OneMember ==
  ASSUME NEW S, NEW x \in S, \A y \in S : y = x
  PROVE  Cardinality(S) = 1
<1>1. S = {x}
  OBVIOUS
<1> QED
  BY <1>1, FS_Singleton

\* Once everything is scheduled each event is in one group.
LEMMA EventsInvTells == EventsInv => EachEventOnce
<1> SUFFICES ASSUME EventsInv, proxy.at \in {"idle", "returned"}, proxy.type = "pmu",
                    pmu.status = "ok"
             PROVE  EachEventOnce
  BY DEF EachEventOnce
<1> DEFINE lib == pmu.library
           named == EventsAndSubEvents(lib)
           E == EventsOf
           G == pmu.groups
<1>1. ScheduleInv /\ pmu.source_groups = {}
  BY DEF EventsInv
<1>2. /\ lib \in Libraries /\ pmu.events = SortedEvents(E) /\ G \in Seq(SUBSET E)
      /\ \A e \in E : \E k \in DOMAIN G : e \in G[k]
      /\ \A k, l \in DOMAIN G : k # l => G[k] \cap G[l] = {}
      /\ \A k \in DOMAIN G : /\ Cardinality(G[k]) \in 1..GetNumCounters(lib)
                             /\ \A e, d \in G[k] : Idx(lib, e) = Idx(lib, d) => e = d
  BY <1>1 DEF ScheduleInv
<1>3. E \in SUBSET Nat /\ IsFiniteSet(E) /\ named \subseteq Nat
  BY <1>2, EventsAreNames, ProxyAssumption DEF EventsOf
<1>4. ASSUME NEW e \in named
      PROVE  LET first == Min({d \in named : FullName(lib, d) = FullName(lib, e)})
             IN  Cardinality({k \in DOMAIN G : first \in G[k]}) = IF first \in lib.paired_only THEN 0 ELSE 1
  <2> DEFINE same == {d \in named : FullName(lib, d) = FullName(lib, e)}
             first == Min(same)
             held == {k \in DOMAIN G : first \in G[k]}
  <2>1. same \in SUBSET Nat /\ same # {}
    BY <1>3
  <2>2. first \in same /\ \A d \in same : first <= d
    <3> HIDE DEF same
    <3> QED
      BY <2>1, LeastOf
  <2>3. first \in E <=> first \notin lib.paired_only
    <3>1. first \in named /\ FullName(lib, first) = FullName(lib, e)
      BY <2>2
    <3>2. ~ \E d \in named : d < first /\ FullName(lib, d) = FullName(lib, first)
      <4> SUFFICES ASSUME NEW d \in named, d < first, FullName(lib, d) = FullName(lib, first)
                   PROVE  FALSE
        OBVIOUS
      <4>1. d \in same
        BY <3>1
      <4>2. d \in Nat /\ first \in Nat /\ first <= d
        BY <2>1, <2>2, <4>1
      <4> QED
        BY <4>2
    <3> HIDE DEF first
    <3> QED
      BY <3>1, <3>2 DEF EventsOf, UniqueFilteredEvents, FilterEvents, DeduplicateEvents
  <2> HIDE DEF first
  <2>4. CASE first \in lib.paired_only
    <3>1. first \notin E
      BY <2>3, <2>4
    <3>2. held = {}
      BY <1>2, <3>1
    <3> QED
      BY <2>4, <3>2, FS_EmptySet DEF first
  <2>5. CASE first \notin lib.paired_only
    <3>1. PICK k \in DOMAIN G : first \in G[k]
      BY <1>2, <2>3, <2>5
    <3>2. k \in held /\ \A l \in held : l = k
      BY <1>2, <3>1
    <3> HIDE DEF held
    <3>3. Cardinality(held) = 1
      BY <3>2, OneMember
    <3> QED
      BY <2>5, <3>3 DEF first, held
  <2> QED
    BY <2>4, <2>5
<1>5. UNION ToSet(G) = ToSet(pmu.events)
  <2>1. ToSet(pmu.events) = E
    BY <1>2, <1>3, SortedEventsIs
  <2>2. UNION ToSet(G) = E
    BY <1>2 DEF ToSet
  <2> QED
    BY <2>1, <2>2
<1>6. ASSUME NEW g \in ToSet(G)
      PROVE  /\ Cardinality(g) \in 1..GetNumCounters(lib)
             /\ Cardinality({Idx(lib, e) : e \in g}) = Cardinality(g)
  <2>1. PICK k \in DOMAIN G : g = G[k]
    BY DEF ToSet
  <2>2. g \in SUBSET E /\ Cardinality(g) \in 1..GetNumCounters(lib)
        /\ \A e, d \in g : Idx(lib, e) = Idx(lib, d) => e = d
    BY <1>2, <2>1
  <2>3. IsFiniteSet(g)
    BY <1>3, <2>2, FS_Subset
  <2> DEFINE T == {Idx(lib, e) : e \in g}
             f == [e \in g |-> Idx(lib, e)]
  <2>4. f \in [g -> T] /\ (\A e, d \in g : f[e] = f[d] => e = d) /\ \A t \in T : \E e \in g : f[e] = t
    BY <2>2
  <2> HIDE DEF T, f
  <2>5. Cardinality(T) = Cardinality(g)
    BY <2>3, <2>4, ToldApart
  <2> QED
    BY <2>2, <2>5 DEF T
<1> QED
  BY <1>4, <1>5, <1>6 DEF EachEventOnce

-----------------------------------------------------------------------------
(* Proxies: what the generator knows of a run *)

\* One more entry of a sequence.
LEMMA OneMore ==
  ASSUME NEW S, NEW c \in Seq(S), NEW s \in S
  PROVE  /\ Append(c, s) \in Seq(S) /\ Len(c) \in Nat /\ DOMAIN c = 1..Len(c)
         /\ Len(Append(c, s)) = Len(c) + 1
         /\ DOMAIN Append(c, s) = DOMAIN c \cup {Len(c) + 1} /\ Len(c) + 1 \notin DOMAIN c
         /\ Append(c, s)[Len(c) + 1] = s /\ \A i \in DOMAIN c : Append(c, s)[i] = c[i]
         /\ Append(c, s) # <<>>
<1>1. /\ Append(c, s) \in Seq(S) /\ Len(c) \in Nat /\ DOMAIN c = 1..Len(c)
      /\ Len(Append(c, s)) = Len(c) + 1 /\ DOMAIN Append(c, s) = 1..(Len(c) + 1)
      /\ Append(c, s)[Len(c) + 1] = s /\ \A i \in DOMAIN c : Append(c, s)[i] = c[i]
      /\ Append(c, s) # <<>>
  OBVIOUS
<1>2. 1..(Len(c) + 1) = 1..Len(c) \cup {Len(c) + 1} /\ Len(c) + 1 \notin 1..Len(c)
  BY <1>1
<1> QED
  BY <1>1, <1>2

\* The union of one more set.
LEMMA UnionOfMore ==
  ASSUME NEW f, NEW S, NEW x
  PROVE  UNION {f[i] : i \in S \cup {x}} = (UNION {f[i] : i \in S}) \cup f[x]
<1> DEFINE A == UNION {f[i] : i \in S \cup {x}}
           B == UNION {f[i] : i \in S}
<1>1. \A y \in A : y \in B \cup f[x]
  <2> SUFFICES ASSUME NEW y \in A PROVE y \in B \cup f[x]
    OBVIOUS
  <2>1. PICK i \in S \cup {x} : y \in f[i]
    OBVIOUS
  <2> QED
    BY <2>1
<1>2. \A i \in S \cup {x} : f[i] \subseteq A
  OBVIOUS
<1>3. \A y \in B : \E i \in S : y \in f[i]
  OBVIOUS
<1> HIDE DEF A, B
<1>4. \A y : y \in A <=> y \in B \cup f[x]
  BY <1>1, <1>2, <1>3
<1>5. A = B \cup f[x]
  BY <1>4
<1> QED
  BY <1>5 DEF A, B

\* What rises and falls in one more instruction.
MoreRises(first, c, s, I) ==
  /\ At(first, Append(c, s), Len(c) + 1) = s.registers
  /\ Rises(first, Append(c, s), I) = Rises(first, c, I)
  /\ Falls(first, Append(c, s), I) = Falls(first, c, I)
  /\ Rises(first, Append(c, s), I \cup {Len(c) + 1})
       = Rises(first, c, I) \cup (s.registers \ At(first, c, Len(c)))
  /\ Falls(first, Append(c, s), I \cup {Len(c) + 1})
       = Falls(first, c, I) \cup (At(first, c, Len(c)) \ s.registers)
LEMMA OneMoreRises ==
  ASSUME NEW first, NEW c \in Seq(Steps), NEW s \in Steps, NEW I, I \subseteq DOMAIN c
  PROVE  MoreRises(first, c, s, I)
<1> DEFINE d == Append(c, s)
           n == Len(c) + 1
           prev == At(first, c, Len(c))
<1>1. /\ Len(c) \in Nat /\ DOMAIN c = 1..Len(c) /\ Len(d) = n /\ d[n] = s
      /\ \A i \in DOMAIN c : d[i] = c[i]
  BY OneMore
<1> HIDE DEF d
<1>2. ASSUME NEW i \in DOMAIN c
      PROVE  At(first, d, i) = At(first, c, i) /\ At(first, d, i - 1) = At(first, c, i - 1)
  <2>1. i - 1 = 0 \/ i - 1 \in DOMAIN c
    BY <1>1
  <2> QED
    BY <1>1, <2>1 DEF At
<1>3. At(first, d, n) = s.registers /\ At(first, d, n - 1) = prev
  <2>1. n # 0 /\ n - 1 = Len(c) /\ (Len(c) = 0 \/ Len(c) \in DOMAIN c)
    BY <1>1
  <2> QED
    BY <1>1, <2>1 DEF At
<1> HIDE DEF n, prev
<1>4. \A i \in DOMAIN c : Rise(first, d, i) = Rise(first, c, i) /\ Fall(first, d, i) = Fall(first, c, i)
  BY <1>2 DEF Rise, Fall
<1>5. Rise(first, d, n) = s.registers \ prev /\ Fall(first, d, n) = prev \ s.registers
  BY <1>3 DEF Rise, Fall
<1> DEFINE R(i) == Rise(first, d, i)
           F(i) == Fall(first, d, i)
<1>6. \A i \in I : R(i) = Rise(first, c, i) /\ F(i) = Fall(first, c, i)
  BY <1>4
<1>7. R(n) = s.registers \ prev /\ F(n) = prev \ s.registers
  BY <1>5
<1>8. Rises(first, d, I) = Rises(first, c, I) /\ Falls(first, d, I) = Falls(first, c, I)
  BY <1>6 DEF Rises, Falls
<1>9. /\ Rises(first, d, I \cup {n}) = Rises(first, d, I) \cup R(n)
      /\ Falls(first, d, I \cup {n}) = Falls(first, d, I) \cup F(n)
  <2> HIDE DEF R, F
  <2> DEFINE r == [i \in I \cup {n} |-> R(i)]
             f == [i \in I \cup {n} |-> F(i)]
  <2>1. /\ UNION {r[i] : i \in I \cup {n}} = (UNION {r[i] : i \in I}) \cup r[n]
        /\ UNION {f[i] : i \in I \cup {n}} = (UNION {f[i] : i \in I}) \cup f[n]
    <3> HIDE DEF r, f
    <3> QED
      BY UnionOfMore
  <2> QED
    BY <2>1 DEF R, F, Rises, Falls
<1> QED
  BY <1>3, <1>7, <1>8, <1>9 DEF d, n, prev, MoreRises

\* Which instructions one more adds.
LEMMA OneMoreDone ==
  ASSUME NEW c \in Seq(Steps), NEW s \in Steps, NEW id
  PROVE  /\ s.id = id => Doing(Append(c, s), id) = Doing(c, id) \cup {Len(c) + 1}
         /\ s.id # id => Doing(Append(c, s), id) = Doing(c, id)
         /\ Doing(c, id) \in SUBSET DOMAIN c
<1> DEFINE d == Append(c, s)
           n == Len(c) + 1
<1>1. DOMAIN d = DOMAIN c \cup {n} /\ n \notin DOMAIN c /\ d[n] = s /\ \A i \in DOMAIN c : d[i] = c[i]
  BY OneMore
<1> HIDE DEF d, n
<1>2. /\ s.id = id => {i \in DOMAIN d : d[i].id = id} = {i \in DOMAIN c : c[i].id = id} \cup {n}
      /\ s.id # id => {i \in DOMAIN d : d[i].id = id} = {i \in DOMAIN c : c[i].id = id}
  BY <1>1
<1> QED
  BY <1>2 DEF Doing, d, n

\* What an instruction adds to the features.
Pair(type, g, id) ==
  IF kInvalidInstructionId \in {id, g.prev_id} THEN {}
  ELSE {FeatureOf(type, "op_pair", g.prev_id * NumInstructionIDs + id)}
Noted(g, id, registers) ==
  IF id = kInvalidInstructionId THEN g.op_info
  ELSE [g.op_info EXCEPT ![id] = [count |-> @.count + 1,
                                  toggles |-> AccumulateToggle(@.toggles, g.prev, registers)]]

\* The fields after an instruction.
LEMMA AfterInstructionIs ==
  ASSUME NEW g, GenShape(g), NEW s \in Steps
  PROVE  LET h == AfterInstruction(g, s.id, s.registers)
         IN  /\ GenShape(h) /\ h.features = g.features \cup Pair(proxy.type, g, s.id)
             /\ h.prev_id = s.id /\ h.initial = g.initial /\ h.prev = s.registers
             /\ h.toggles = AccumulateToggle(g.toggles, g.prev, s.registers)
             /\ h.op_info = Noted(g, s.id, s.registers)
<1> DEFINE h == AfterInstruction(g, s.id, s.registers)
           e == Emit(g, Pair(proxy.type, g, s.id))
<1>1. /\ g = [features |-> g.features, emitted |-> g.emitted, prev_id |-> g.prev_id,
              initial |-> g.initial, prev |-> g.prev, toggles |-> g.toggles, op_info |-> g.op_info]
      /\ g.prev_id \in Ids /\ g.initial \in SUBSET RegBits /\ g.prev \in SUBSET RegBits
      /\ g.toggles \in ToggleType /\ g.op_info \in [InstructionIDs -> OpType]
  BY DEF GenShape
<1>2. s.id \in Ids /\ s.registers \in SUBSET RegBits
  BY DEF Steps
<1>3. AccumulateToggle(g.toggles, g.prev, s.registers) \in ToggleType
  BY <1>1, <1>2 DEF AccumulateToggle, ToggleType
<1>4. Noted(g, s.id, s.registers) \in [InstructionIDs -> OpType]
  <2>1. CASE s.id = kInvalidInstructionId
    BY <1>1, <2>1 DEF Noted
  <2>2. CASE s.id # kInvalidInstructionId
    <3>1. s.id \in InstructionIDs /\ g.op_info[s.id] \in OpType
      BY <1>1, <1>2, <2>2 DEF Ids
    <3>2. /\ g.op_info[s.id].count + 1 \in Nat
          /\ AccumulateToggle(g.op_info[s.id].toggles, g.prev, s.registers) \in ToggleType
      BY <1>1, <1>2, <3>1 DEF OpType, ToggleType, AccumulateToggle
    <3>3. [count |-> g.op_info[s.id].count + 1,
           toggles |-> AccumulateToggle(g.op_info[s.id].toggles, g.prev, s.registers)] \in OpType
      BY <3>2 DEF OpType
    <3> QED
      BY <1>1, <2>2, <3>1, <3>3 DEF Noted
  <2> QED
    BY <2>1, <2>2
<1>5. h = [e EXCEPT !.op_info = Noted(g, s.id, s.registers), !.prev_id = s.id,
                    !.prev = s.registers, !.toggles = AccumulateToggle(@, g.prev, s.registers)]
  BY DEF AfterInstruction, Noted, Pair, Feature, FeatureOf, Domain, DomainOf, Domains, DomainsOf
<1>6. e = [features |-> g.features \cup Pair(proxy.type, g, s.id),
           emitted |-> g.emitted + Cardinality(Pair(proxy.type, g, s.id)), prev_id |-> g.prev_id,
           initial |-> g.initial, prev |-> g.prev, toggles |-> g.toggles, op_info |-> g.op_info]
  <2> DEFINE P == Pair(proxy.type, g, s.id)
  <2>1. e = [g EXCEPT !.features = @ \cup P, !.emitted = @ + Cardinality(P)]
    BY DEF Emit, EmitAll
  <2> HIDE DEF e, P
  <2>2. e = [features |-> g.features \cup P, emitted |-> g.emitted + Cardinality(P),
             prev_id |-> g.prev_id, initial |-> g.initial, prev |-> g.prev,
             toggles |-> g.toggles, op_info |-> g.op_info]
    BY <1>1, <2>1
  <2> QED
    BY <2>2 DEF P
<1> HIDE DEF e, h
<1>7. h = [features |-> g.features \cup Pair(proxy.type, g, s.id),
           emitted |-> g.emitted + Cardinality(Pair(proxy.type, g, s.id)), prev_id |-> s.id,
           initial |-> g.initial, prev |-> s.registers,
           toggles |-> AccumulateToggle(g.toggles, g.prev, s.registers),
           op_info |-> Noted(g, s.id, s.registers)]
  BY <1>5, <1>6
<1>8. GenShape(h)
  BY <1>1, <1>2, <1>3, <1>4, <1>7 DEF GenShape
<1> QED
  BY <1>7, <1>8 DEF h

\* The pairs of one more instruction.
LEMMA OneMorePair ==
  ASSUME NEW c \in Seq(Steps), NEW s \in Steps, NEW g, NEW type,
         g.prev_id = IF c = <<>> THEN kInvalidInstructionId ELSE c[Len(c)].id
  PROVE  PairFeatures(type, Append(c, s)) = PairFeatures(type, c) \cup Pair(type, g, s.id)
<1> DEFINE d == Append(c, s)
           n == Len(c) + 1
           at(x, i) == FeatureOf(type, "op_pair", x[i - 1].id * NumInstructionIDs + x[i].id)
           In(x) == {i \in KnownIn(x) : i - 1 \in KnownIn(x)}
<1>1. /\ Len(c) \in Nat /\ DOMAIN c = 1..Len(c) /\ DOMAIN d = DOMAIN c \cup {n} /\ n \notin DOMAIN c
      /\ d[n] = s /\ \A i \in DOMAIN c : d[i] = c[i]
  BY OneMore
<1>0. n - 1 = Len(c) /\ (c = <<>> => n - 1 \notin DOMAIN d)
      /\ (c # <<>> => n - 1 \in DOMAIN c /\ d[n - 1] = c[Len(c)])
      /\ \A i \in DOMAIN c : i - 1 # n
  <2> HIDE DEF d
  <2>1. c = <<>> <=> Len(c) = 0
    BY <1>1
  <2>2. n - 1 = Len(c) /\ n # 0
    BY <1>1
  <2>3. c = <<>> => Len(c) \notin DOMAIN d
    BY <1>1, <2>1
  <2>4. c # <<>> => Len(c) \in DOMAIN c
    BY <1>1, <2>1
  <2>5. \A i \in DOMAIN c : i - 1 # n
    BY <1>1
  <2> QED
    BY <1>1, <2>2, <2>3, <2>4, <2>5
<1> HIDE DEF d, n
<1>2. ASSUME NEW i \in DOMAIN c
      PROVE  (i \in In(d) <=> i \in In(c)) /\ (i \in In(c) => at(d, i) = at(c, i))
  <2>1. i - 1 \in DOMAIN d <=> i - 1 \in DOMAIN c
    BY <1>0, <1>1
  <2>2. i \in DOMAIN d
    BY <1>1
  <2>3. i - 1 \in DOMAIN c => d[i - 1] = c[i - 1]
    BY <1>1
  <2>4. i \in In(d) <=> i \in In(c)
    BY <1>1, <2>1, <2>2, <2>3 DEF KnownIn
  <2>5. i \in In(c) => i - 1 \in DOMAIN c
    BY DEF KnownIn
  <2> QED
    BY <1>1, <2>3, <2>4, <2>5
<1>3. n \in In(d) <=> (s.id # kInvalidInstructionId /\ g.prev_id # kInvalidInstructionId)
  <2>1. CASE c = <<>>
    <3>1. n \notin In(d)
      BY <1>0, <2>1 DEF KnownIn
    <3> QED
      BY <2>1, <3>1
  <2>2. CASE c # <<>>
    <3>1. n \in DOMAIN d /\ n - 1 \in DOMAIN d /\ d[n - 1].id = g.prev_id /\ d[n].id = s.id
      BY <1>0, <1>1, <2>2
    <3> QED
      BY <3>1 DEF KnownIn
  <2> QED
    BY <2>1, <2>2
<1>4. n \in In(d) => at(d, n) = FeatureOf(type, "op_pair", g.prev_id * NumInstructionIDs + s.id)
  <2> SUFFICES ASSUME n \in In(d) PROVE d[n - 1].id = g.prev_id /\ d[n] = s
    OBVIOUS
  <2>1. n - 1 \in DOMAIN d
    BY DEF KnownIn
  <2> QED
    BY <1>0, <1>1, <2>1
<1>5. In(d) \subseteq DOMAIN c \cup {n} /\ In(c) \subseteq DOMAIN c
  BY <1>1 DEF KnownIn
<1> HIDE DEF In, at
<1>6. Pair(type, g, s.id) = IF n \in In(d) THEN {at(d, n)} ELSE {}
  BY <1>3, <1>4 DEF Pair
<1>7. {at(d, i) : i \in In(d)} = {at(c, i) : i \in In(c)} \cup Pair(type, g, s.id)
  <2>1. ASSUME NEW i \in In(d) PROVE at(d, i) \in {at(c, j) : j \in In(c)} \cup Pair(type, g, s.id)
    BY <1>2, <1>5, <1>6
  <2>2. ASSUME NEW i \in In(c) PROVE at(c, i) \in {at(d, j) : j \in In(d)}
    BY <1>2, <1>5
  <2>3. Pair(type, g, s.id) \subseteq {at(d, j) : j \in In(d)}
    BY <1>6
  <2> QED
    BY <2>1, <2>2, <2>3
<1> QED
  BY <1>7 DEF PairFeatures, In, at, d

\* The generator keeps up with the run.
LEMMA KnowsMore ==
  ASSUME NEW g, GenShape(g), NEW first \in SUBSET RegBits, NEW c \in Seq(Steps), NEW s \in Steps,
         Knows(g, first, c)
  PROVE  LET h == AfterInstruction(g, s.id, s.registers)
             d == Append(c, s)
         IN  GenShape(h) /\ Knows(h, first, d)
             /\ (g.features = PairFeatures(proxy.type, c) => h.features = PairFeatures(proxy.type, d))
<1> DEFINE h == AfterInstruction(g, s.id, s.registers)
           d == Append(c, s)
           n == Len(c) + 1
           prev == At(first, c, Len(c))
           up == s.registers \ prev
           down == prev \ s.registers
<1>1. /\ GenShape(h) /\ h.features = g.features \cup Pair(proxy.type, g, s.id)
      /\ h.prev_id = s.id /\ h.initial = g.initial /\ h.prev = s.registers
      /\ h.toggles = AccumulateToggle(g.toggles, g.prev, s.registers)
      /\ h.op_info = Noted(g, s.id, s.registers)
  BY AfterInstructionIs
<1>2. /\ Len(d) = n /\ DOMAIN d = DOMAIN c \cup {n} /\ d[n] = s /\ d # <<>>
      /\ n \notin DOMAIN c
  BY OneMore
<1>3. /\ At(first, d, Len(d)) = s.registers
      /\ \A I \in SUBSET DOMAIN c :
           /\ Rises(first, d, I) = Rises(first, c, I) /\ Falls(first, d, I) = Falls(first, c, I)
           /\ Rises(first, d, I \cup {n}) = Rises(first, c, I) \cup up
           /\ Falls(first, d, I \cup {n}) = Falls(first, c, I) \cup down
  <2>1. ASSUME NEW I \in SUBSET DOMAIN c
        PROVE  /\ At(first, d, n) = s.registers
               /\ Rises(first, d, I) = Rises(first, c, I) /\ Falls(first, d, I) = Falls(first, c, I)
               /\ Rises(first, d, I \cup {n}) = Rises(first, c, I) \cup up
               /\ Falls(first, d, I \cup {n}) = Falls(first, c, I) \cup down
    <3>1. MoreRises(first, c, s, I)
      BY OneMoreRises
    <3> QED
      BY <3>1 DEF MoreRises
  <2>2. {} \in SUBSET DOMAIN c /\ Len(d) = n
    BY <1>2
  <2> HIDE DEF d, n, up, down
  <2> QED
    BY <2>1, <2>2
<1>4. \A id : /\ s.id = id => Doing(d, id) = Doing(c, id) \cup {n}
              /\ s.id # id => Doing(d, id) = Doing(c, id)
              /\ Doing(c, id) \in SUBSET DOMAIN c
  BY OneMoreDone
<1>5. /\ g.prev_id = IF c = <<>> THEN kInvalidInstructionId ELSE c[Len(c)].id
      /\ g.initial = first /\ g.prev = prev
      /\ g.toggles = [zero_one |-> Rises(first, c, DOMAIN c), one_zero |-> Falls(first, c, DOMAIN c)]
      /\ \A id \in InstructionIDs :
           /\ (g.op_info[id].count > 0) <=> (Doing(c, id) # {})
           /\ g.op_info[id].toggles = [zero_one |-> Rises(first, c, Doing(c, id)),
                                       one_zero |-> Falls(first, c, Doing(c, id))]
  BY DEF Knows
<1>6. g.op_info \in [InstructionIDs -> OpType]
  BY DEF GenShape
<1> HIDE DEF h, d, n, prev, up, down
<1>0. /\ Rises(first, d, DOMAIN d) = Rises(first, c, DOMAIN c) \cup up
      /\ Falls(first, d, DOMAIN d) = Falls(first, c, DOMAIN c) \cup down
  BY <1>2, <1>3
<1>7. h.toggles = [zero_one |-> Rises(first, d, DOMAIN d), one_zero |-> Falls(first, d, DOMAIN d)]
  <2>1. AccumulateToggle(g.toggles, prev, s.registers) =
          [zero_one |-> Rises(first, c, DOMAIN c) \cup up, one_zero |-> Falls(first, c, DOMAIN c) \cup down]
    BY <1>5 DEF AccumulateToggle, up, down
  <2> QED
    BY <1>0, <1>1, <1>5, <2>1
<1>8. ASSUME NEW id \in InstructionIDs
      PROVE  /\ (h.op_info[id].count > 0) <=> (Doing(d, id) # {})
             /\ h.op_info[id].toggles = [zero_one |-> Rises(first, d, Doing(d, id)),
                                         one_zero |-> Falls(first, d, Doing(d, id))]
  <2>1. CASE s.id = id
    <3>1. id # kInvalidInstructionId
      BY DEF InstructionIDs, kInvalidInstructionId
    <3>2. h.op_info[id] = [count |-> g.op_info[id].count + 1,
                           toggles |-> AccumulateToggle(g.op_info[id].toggles, g.prev, s.registers)]
      BY <1>1, <1>6, <2>1, <3>1 DEF Noted
    <3>3. g.op_info[id].count \in Nat
      BY <1>6 DEF OpType
    <3>4. h.op_info[id].count > 0 /\ Doing(d, id) # {}
      <4>1. h.op_info[id].count = g.op_info[id].count + 1
        BY <3>2
      <4>2. Doing(d, id) = Doing(c, id) \cup {n}
        BY <1>4, <2>1
      <4> QED
        BY <3>3, <4>1, <4>2
    <3>5. /\ Rises(first, d, Doing(d, id)) = Rises(first, c, Doing(c, id)) \cup up
          /\ Falls(first, d, Doing(d, id)) = Falls(first, c, Doing(c, id)) \cup down
      BY <1>3, <1>4, <2>1
    <3>6. AccumulateToggle(g.op_info[id].toggles, prev, s.registers) =
            [zero_one |-> Rises(first, c, Doing(c, id)) \cup up,
             one_zero |-> Falls(first, c, Doing(c, id)) \cup down]
      <4>1. g.op_info[id].toggles = [zero_one |-> Rises(first, c, Doing(c, id)),
                                     one_zero |-> Falls(first, c, Doing(c, id))]
        BY <1>5
      <4> QED
        BY <4>1 DEF AccumulateToggle, up, down
    <3>7. h.op_info[id].toggles = AccumulateToggle(g.op_info[id].toggles, prev, s.registers)
      BY <1>5, <3>2
    <3> QED
      BY <3>4, <3>5, <3>6, <3>7
  <2>2. CASE s.id # id
    <3>1. h.op_info[id] = g.op_info[id]
      BY <1>1, <1>6, <2>2 DEF Noted
    <3>2. /\ Rises(first, d, Doing(d, id)) = Rises(first, c, Doing(c, id))
          /\ Falls(first, d, Doing(d, id)) = Falls(first, c, Doing(c, id))
          /\ Doing(d, id) = Doing(c, id)
      BY <1>3, <1>4, <2>2
    <3> QED
      BY <1>5, <3>1, <3>2
  <2> QED
    BY <2>1, <2>2
<1>9. Knows(h, first, d)
  BY <1>1, <1>2, <1>3, <1>5, <1>7, <1>8 DEF Knows
<1>10. PairFeatures(proxy.type, d) = PairFeatures(proxy.type, c) \cup Pair(proxy.type, g, s.id)
  BY <1>5, OneMorePair DEF d
<1> QED
  BY <1>1, <1>9, <1>10 DEF h, d

\* Before the first instruction.
LEMMA KnowsNothing ==
  ASSUME GenShape(gen), NEW first \in SUBSET RegBits
  PROVE  LET h == BeforeExecution(gen, first)
         IN  GenShape(h) /\ Knows(h, first, <<>>) /\ h.features = gen.features
<1> DEFINE h == BeforeExecution(gen, first)
<1>1. h = [features |-> gen.features, emitted |-> gen.emitted, prev_id |-> kInvalidInstructionId,
           initial |-> first, prev |-> first, toggles |-> NoToggles, op_info |-> NoOps]
  <2> HIDE DEF h
  <2>1. h = [gen EXCEPT !.prev_id = kInvalidInstructionId, !.initial = first, !.prev = first,
                        !.toggles = NoToggles, !.op_info = NoOps]
    BY DEF BeforeExecution, h
  <2> QED
    BY <2>1 DEF GenShape
<1>2. NoToggles \in ToggleType /\ NoOps \in [InstructionIDs -> OpType]
  BY DEF NoToggles, NoOps, ToggleType, OpType
<1>3. GenShape(h)
  BY <1>1, <1>2 DEF GenShape, Ids
<1>4. \A id : Doing(<<>>, id) = {}
  BY DEF Doing
<1>5. DOMAIN <<>> = {} /\ Len(<<>>) = 0
  OBVIOUS
<1>6. Rises(first, <<>>, {}) = {} /\ Falls(first, <<>>, {}) = {}
  BY DEF Rises, Falls
<1>7. \A id \in InstructionIDs : h.op_info[id] = [count |-> 0, toggles |-> NoToggles]
  BY <1>1 DEF NoOps
<1> HIDE DEF h
<1>8. Knows(h, first, <<>>)
  <2>1. /\ h.prev_id = kInvalidInstructionId /\ h.initial = first /\ h.prev = At(first, <<>>, Len(<<>>))
    BY <1>1, <1>5 DEF At
  <2>2. h.toggles = [zero_one |-> Rises(first, <<>>, DOMAIN <<>>), one_zero |-> Falls(first, <<>>, DOMAIN <<>>)]
    BY <1>1, <1>5, <1>6 DEF NoToggles
  <2>3. ASSUME NEW id \in InstructionIDs
        PROVE  /\ (h.op_info[id].count > 0) <=> (Doing(<<>>, id) # {})
               /\ h.op_info[id].toggles = [zero_one |-> Rises(first, <<>>, Doing(<<>>, id)),
                                           one_zero |-> Falls(first, <<>>, Doing(<<>>, id))]
    <3>1. h.op_info[id].count = 0 /\ h.op_info[id].toggles = [zero_one |-> {}, one_zero |-> {}]
      BY <1>7 DEF NoToggles
    <3>2. Doing(<<>>, id) = {}
      BY <1>4
    <3>3. Rises(first, <<>>, Doing(<<>>, id)) = {} /\ Falls(first, <<>>, Doing(<<>>, id)) = {}
      BY <1>6, <3>2
    <3>4. h.op_info[id].count > 0 <=> Doing(<<>>, id) # {}
      BY <3>1, <3>2
    <3> QED
      BY <3>1, <3>3, <3>4
  <2> QED
    BY <2>1, <2>2, <2>3 DEF Knows
<1> QED
  BY <1>1, <1>3, <1>8 DEF h

\* What is emitted at the end of a run.
LEMMA AfterExecutionIs ==
  ASSUME NEW g, GenShape(g), NEW first \in SUBSET RegBits, NEW c \in Seq(Steps),
         Knows(g, first, c)
  PROVE  LET h == AfterExecution(g)
         IN  GenShape(h) /\ h.features = g.features \cup ExecFeatures(proxy.type, first, c)
<1> DEFINE Ops == {id \in InstructionIDs : g.op_info[id].count > 0}
           both(id) == BitFeatures(proxy.type, "op_toggle_zero_one", id * NumRegBits, g.op_info[id].toggles.zero_one)
                         \union BitFeatures(proxy.type, "op_toggle_one_zero", id * NumRegBits, g.op_info[id].toggles.one_zero)
           new == BitFeatures(proxy.type, "toggle_zero_one", 0, g.toggles.zero_one)
                    \union BitFeatures(proxy.type, "toggle_one_zero", 0, g.toggles.one_zero)
                    \union BitFeatures(proxy.type, "difference", 0, BitDiff(g.initial, g.prev))
                    \union {FeatureOf(proxy.type, "op", id) : id \in Ops}
                    \union (UNION {both(id) : id \in Ops})
<1>1. AfterExecution(g) = Emit(g, new)
  BY DEF AfterExecution, BitFeatures, Told, ToldOf, Feature, FeatureOf, Domain, DomainOf, Domains, DomainsOf
<1>2. Ops = NamedIn(c)
  <2>1. ASSUME NEW id \in InstructionIDs PROVE g.op_info[id].count > 0 <=> id \in NamedIn(c)
    <3>1. id # kInvalidInstructionId
      BY DEF InstructionIDs, kInvalidInstructionId
    <3>2. Doing(c, id) # {} <=> id \in NamedIn(c)
      BY <3>1 DEF Doing, NamedIn, KnownIn
    <3> QED
      BY <3>2 DEF Knows
  <2>2. NamedIn(c) \subseteq InstructionIDs
    <3> SUFFICES ASSUME NEW i \in KnownIn(c) PROVE c[i].id \in InstructionIDs
      BY DEF NamedIn
    <3>1. i \in DOMAIN c /\ c[i].id # kInvalidInstructionId
      BY DEF KnownIn
    <3>2. c[i] \in Steps
      BY <3>1
    <3> QED
      BY <3>1, <3>2 DEF Steps, Ids
  <2> QED
    BY <2>1, <2>2
<1>3. /\ g.toggles.zero_one = Rises(first, c, DOMAIN c) /\ g.toggles.one_zero = Falls(first, c, DOMAIN c)
      /\ g.initial = first /\ g.prev = At(first, c, Len(c))
  BY DEF Knows
<1>4. \A id \in Ops : both(id) = OpFeatures(proxy.type, first, c, id)
  <2> SUFFICES ASSUME NEW id \in InstructionIDs PROVE both(id) = OpFeatures(proxy.type, first, c, id)
    OBVIOUS
  <2>1. g.op_info[id].toggles = [zero_one |-> Rises(first, c, Doing(c, id)),
                                 one_zero |-> Falls(first, c, Doing(c, id))]
    BY DEF Knows
  <2>2. /\ g.op_info[id].toggles.zero_one = Rises(first, c, Doing(c, id))
        /\ g.op_info[id].toggles.one_zero = Falls(first, c, Doing(c, id))
    BY <2>1
  <2> QED
    BY <2>2 DEF OpFeatures
<1> HIDE DEF Ops, both
<1>5. {both(id) : id \in Ops} = {OpFeatures(proxy.type, first, c, id) : id \in NamedIn(c)}
  BY <1>2, <1>4
<1>6. new = ExecFeatures(proxy.type, first, c)
  BY <1>2, <1>3, <1>5 DEF ExecFeatures
<1> HIDE DEF new
<1>7. GenShape(Emit(g, new)) /\ Emit(g, new).features = g.features \cup new
  BY DEF Emit, EmitAll, GenShape
<1> QED
  BY <1>1, <1>6, <1>7

\* What is emitted of the memory.
LEMMA EmitMemoryIs ==
  ASSUME NEW g, GenShape(g), NEW memory
  PROVE  LET h == EmitMemory(g, memory)
         IN  GenShape(h) /\ h.features = g.features \cup MemFeatures(proxy.type, PagesRead, memory)
<1> DEFINE told == {pm \in PagesRead \X memory : pm[1][1] = pm[2][1]}
           new == {FeatureOf(proxy.type, "mem", pm[1][2] + pm[2][2]) : pm \in told}
           n == Cardinality(told)
<1>1. EmitMemory(g, memory) = EmitAll(g, new, n)
  BY DEF EmitMemory, Feature, FeatureOf, Domain, DomainOf, Domains, DomainsOf
<1>2. new = MemFeatures(proxy.type, PagesRead, memory)
  BY DEF MemFeatures
<1> HIDE DEF new, n
<1>3. GenShape(EmitAll(g, new, n)) /\ EmitAll(g, new, n).features = g.features \cup new
  BY DEF EmitAll, GenShape
<1> QED
  BY <1>1, <1>2, <1>3

\* What is emitted of the counts.
LEMMA EmitIs ==
  ASSUME NEW g, GenShape(g), NEW new
  PROVE  GenShape(Emit(g, new)) /\ Emit(g, new).features = g.features \cup new
  BY DEF Emit, EmitAll, GenShape

\* Nothing was counted, nothing is emitted of it.
LEMMA NothingCounted ==
  ASSUME NEW type
  PROVE  CountsFeatures(type, <<>>) = {} /\ PairFeatures(type, <<>>) = {}
<1>1. DOMAIN <<>> = {}
  OBVIOUS
<1>2. KnownIn(<<>>) = {}
  BY <1>1 DEF KnownIn
<1>3. PairFeatures(type, <<>>) = {}
  BY <1>2 DEF PairFeatures
<1> DEFINE clipped == ClippedCounts(<<>>)
           seen == {i \in DOMAIN <<>> : clipped[i] > 0}
<1>4. seen = {} /\ {p \in seen \X seen : p[2] < p[1]} = {}
  BY <1>1
<1>5. CountsFeatures(type, <<>>) = {}
  BY <1>1, <1>4 DEF CountsFeatures
<1> QED
  BY <1>3, <1>5

\* All but the last of a sequence.
LEMMA FrontAndLast ==
  ASSUME NEW S, NEW c \in Seq(S)
  PROVE  /\ \A s \in S : Front(Append(c, s)) = c
         /\ c # <<>> => /\ Front(c) \in Seq(S) /\ Len(c) \in DOMAIN c
                        /\ c = Append(Front(c), c[Len(c)])
<1>1. ASSUME NEW s \in S PROVE Front(Append(c, s)) = c
  BY DEF Front
<1>2. ASSUME c # <<>>
      PROVE  /\ Front(c) \in Seq(S) /\ Len(c) \in DOMAIN c
             /\ c = Append(Front(c), c[Len(c)])
  <2>1. Len(c) \in Nat \ {0} /\ DOMAIN c = 1..Len(c)
    BY <1>2
  <2>2. Front(c) \in Seq(S) /\ Len(Front(c)) = Len(c) - 1
        /\ \A i \in 1..(Len(c) - 1) : Front(c)[i] = c[i]
    BY <2>1 DEF Front
  <2>3. Len(c) \in DOMAIN c /\ c[Len(c)] \in S
    BY <2>1
  <2> DEFINE f == Front(c)
             x == c[Len(c)]
             d == Append(f, x)
  <2>4. d \in Seq(S) /\ Len(d) = Len(c) /\ \A i \in 1..Len(c) : d[i] = c[i]
    <3>1. f \in Seq(S) /\ x \in S /\ Len(f) = Len(c) - 1 /\ DOMAIN f = 1..(Len(c) - 1)
      BY <2>2, <2>3
    <3>2. x = c[Len(c)] /\ \A i \in 1..(Len(c) - 1) : f[i] = c[i]
      BY <2>2
    <3> HIDE DEF f, x
    <3>3. d \in Seq(S) /\ Len(d) = Len(f) + 1 /\ d[Len(f) + 1] = x /\ \A i \in DOMAIN f : d[i] = f[i]
      BY <3>1, OneMore
    <3> HIDE DEF d
    <3>4. ASSUME NEW i \in 1..Len(c) PROVE d[i] = c[i]
      BY <2>1, <3>1, <3>2, <3>3, SMTT(30)
    <3> QED
      BY <2>1, <3>1, <3>3, <3>4
  <2> HIDE DEF d
  <2>5. d = c
    BY <2>4
  <2> QED
    BY <2>2, <2>3, <2>5 DEF d, f, x
<1> QED
  BY <1>1, <1>2

\* Once the call after the last instruction is made up, the generator knows the whole run.
LEMMA FlushedKnows ==
  ASSUME EventsInv, FeaturesInv, proxy.at = "tracing"
  PROVE  LET h == after_instruction(run_state)
         IN  /\ GenShape(h) /\ Knows(h, run_state.first, run_state.path)
             /\ h.features = PairFeatures(proxy.type, run_state.path)
<1> DEFINE first == run_state.first
           path == run_state.path
<1>1. /\ run_state \in RunType /\ GenShape(gen) /\ ~run_state.called
      /\ gen.features = PairFeatures(proxy.type, Counted) /\ Knows(gen, first, Counted)
      /\ run_state.pending <=> path # <<>>
      /\ run_state.pending => path[Len(path)] = [id |-> run_state.id, registers |-> run_state.registers]
  BY DEF FeaturesInv
<1>2. path \in Seq(Steps) /\ first \in SUBSET RegBits /\ run_state.pending \in BOOLEAN
      /\ run_state.id \in Ids /\ run_state.registers \in SUBSET RegBits
  BY <1>1 DEF RunType
<1> HIDE DEF first, path
<1>3. CASE ~run_state.pending
  <2>1. Counted = path /\ after_instruction(run_state) = gen
    BY <1>1, <1>3 DEF Counted, after_instruction, path
  <2> QED
    BY <1>1, <2>1 DEF first, path
<1>4. CASE run_state.pending
  <2> DEFINE s == [id |-> run_state.id, registers |-> run_state.registers]
  <2>1. Counted = Front(path)
    BY <1>1, <1>4 DEF Counted, path
  <2>2. Counted \in Seq(Steps) /\ path = Append(Counted, s)
    BY <1>1, <1>2, <1>4, <2>1, FrontAndLast
  <2>3. s \in Steps /\ s.id = run_state.id /\ s.registers = run_state.registers
    BY <1>2 DEF Steps
  <2>4. after_instruction(run_state) = AfterInstruction(gen, s.id, s.registers)
    BY <1>4, <2>3 DEF after_instruction
  <2> HIDE DEF s
  <2>5. LET h == AfterInstruction(gen, s.id, s.registers)
            d == Append(Counted, s)
        IN  GenShape(h) /\ Knows(h, first, d)
            /\ (gen.features = PairFeatures(proxy.type, Counted) => h.features = PairFeatures(proxy.type, d))
    BY <1>1, <1>2, <2>2, <2>3, KnowsMore
  <2> QED
    BY <1>1, <2>2, <2>4, <2>5 DEF first, path
<1> QED
  BY <1>2, <1>3, <1>4

\* A new input.
LEMMA TestOneInputTells ==
  ASSUME EventsInv, FeaturesInv, TestOneInput
  PROVE  FeaturesInv'
<1>0. proxy \in ProxyType /\ GenShape(gen)
  BY DEF EventsInv, FeaturesInv
<1>1. run_state' = NoRun /\ NoRun \in RunType /\ NoRun.path = <<>> /\ ~NoRun.called /\ ~NoRun.pending
      /\ NoRun.counts = <<>> /\ NoRun.memory = {}
  BY DEF TestOneInput, NoRun, RunType, Ids
<1>2. Counted' = <<>>
  BY <1>1 DEF Counted
<1>3. run_state' \in RunType' /\ run_state'.path = <<>> /\ ~run_state'.called /\ ~run_state'.pending
      /\ run_state'.counts = <<>> /\ run_state'.memory = {}
  BY <1>1 DEF RunType
<1>4. CASE gen' = BeforeInput(gen) /\ proxy' = [proxy EXCEPT !.at = "ready", !.inputs = @ + 1]
  <2>1. proxy'.at = "ready" /\ proxy'.type = proxy.type
    BY <1>0, <1>4 DEF ProxyType
  <2>2. GenShape(gen') /\ gen'.features = {}
    BY <1>0, <1>4 DEF GenShape, BeforeInput
  <2>3. PairFeatures(proxy'.type, Counted') = {}
    BY <1>2, NothingCounted
  <2>4. GenShape(gen)'
    BY <2>2 DEF GenShape
  <2> QED
    BY <1>3, <2>1, <2>2, <2>3, <2>4 DEF FeaturesInv
<1>5. CASE gen' = gen /\ proxy' = [proxy EXCEPT !.at = "returned", !.inputs = @ + 1, !.status = "discard"]
  <2>1. proxy'.at = "returned" /\ proxy'.status = "discard"
    BY <1>0, <1>5 DEF ProxyType
  <2>4. GenShape(gen)'
    BY <1>0, <1>5 DEF GenShape
  <2> QED
    BY <1>3, <2>1, <2>4 DEF FeaturesInv
<1> QED
  BY <1>4, <1>5 DEF TestOneInput

\* Its first registers.
LEMMA StartExecutionTells ==
  ASSUME EventsInv, FeaturesInv, StartExecution
  PROVE  FeaturesInv'
<1>1. proxy \in ProxyType /\ run_state \in RunType /\ GenShape(gen) /\ proxy.at = "ready"
      /\ run_state.path = <<>> /\ ~run_state.pending /\ ~run_state.called /\ run_state.counts = <<>>
      /\ run_state.memory = {} /\ gen.features = PairFeatures(proxy.type, Counted)
  BY DEF EventsInv, FeaturesInv, StartExecution
<1>2. PICK registers \in InitialRegisters :
        /\ run_state' = [run_state EXCEPT !.registers = registers, !.first = registers]
        /\ gen' = BeforeExecution(gen, registers)
  BY DEF StartExecution
<1>3. registers \in SUBSET RegBits
  BY ProxyAssumption
<1>4. /\ run_state' \in RunType /\ run_state'.path = <<>> /\ ~run_state'.pending /\ ~run_state'.called
      /\ run_state'.counts = <<>> /\ run_state'.memory = {} /\ run_state'.first = registers
  BY <1>1, <1>2, <1>3 DEF RunType
<1>5. Counted = <<>> /\ Counted' = <<>>
  BY <1>1, <1>4 DEF Counted
<1>6. GenShape(gen') /\ Knows(gen', registers, <<>>) /\ gen'.features = gen.features
  BY <1>1, <1>2, <1>3, KnowsNothing
<1>7. proxy'.at = "tracing" /\ proxy'.type = proxy.type
  BY <1>1 DEF StartExecution, ProxyType
<1>8. run_state' \in RunType' /\ GenShape(gen)' /\ Knows(gen', run_state'.first, Counted')
  BY <1>4, <1>5, <1>6 DEF RunType, GenShape
<1> QED
  BY <1>1, <1>4, <1>5, <1>6, <1>7, <1>8 DEF FeaturesInv

\* One more instruction.
LEMMA ExecuteInstructionTells ==
  ASSUME EventsInv, FeaturesInv, ExecuteInstruction
  PROVE  FeaturesInv'
<1>1. proxy \in ProxyType /\ run_state \in RunType /\ proxy.at = "tracing"
      /\ ~run_state.called /\ run_state.counts = <<>> /\ run_state.memory = {}
  BY DEF EventsInv, FeaturesInv, ExecuteInstruction
<1>2. PICK id \in InstructionIDs \union {kInvalidInstructionId}, registers \in RegisterStates,
           fits \in BOOLEAN :
        run_state' = [run_state EXCEPT !.pending = TRUE, !.id = id, !.registers = registers,
                                       !.in_range = @ /\ fits,
                                       !.path = Append(@, [id |-> id, registers |-> registers])]
  BY DEF ExecuteInstruction
<1> DEFINE s == [id |-> id, registers |-> registers]
           path == run_state.path
<1>3. id \in Ids /\ registers \in SUBSET RegBits /\ s \in Steps /\ path \in Seq(Steps)
  BY <1>1, ProxyAssumption DEF Ids, Steps, RunType
<1>4. Append(path, s) \in Seq(Steps) /\ Append(path, s) # <<>>
      /\ Append(path, s)[Len(Append(path, s))] = s /\ Front(Append(path, s)) = path
  <2> HIDE DEF s, path
  <2> QED
    BY <1>3, OneMore, FrontAndLast
<1>5. /\ run_state'.pending /\ run_state'.path = Append(path, s) /\ run_state'.id = id
      /\ run_state'.registers = registers /\ ~run_state'.called /\ run_state'.counts = <<>>
      /\ run_state'.memory = {} /\ run_state'.first = run_state.first
  BY <1>1, <1>2 DEF RunType
<1>6. run_state' \in RunType
  <2>1. (run_state.in_range /\ fits) \in BOOLEAN
    OBVIOUS
  <2> DEFINE longer == Append(path, s)
             fit == run_state.in_range /\ fits
  <2>2. run_state' = [run_state EXCEPT !.pending = TRUE, !.id = id, !.registers = registers,
                                       !.in_range = fit, !.path = longer]
    BY <1>1, <1>2 DEF RunType
  <2>3. longer \in Seq(Steps) /\ fit \in BOOLEAN
    BY <1>4
  <2> HIDE DEF longer, fit
  <2> QED
    BY <1>1, <1>3, <2>2, <2>3 DEF RunType
<1> HIDE DEF s
<1>7. Counted' = path
  BY <1>4, <1>5 DEF Counted
<1>8. GenShape(gen') /\ Knows(gen', run_state.first, path) /\ gen'.features = PairFeatures(proxy.type, path)
  BY <1>1, FlushedKnows DEF ExecuteInstruction
<1>9. proxy'.at \in {"tracing", "crashed"} /\ proxy'.type = proxy.type
  BY <1>1 DEF ExecuteInstruction, Goto, ProxyType
<1>10. run_state' \in RunType' /\ GenShape(gen)' /\ Knows(gen', run_state'.first, Counted')
  BY <1>5, <1>6, <1>7, <1>8 DEF RunType, GenShape
<1>11. run_state'.path[Len(run_state'.path)] = [id |-> run_state'.id, registers |-> run_state'.registers]
  BY <1>4, <1>5 DEF s
<1> QED
  BY <1>4, <1>5, <1>7, <1>8, <1>9, <1>10, <1>11 DEF FeaturesInv

\* The pages that are read are those of the machine.
LEMMA SamePages ==
  ASSUME proxy'.type = proxy.type, proxy'.layout = proxy.layout
  PROVE  PagesRead' = PagesRead
  BY DEF PagesRead, FinalMemory, MemoryOf

\* The end of the run.
LEMMA EndExecutionTells ==
  ASSUME EventsInv, FeaturesInv, EndExecution
  PROVE  FeaturesInv'
<1>1. proxy \in ProxyType /\ run_state \in RunType /\ GenShape(gen) /\ proxy.at \in {"ready", "tracing"}
      /\ ~run_state.called /\ run_state.counts = <<>> /\ run_state.memory = {}
      /\ gen.features = PairFeatures(proxy.type, Counted)
  BY DEF EventsInv, FeaturesInv, EndExecution
<1>2. PICK ok \in BOOLEAN :
       LET status == IF ok /\ run_state.in_range THEN "ok" ELSE "discard"
       IN  /\ \/ /\ proxy.at = "tracing"
                 /\ \E memory \in Dirty :
                      /\ run_state' = [run_state EXCEPT !.pending = FALSE, !.memory = memory,
                                                        !.called = TRUE]
                      /\ gen' = EmitMemory(AfterExecution(Flushed(run_state)), memory)
              \/ proxy.type = "pmu" /\ UNCHANGED <<run_state, gen>>
           /\ IF proxy.type = "pmu" /\ status = "ok" THEN Goto("measure") ELSE Return(status)
  BY DEF EndExecution
<1>3. /\ proxy'.type = proxy.type /\ proxy'.layout = proxy.layout
      /\ proxy'.at \in {"measure", "returned", "crashed"}
      /\ proxy.type = "pmu" /\ proxy'.at = "returned" => proxy'.status = "discard"
  BY <1>1, <1>2 DEF Goto, Return, ProxyType
<1>4. PagesRead' = PagesRead
  BY <1>3, SamePages
<1>5. CountsFeatures(proxy.type, <<>>) = {}
  BY NothingCounted
<1>6. ASSUME NEW memory \in Dirty, proxy.at = "tracing",
             run_state' = [run_state EXCEPT !.pending = FALSE, !.memory = memory, !.called = TRUE],
             gen' = EmitMemory(AfterExecution(Flushed(run_state)), memory)
      PROVE  FeaturesInv'
  <2> DEFINE first == run_state.first
             path == run_state.path
             g == Flushed(run_state)
             h == AfterExecution(g)
  <2>1. GenShape(g) /\ Knows(g, first, path) /\ g.features = PairFeatures(proxy.type, path)
    BY <1>6, FlushedKnows DEF Flushed
  <2>2. first \in SUBSET RegBits /\ path \in Seq(Steps)
    BY <1>1 DEF RunType
  <2> HIDE DEF first, path, g
  <2>3. GenShape(h) /\ h.features = g.features \cup ExecFeatures(proxy.type, first, path)
    BY <2>1, <2>2, AfterExecutionIs
  <2>4. gen' = EmitMemory(h, memory)
    BY <1>6 DEF g
  <2> HIDE DEF h
  <2>5. GenShape(gen') /\ gen'.features = h.features \cup MemFeatures(proxy.type, PagesRead, memory)
    BY <2>3, <2>4, EmitMemoryIs
  <2>6. /\ run_state' \in RunType /\ run_state'.called /\ run_state'.counts = <<>>
        /\ run_state'.first = first /\ run_state'.path = path /\ run_state'.memory = memory
    BY <1>1, <1>6 DEF RunType, first, path
  <2>7. Counted' = path
    BY <2>6 DEF Counted
  <2>8. Complete'
    BY <1>3, <1>4, <1>5, <2>1, <2>3, <2>5, <2>6, <2>7 DEF Complete
  <2>9. run_state' \in RunType' /\ GenShape(gen)'
    BY <2>5, <2>6 DEF RunType, GenShape
  <2> QED
    BY <1>3, <2>6, <2>8, <2>9 DEF FeaturesInv
<1>7. CASE proxy.type = "pmu" /\ UNCHANGED <<run_state, gen>>
  <2>1. Counted' = Counted
    BY <1>7 DEF Counted
  <2>2. run_state' = run_state /\ gen' = gen
    BY <1>7
  <2>3. Complete'
    BY <1>1, <1>3, <1>5, <2>1, <2>2 DEF Complete
  <2>4. run_state' \in RunType' /\ GenShape(gen)'
    BY <1>1, <2>2 DEF RunType, GenShape
  <2> QED
    BY <1>1, <1>3, <1>7, <2>2, <2>3, <2>4 DEF FeaturesInv
<1> QED
  BY <1>2, <1>6, <1>7

\* The counts that were measured.
LEMMA MeasureEventsTells ==
  ASSUME EventsInv, FeaturesInv, MeasureEvents
  PROVE  FeaturesInv'
<1>1. proxy \in ProxyType /\ run_state \in RunType /\ GenShape(gen) /\ proxy.at = "measure"
      /\ proxy.type = "pmu" /\ run_state.counts = <<>> /\ Complete
      /\ (~run_state.called => run_state.memory = {}) /\ (pmu.status = "ok" => ScheduleInv)
      /\ pmu' = pmu
  BY DEF EventsInv, FeaturesInv, MeasureEvents
<1>2. ASSUME NEW means \in Means, pmu.status = "ok",
             run_state' = [run_state EXCEPT !.counts = SubSeq(means, 1, Len(pmu.events))],
             gen' = Emit(gen, CountFeatures(SubSeq(means, 1, Len(pmu.events)))), Return("ok")
      PROVE  FeaturesInv'
  <2> DEFINE counts == SubSeq(means, 1, Len(pmu.events))
  <2>1. Len(pmu.events) \in Nat /\ Len(pmu.events) <= Len(means) /\ means \in Seq(Nat)
    <3>1. pmu.library \in Libraries /\ pmu.events = SortedEvents(EventsOf)
      BY <1>1, <1>2 DEF ScheduleInv
    <3>2. EventsOf \in SUBSET Nat /\ IsFiniteSet(EventsOf)
      BY <3>1, EventsAreNames DEF EventsOf
    <3>3. Len(pmu.events) = Cardinality(EventsOf) /\ Cardinality(EventsOf) \in Nat
      BY <3>1, <3>2, SortedEventsIs, FS_CardinalityType
    <3> QED
      BY <3>1, <3>3, ProxyAssumption DEF EventsOf
  <2>2. counts \in Seq(Nat) /\ Len(counts) = Len(pmu.events)
    BY <2>1
  <2>3. CountFeatures(counts) = CountsFeatures(proxy.type, counts)
    BY DEF CountFeatures, CountsFeatures, Feature, FeatureOf, Domain, DomainOf, Domains, DomainsOf
  <2>4. gen' = Emit(gen, CountFeatures(counts)) /\ run_state' = [run_state EXCEPT !.counts = counts]
    BY <1>2
  <2> HIDE DEF counts
  <2>5. GenShape(gen') /\ gen'.features = gen.features \cup CountsFeatures(proxy.type, counts)
    BY <1>1, <2>3, <2>4, EmitIs
  <2>6. /\ run_state' \in RunType /\ run_state'.called = run_state.called
        /\ run_state'.path = run_state.path /\ run_state'.first = run_state.first
        /\ run_state'.memory = run_state.memory /\ run_state'.counts = counts
    BY <1>1, <2>2, <2>4 DEF RunType
  <2>7. proxy'.type = proxy.type /\ proxy'.layout = proxy.layout /\ proxy'.at \in {"returned", "crashed"}
    BY <1>1, <1>2 DEF Return, ProxyType
  <2>8. PagesRead' = PagesRead /\ Counted' = Counted
    BY <2>6, <2>7, SamePages DEF Counted
  <2>9. CountsFeatures(proxy.type, <<>>) = {}
    BY NothingCounted
  <2>10. Complete'
    BY <1>1, <2>5, <2>6, <2>7, <2>8, <2>9 DEF Complete
  <2>11. run_state' \in RunType' /\ GenShape(gen)'
    BY <2>5, <2>6 DEF RunType, GenShape
  <2> QED
    BY <1>1, <1>2, <2>2, <2>6, <2>7, <2>10, <2>11 DEF FeaturesInv
<1>3. CASE UNCHANGED <<run_state, gen>> /\ Return("discard")
  <2>1. proxy'.at \in {"returned", "crashed"} /\ proxy'.status = "discard"
    BY <1>1, <1>3 DEF Return, ProxyType
  <2>2. run_state' \in RunType' /\ GenShape(gen)'
    BY <1>1, <1>3 DEF RunType, GenShape
  <2> QED
    BY <1>1, <1>3, <2>1, <2>2 DEF FeaturesInv
<1> QED
  BY <1>2, <1>3 DEF MeasureEvents

\* What was emitted stays what was counted.
LEMMA FeaturesStep == EventsInv /\ FeaturesInv /\ [ProxyNext]_proxyvars => FeaturesInv'
<1> SUFFICES ASSUME EventsInv, FeaturesInv, [ProxyNext]_proxyvars PROVE FeaturesInv'
  OBVIOUS
<1>1. ASSUME run_state' = run_state, gen' = gen,
             proxy'.at \in {"schedule", "idle", "crashed", "not_initialized"}
      PROVE  FeaturesInv'
  BY <1>1 DEF FeaturesInv, RunType, GenShape
<1>2. CASE PMUEventProxyInitialize
  BY <1>1, <1>2 DEF PMUEventProxyInitialize, EventsInv, ProxyType
<1>3. CASE ScheduleGroup
  BY <1>1, <1>3 DEF ScheduleGroup
<1>4. CASE ScheduleEnds
  BY <1>1, <1>4 DEF ScheduleEnds, EventsInv, ProxyType
<1>5. CASE UNCHANGED proxyvars
  <2>1. run_state' = run_state /\ gen' = gen /\ proxy' = proxy /\ pmu' = pmu
    BY <1>5 DEF proxyvars
  <2>2. PagesRead' = PagesRead /\ Counted' = Counted
    BY <2>1, SamePages DEF Counted
  <2>3. Complete' <=> Complete
    BY <2>1, <2>2 DEF Complete
  <2> QED
    BY <2>1, <2>2, <2>3 DEF FeaturesInv, RunType, GenShape
<1> QED
  BY <1>2, <1>3, <1>4, <1>5, TestOneInputTells, StartExecutionTells, ExecuteInstructionTells,
     EndExecutionTells, MeasureEventsTells DEF ProxyNext

\* Before the start nothing is emitted.
LEMMA FeaturesInitial == ProxyInit => FeaturesInv
<1> SUFFICES ASSUME ProxyInit PROVE FeaturesInv
  OBVIOUS
<1>1. run_state = NoRun /\ NoRun \in RunType /\ NoRun.memory = {}
  BY DEF ProxyInit, NoRun, RunType, Ids
<1>2. gen = BeforeBatch /\ GenShape(BeforeBatch)
  BY DEF ProxyInit, BeforeBatch, GenShape, NoToggles, NoOps, ToggleType, OpType, Ids
<1>3. proxy.at \in {"start", "idle"}
  BY DEF ProxyInit
<1> QED
  BY <1>1, <1>2, <1>3 DEF FeaturesInv

-----------------------------------------------------------------------------
(* Proxies: what the features say *)

\* A number is read as it was put together.
LEMMA TakenApart ==
  ASSUME NEW a \in Nat, NEW n \in Nat, NEW b \in 0..(n - 1)
  PROVE  a * n + b \in Nat /\ (a * n + b) \div n = a /\ (a * n + b) % n = b
<1> DEFINE m == a * n + b
           q == m \div n
           r == m % n
<1>1. n \in Nat \ {0} /\ b \in Nat /\ b < n
  OBVIOUS
<1>2. a * n \in Nat
  OBVIOUS
<1>3. m \in Nat
  BY <1>1, <1>2
<1>4. q \in Int /\ r \in 0..(n - 1) /\ m = n * q + r
  <2> HIDE DEF m
  <2> QED
    BY <1>1, <1>3
<1> HIDE DEF q, r
<1>5. a * n - n * q = r - b
  BY <1>1, <1>2, <1>4
<1>6. a * n - n * q = (a - q) * n
  BY <1>1, <1>4
<1>7. a - q \in Int /\ r - b < n /\ r - b > -n
  BY <1>1, <1>4
<1>8. a - q < 1
  <2>1. ASSUME a - q >= 1 PROVE FALSE
    <3>1. (a - q) * n >= n
      BY <1>1, <1>7, <2>1
    <3> QED
      BY <1>1, <1>4, <1>5, <1>6, <1>7, <3>1
  <2> QED
    BY <1>7, <2>1
<1>9. a - q > -1
  <2>1. ASSUME a - q <= -1 PROVE FALSE
    <3>1. (a - q) * n <= -n
      BY <1>1, <1>7, <2>1
    <3> QED
      BY <1>1, <1>4, <1>5, <1>6, <1>7, <3>1
  <2> QED
    BY <1>7, <2>1
<1>10. a = q
  BY <1>4, <1>7, <1>8, <1>9
<1>11. n * q \in Int /\ a * n = n * q
  BY <1>1, <1>4, <1>10
<1>12. r = b
  BY <1>1, <1>2, <1>4, <1>5, <1>11
<1> QED
  BY <1>3, <1>10, <1>12 DEF q, r

\* No two domains are of the same kind.
LEMMA KindsDiffer ==
  /\ DOMAIN DomainKinds = 1..10
  /\ DomainKinds[1] = "op" /\ DomainKinds[2] = "op_pair" /\ DomainKinds[3] = "toggle_zero_one"
  /\ DomainKinds[4] = "toggle_one_zero" /\ DomainKinds[5] = "difference"
  /\ DomainKinds[6] = "op_toggle_zero_one" /\ DomainKinds[7] = "op_toggle_one_zero"
  /\ DomainKinds[8] = "mem" /\ DomainKinds[9] = "count" /\ DomainKinds[10] = "count_pair"
  /\ \A k, l \in 1..10 : DomainKinds[k] = DomainKinds[l] => k = l
<1>1. /\ DOMAIN DomainKinds = 1..10
      /\ DomainKinds[1] = "op" /\ DomainKinds[2] = "op_pair" /\ DomainKinds[3] = "toggle_zero_one"
      /\ DomainKinds[4] = "toggle_one_zero" /\ DomainKinds[5] = "difference"
      /\ DomainKinds[6] = "op_toggle_zero_one" /\ DomainKinds[7] = "op_toggle_one_zero"
      /\ DomainKinds[8] = "mem" /\ DomainKinds[9] = "count" /\ DomainKinds[10] = "count_pair"
  BY DEF DomainKinds
<1>2. \A k, l \in 1..10 : DomainKinds[k] = DomainKinds[l] => k = l
  <2> HIDE DEF DomainKinds
  <2> SUFFICES ASSUME NEW k \in 1..10, NEW l \in 1..10, DomainKinds[k] = DomainKinds[l] PROVE k = l
    OBVIOUS
  <2>1. k \in {1, 2, 3, 4, 5, 6, 7, 8, 9, 10} /\ l \in {1, 2, 3, 4, 5, 6, 7, 8, 9, 10}
    OBVIOUS
  <2> QED
    BY <1>1, <2>1
<1> QED
  BY <1>1, <1>2

\* Each domain has its number.
LEMMA DomainsDiffer ==
  ASSUME proxy.type \in {"unicorn_aarch64", "unicorn_x86_64", "pmu"}
  PROVE  /\ Domains = DomainsOf(proxy.type)
         /\ DOMAIN Domains = IF proxy.type = "pmu" THEN 1..10 ELSE 1..8
         /\ \A k \in DOMAIN Domains : Domains[k] \in Nat
         /\ \A k, l \in DOMAIN Domains : Domains[k] = Domains[l] => k = l
<1>1. CASE proxy.type = "pmu"
  <2>1. /\ DOMAIN Domains = 1..10 /\ Domains[1] = 3 /\ Domains[2] = 4 /\ Domains[3] = 5
        /\ Domains[4] = 6 /\ Domains[5] = 7 /\ Domains[6] = 8 /\ Domains[7] = 9 /\ Domains[8] = 0
        /\ Domains[9] = 1 /\ Domains[10] = 2
    BY <1>1 DEF Domains
  <2>2. \A k \in 1..10 : k \in {1, 2, 3, 4, 5, 6, 7, 8, 9, 10}
    OBVIOUS
  <2> QED
    BY <1>1, <2>1, <2>2 DEF DomainsOf, Domains
<1>2. CASE proxy.type # "pmu"
  <2>1. /\ DOMAIN Domains = 1..8 /\ Domains[1] = 0 /\ Domains[2] = 1 /\ Domains[3] = 2
        /\ Domains[4] = 3 /\ Domains[5] = 4 /\ Domains[6] = 5 /\ Domains[7] = 6 /\ Domains[8] = 7
    BY <1>2 DEF Domains
  <2>2. \A k \in 1..8 : k \in {1, 2, 3, 4, 5, 6, 7, 8}
    OBVIOUS
  <2> QED
    BY <1>2, <2>1, <2>2 DEF DomainsOf, Domains
<1> QED
  BY <1>1, <1>2

\* A feature is read as the number of its kind.
LEMMA MeaningIs ==
  ASSUME proxy.type \in {"unicorn_aarch64", "unicorn_x86_64", "pmu"}, NEW k \in DOMAIN Domains,
         NEW n \in Nat
  PROVE  LET f == FeatureOf(proxy.type, DomainKinds[k], n)
         IN  Meaning(f) = Meant(DomainKinds[k], n) /\ (Legible(f) <=> ~(proxy.type = "pmu" /\ k = 8))
<1> DEFINE kind == DomainKinds[k]
           f == FeatureOf(proxy.type, kind, n)
<1>1. /\ Domains = DomainsOf(proxy.type) /\ DOMAIN Domains \subseteq 1..10
      /\ \A l \in DOMAIN Domains : Domains[l] \in Nat
      /\ \A j, l \in DOMAIN Domains : Domains[j] = Domains[l] => j = l
      /\ (proxy.type = "pmu" => 8 \in DOMAIN Domains)
  <2>1. 1..8 \subseteq 1..10 /\ 8 \in 1..10
    OBVIOUS
  <2> QED
    BY <2>1, DomainsDiffer
<1>2. /\ \A j, l \in 1..10 : DomainKinds[j] = DomainKinds[l] => j = l
      /\ DomainKinds[8] = "mem"
  BY KindsDiffer
<1> HIDE DEF kind
<1>3. ASSUME NEW l \in DOMAIN Domains
      PROVE  (CHOOSE j \in DOMAIN Domains : DomainKinds[j] = DomainKinds[l]) = l
  <2> DEFINE c == CHOOSE j \in DOMAIN Domains : DomainKinds[j] = DomainKinds[l]
  <2>1. c \in DOMAIN Domains /\ DomainKinds[c] = DomainKinds[l]
    OBVIOUS
  <2> HIDE DEF c
  <2>2. c = l
    BY <1>1, <1>2, <2>1
  <2> QED
    BY <2>2 DEF c
<1>4. DomainOf(proxy.type, kind) = Domains[k]
  <2> DEFINE D == DomainsOf(proxy.type)
  <2>1. D = Domains /\ DomainOf(proxy.type, kind) = D[CHOOSE j \in DOMAIN D : DomainKinds[j] = kind]
    BY <1>1 DEF DomainOf
  <2> HIDE DEF D
  <2>2. DomainOf(proxy.type, kind) = Domains[CHOOSE j \in DOMAIN Domains : DomainKinds[j] = kind]
    BY <2>1
  <2>3. (CHOOSE j \in DOMAIN Domains : DomainKinds[j] = DomainKinds[k]) = k
    BY <1>3
  <2> QED
    BY <2>2, <2>3 DEF kind
<1>5. f = <<Domains[k], IF Domains[k] = 0 THEN n + 1 ELSE n>>
  BY <1>4 DEF FeatureOf
<1> HIDE DEF f
<1>6. f[1] = Domains[k] /\ f[2] = IF Domains[k] = 0 THEN n + 1 ELSE n
  BY <1>5
<1>7. (CHOOSE j \in DOMAIN Domains : Domains[j] = f[1]) = k
  <2> DEFINE c == CHOOSE j \in DOMAIN Domains : Domains[j] = f[1]
  <2>1. c \in DOMAIN Domains /\ Domains[c] = f[1]
    BY <1>6
  <2> HIDE DEF c
  <2>2. c = k
    BY <1>1, <1>6, <2>1
  <2> QED
    BY <2>2 DEF c
<1>8. (IF f[1] = 0 THEN f[2] - 1 ELSE f[2]) = n
  <2>1. n + 1 - 1 = n
    OBVIOUS
  <2> QED
    BY <1>6, <2>1
<1>9. Meaning(f) = Meant(kind, n)
  BY <1>7, <1>8 DEF Meaning, Meant, kind
<1>10. proxy.type = "pmu" => Domain("mem") = Domains[8]
  BY <1>1, <1>2, <1>3 DEF Domain
<1>11. Legible(f) <=> ~(proxy.type = "pmu" /\ k = 8)
  BY <1>1, <1>6, <1>10 DEF Legible
<1> QED
  BY <1>9, <1>11 DEF f, kind

\* What is read of one and of the other.
LEMMA TellsTogether ==
  ASSUME NEW F, NEW G, NEW H, NEW J, Tells(F, H), Tells(G, J)
  PROVE  Tells(F \cup G, H \cup J)
  BY DEF Tells

\* The pairs of instructions that were counted.
LEMMA PairsTell ==
  ASSUME proxy.type \in {"unicorn_aarch64", "unicorn_x86_64", "pmu"}, NEW c \in Seq(Steps)
  PROVE  Tells(PairFeatures(proxy.type, c), PairsIn(c))
<1> DEFINE S == {i \in KnownIn(c) : i - 1 \in KnownIn(c)}
           n(i) == c[i - 1].id * NumInstructionIDs + c[i].id
           f(i) == FeatureOf(proxy.type, "op_pair", n(i))
           h(i) == <<"op_pair", c[i - 1].id, c[i].id>>
<1>1. ASSUME NEW i \in S PROVE Legible(f(i)) /\ Meaning(f(i)) = h(i)
  <2>1. \A j \in KnownIn(c) : c[j].id \in InstructionIDs
    <3> SUFFICES ASSUME NEW j \in KnownIn(c) PROVE c[j].id \in InstructionIDs
      OBVIOUS
    <3>1. j \in DOMAIN c /\ c[j].id # kInvalidInstructionId
      BY DEF KnownIn
    <3>2. c[j] \in Steps
      BY <3>1
    <3> QED
      BY <3>1, <3>2 DEF Steps, Ids
  <2> DEFINE a == c[i - 1].id
             b == c[i].id
  <2>2. a \in InstructionIDs /\ b \in InstructionIDs
    BY <2>1
  <2> HIDE DEF a, b
  <2>3. a \in Nat /\ b \in 0..(NumInstructionIDs - 1) /\ NumInstructionIDs \in Nat
    BY <2>2, ProxyAssumption DEF InstructionIDs
  <2>4. /\ n(i) \in Nat /\ n(i) \div NumInstructionIDs = a /\ n(i) % NumInstructionIDs = b
    BY <2>3, TakenApart DEF a, b
  <2>5. Meant("op_pair", n(i)) = <<"op_pair", a, b>>
    BY <2>4 DEF Meant
  <2>6. 2 \in DOMAIN Domains /\ DomainKinds[2] = "op_pair"
    BY DomainsDiffer, KindsDiffer
  <2> HIDE DEF n
  <2>7. Meaning(FeatureOf(proxy.type, DomainKinds[2], n(i))) = Meant(DomainKinds[2], n(i))
        /\ Legible(FeatureOf(proxy.type, DomainKinds[2], n(i)))
    BY <2>4, <2>6, MeaningIs
  <2> QED
    BY <2>5, <2>6, <2>7 DEF a, b
<1> HIDE DEF S, f, h
<1>2. Tells({f(i) : i \in S}, {h(i) : i \in S})
  BY <1>1 DEF Tells
<1> QED
  BY <1>2 DEF PairFeatures, PairsIn, S, f, h, n

\* A kind of bits of registers.
LEMMA BitsTell ==
  ASSUME proxy.type \in {"unicorn_aarch64", "unicorn_x86_64", "pmu"}, NEW k \in 3..5,
         NEW bits \in SUBSET RegBits
  PROVE  Tells(BitFeatures(proxy.type, DomainKinds[k], 0, bits), BitsIn(DomainKinds[k], bits))
<1> DEFINE kind == DomainKinds[k]
           S == Told(bits)
           f(b) == FeatureOf(proxy.type, kind, 0 + b)
           h(b) == <<kind, b, 0>>
<1>1. S \subseteq Nat /\ S = ToldOf(proxy.type, bits)
  BY ProxyAssumption DEF Told, ToldOf, RegBits
<1>2. k \in DOMAIN Domains /\ k # 8
  BY DomainsDiffer
<1>3. kind \in {"toggle_zero_one", "toggle_one_zero", "difference"}
  <2>1. k = 3 \/ k = 4 \/ k = 5
    OBVIOUS
  <2> QED
    BY <2>1, KindsDiffer
<1>4. ASSUME NEW b \in S PROVE Legible(f(b)) /\ Meaning(f(b)) = h(b)
  <2>1. b \in Nat /\ 0 + b = b
    BY <1>1
  <2>2. Meaning(FeatureOf(proxy.type, DomainKinds[k], b)) = Meant(DomainKinds[k], b)
        /\ Legible(FeatureOf(proxy.type, DomainKinds[k], b))
    BY <1>2, <2>1, MeaningIs
  <2> HIDE DEF kind
  <2>3. Meant(kind, b) = <<kind, b, 0>>
    BY <1>3 DEF Meant
  <2> QED
    BY <2>1, <2>2, <2>3 DEF kind
<1> HIDE DEF S, f, h
<1>5. Tells({f(b) : b \in S}, {h(b) : b \in S})
  BY <1>4 DEF Tells
<1> QED
  BY <1>1, <1>5 DEF BitFeatures, BitsIn, S, f, h

\* The bits that instructions of one kind changed.
LEMMA OpBitsTell ==
  ASSUME proxy.type \in {"unicorn_aarch64", "unicorn_x86_64", "pmu"}, NEW k \in 6..7,
         NEW bits \in SUBSET RegBits, NEW id \in InstructionIDs
  PROVE  Tells(BitFeatures(proxy.type, DomainKinds[k], id * NumRegBits, bits),
               OpBitsOf(DomainKinds[k], id, bits))
<1> DEFINE kind == DomainKinds[k]
           S == Told(bits)
           f(b) == FeatureOf(proxy.type, kind, id * NumRegBits + b)
           h(b) == <<kind, id, b>>
<1>1. S \subseteq RegBits /\ S = ToldOf(proxy.type, bits)
  BY DEF Told, ToldOf
<1>2. k \in DOMAIN Domains /\ k # 8
  BY DomainsDiffer
<1>3. kind \in {"op_toggle_zero_one", "op_toggle_one_zero"}
  <2>1. k = 6 \/ k = 7
    OBVIOUS
  <2> QED
    BY <2>1, KindsDiffer
<1>4. ASSUME NEW b \in S PROVE Legible(f(b)) /\ Meaning(f(b)) = h(b)
  <2> DEFINE n == id * NumRegBits + b
  <2>1. n \in Nat /\ n \div NumRegBits = id /\ n % NumRegBits = b
    <3>1. id \in Nat /\ NumRegBits \in Nat /\ b \in 0..(NumRegBits - 1)
      BY <1>1, ProxyAssumption DEF RegBits, InstructionIDs
    <3> QED
      BY <3>1, TakenApart
  <2> HIDE DEF n
  <2>2. Meaning(FeatureOf(proxy.type, DomainKinds[k], n)) = Meant(DomainKinds[k], n)
        /\ Legible(FeatureOf(proxy.type, DomainKinds[k], n))
    BY <1>2, <2>1, MeaningIs
  <2> HIDE DEF kind
  <2>3. Meant(kind, n) = <<kind, id, b>>
    BY <1>3, <2>1 DEF Meant
  <2> QED
    BY <2>2, <2>3 DEF kind, n
<1> HIDE DEF S, f, h
<1>5. Tells({f(b) : b \in S}, {h(b) : b \in S})
  BY <1>4 DEF Tells
<1> QED
  BY <1>1, <1>5 DEF BitFeatures, OpBitsOf, S, f, h

\* The registers that a run changes are bits of registers.
LEMMA RisesAreBits ==
  ASSUME NEW first \in SUBSET RegBits, NEW c \in Seq(Steps)
  PROVE  /\ \A I \in SUBSET DOMAIN c : Rises(first, c, I) \in SUBSET RegBits /\ Falls(first, c, I) \in SUBSET RegBits
         /\ At(first, c, Len(c)) \in SUBSET RegBits
<1>1. Len(c) \in Nat /\ DOMAIN c = 1..Len(c) /\ \A i \in DOMAIN c : c[i].registers \in SUBSET RegBits
  <2>1. Len(c) \in Nat /\ DOMAIN c = 1..Len(c) /\ \A i \in DOMAIN c : c[i] \in Steps
    OBVIOUS
  <2> QED
    BY <2>1 DEF Steps
<1>2. ASSUME NEW i \in 0..Len(c) PROVE At(first, c, i) \in SUBSET RegBits
  <2>1. i = 0 \/ i \in DOMAIN c
    BY <1>1
  <2> QED
    BY <1>1, <2>1 DEF At
<1>3. ASSUME NEW i \in DOMAIN c
      PROVE  Rise(first, c, i) \in SUBSET RegBits /\ Fall(first, c, i) \in SUBSET RegBits
  <2>1. i \in 0..Len(c) /\ i - 1 \in 0..Len(c)
    BY <1>1
  <2> QED
    BY <1>2, <2>1 DEF Rise, Fall
<1>4. Len(c) \in 0..Len(c)
  BY <1>1
<1>5. ASSUME NEW I \in SUBSET DOMAIN c
      PROVE  Rises(first, c, I) \in SUBSET RegBits /\ Falls(first, c, I) \in SUBSET RegBits
  <2>1. \A x \in Rises(first, c, I) : \E i \in I : x \in Rise(first, c, i)
    BY DEF Rises
  <2>2. \A x \in Falls(first, c, I) : \E i \in I : x \in Fall(first, c, i)
    BY DEF Falls
  <2> QED
    BY <1>3, <2>1, <2>2
<1> QED
  BY <1>2, <1>4, <1>5

\* A run that came to its end.
LEMMA ExecTells ==
  ASSUME proxy.type \in {"unicorn_aarch64", "unicorn_x86_64", "pmu"},
         NEW first \in SUBSET RegBits, NEW c \in Seq(Steps)
  PROVE  Tells(ExecFeatures(proxy.type, first, c), RunIn(first, c))
<1>1. /\ DomainKinds[1] = "op" /\ DomainKinds[3] = "toggle_zero_one"
      /\ DomainKinds[4] = "toggle_one_zero" /\ DomainKinds[5] = "difference"
      /\ DomainKinds[6] = "op_toggle_zero_one" /\ DomainKinds[7] = "op_toggle_one_zero"
      /\ 1 \in DOMAIN Domains
  BY KindsDiffer, DomainsDiffer
<1>2. /\ \A I \in SUBSET DOMAIN c : Rises(first, c, I) \in SUBSET RegBits /\ Falls(first, c, I) \in SUBSET RegBits
      /\ At(first, c, Len(c)) \in SUBSET RegBits
  BY RisesAreBits
<1>3. BitDiff(first, At(first, c, Len(c))) \in SUBSET RegBits
  BY <1>2 DEF BitDiff
<1>4. \A k \in 3..5 : \A bits \in SUBSET RegBits :
        Tells(BitFeatures(proxy.type, DomainKinds[k], 0, bits), BitsIn(DomainKinds[k], bits))
  BY BitsTell
<1>5. NamedIn(c) \subseteq InstructionIDs
  <2> SUFFICES ASSUME NEW i \in KnownIn(c) PROVE c[i].id \in InstructionIDs
    BY DEF NamedIn
  <2>1. i \in DOMAIN c /\ c[i].id # kInvalidInstructionId
    BY DEF KnownIn
  <2>2. c[i] \in Steps
    BY <2>1
  <2> QED
    BY <2>1, <2>2 DEF Steps, Ids
<1> DEFINE f1 == BitFeatures(proxy.type, "toggle_zero_one", 0, Rises(first, c, DOMAIN c))
           f2 == BitFeatures(proxy.type, "toggle_one_zero", 0, Falls(first, c, DOMAIN c))
           f3 == BitFeatures(proxy.type, "difference", 0, BitDiff(first, At(first, c, Len(c))))
           f4 == {FeatureOf(proxy.type, "op", id) : id \in NamedIn(c)}
           f5 == UNION {OpFeatures(proxy.type, first, c, id) : id \in NamedIn(c)}
           h1 == BitsIn("toggle_zero_one", Rises(first, c, DOMAIN c))
           h2 == BitsIn("toggle_one_zero", Falls(first, c, DOMAIN c))
           h3 == BitsIn("difference", BitDiff(first, At(first, c, Len(c))))
           h4 == {<<"op", id, 0>> : id \in NamedIn(c)}
           h5 == UNION {OpBitsIn(first, c, id) : id \in NamedIn(c)}
<1>6. Tells(f1, h1) /\ Tells(f2, h2) /\ Tells(f3, h3)
  <2>1. Rises(first, c, DOMAIN c) \in SUBSET RegBits /\ Falls(first, c, DOMAIN c) \in SUBSET RegBits
    BY <1>2
  <2>2. 3 \in 3..5 /\ 4 \in 3..5 /\ 5 \in 3..5
    OBVIOUS
  <2> QED
    BY <1>1, <1>3, <1>4, <2>1, <2>2
<1>7. Tells(f4, h4)
  <2> DEFINE f(id) == FeatureOf(proxy.type, "op", id)
             h(id) == <<"op", id, 0>>
  <2>1. ASSUME NEW id \in NamedIn(c) PROVE Legible(f(id)) /\ Meaning(f(id)) = h(id)
    <3>1. id \in Nat
      BY <1>5, ProxyAssumption DEF InstructionIDs
    <3>2. Meaning(FeatureOf(proxy.type, DomainKinds[1], id)) = Meant(DomainKinds[1], id)
          /\ Legible(FeatureOf(proxy.type, DomainKinds[1], id))
      BY <1>1, <3>1, MeaningIs
    <3>3. Meant("op", id) = <<"op", id, 0>>
      BY DEF Meant
    <3> QED
      BY <1>1, <3>2, <3>3
  <2> HIDE DEF f, h
  <2>2. Tells({f(id) : id \in NamedIn(c)}, {h(id) : id \in NamedIn(c)})
    BY <2>1 DEF Tells
  <2> QED
    BY <2>2 DEF f, h
<1>8. Tells(f5, h5)
  <2>1. ASSUME NEW id \in NamedIn(c)
        PROVE  Tells(OpFeatures(proxy.type, first, c, id), OpBitsIn(first, c, id))
    <3> DEFINE up == Rises(first, c, Doing(c, id))
               down == Falls(first, c, Doing(c, id))
    <3>1. Doing(c, id) \in SUBSET DOMAIN c
      BY DEF Doing
    <3>2. up \in SUBSET RegBits /\ down \in SUBSET RegBits
      BY <1>2, <3>1
    <3>3. 6 \in 6..7 /\ 7 \in 6..7 /\ id \in InstructionIDs
      BY <1>5
    <3> HIDE DEF up, down
    <3>4. Tells(BitFeatures(proxy.type, "op_toggle_zero_one", id * NumRegBits, up),
                OpBitsOf("op_toggle_zero_one", id, up))
      BY <1>1, <3>2, <3>3, OpBitsTell
    <3>5. Tells(BitFeatures(proxy.type, "op_toggle_one_zero", id * NumRegBits, down),
                OpBitsOf("op_toggle_one_zero", id, down))
      BY <1>1, <3>2, <3>3, OpBitsTell
    <3> QED
      BY <3>4, <3>5, TellsTogether DEF OpFeatures, OpBitsIn, up, down
  <2> DEFINE F(id) == OpFeatures(proxy.type, first, c, id)
             H(id) == OpBitsIn(first, c, id)
             U == UNION {F(id) : id \in NamedIn(c)}
             V == UNION {H(id) : id \in NamedIn(c)}
  <2>2. ASSUME NEW f \in U PROVE Legible(f) /\ Meaning(f) \in V
    <3>1. PICK id \in NamedIn(c) : f \in F(id)
      OBVIOUS
    <3> QED
      BY <2>1, <3>1 DEF Tells
  <2>3. ASSUME NEW h \in V PROVE \E f \in U : Meaning(f) = h
    <3>1. PICK id \in NamedIn(c) : h \in H(id)
      OBVIOUS
    <3>2. PICK f \in F(id) : Meaning(f) = h
      BY <2>1, <3>1 DEF Tells
    <3> QED
      BY <3>2
  <2> HIDE DEF U, V
  <2>4. Tells(U, V)
    BY <2>2, <2>3 DEF Tells
  <2> QED
    BY <2>4 DEF U, V, F, H
<1> HIDE DEF f1, f2, f3, f4, f5, h1, h2, h3, h4, h5
<1>9. Tells(f1 \cup f2 \cup f3 \cup f4 \cup f5, h1 \cup h2 \cup h3 \cup h4 \cup h5)
  BY <1>6, <1>7, <1>8, TellsTogether
<1> QED
  BY <1>9 DEF ExecFeatures, RunIn, f1, f2, f3, f4, f5, h1, h2, h3, h4, h5

\* The memory that an emulator had.
LEMMA MemoryTells ==
  ASSUME proxy.type \in {"unicorn_aarch64", "unicorn_x86_64"}, NEW memory \in {{}} \cup Dirty
  PROVE  Tells(MemFeatures(proxy.type, PagesRead, memory), MemoryIn(memory))
<1>1. PICK pages : /\ PagesRead = {<<pages[i], (i - 1) * PageBits>> : i \in DOMAIN pages}
                   /\ DOMAIN pages \subseteq Nat \ {0}
  <2> DEFINE first(page, n) == [i \in 1..n |-> page + i - 1]
             one == first(proxy.layout.data1, 2)
             two == first(proxy.layout.data2, 2)
             three == <<proxy.layout.stack, proxy.layout.data1, proxy.layout.data2>>
             pages == IF proxy.type = "unicorn_x86_64" THEN one \o two ELSE three
  <2>1. PagesRead = {<<pages[i], (i - 1) * PageBits>> : i \in DOMAIN pages}
    BY DEF PagesRead, FinalMemory
  <2>2. DOMAIN (one \o two) \subseteq Nat \ {0}
    <3>1. one \in Seq({one[i] : i \in 1..2}) /\ two \in Seq({two[i] : i \in 1..2})
      OBVIOUS
    <3> DEFINE A == {one[i] : i \in 1..2} \cup {two[i] : i \in 1..2}
    <3>2. one \in Seq(A) /\ two \in Seq(A)
      BY <3>1
    <3> HIDE DEF A, one, two
    <3>3. one \o two \in Seq(A)
      BY <3>2
    <3> DEFINE both == one \o two
    <3>4. both \in Seq(A)
      BY <3>3
    <3> HIDE DEF both
    <3>5. DOMAIN both = 1..Len(both)
      BY <3>4
    <3> QED
      BY <3>5 DEF both
  <2>3. DOMAIN three \subseteq Nat \ {0}
    OBVIOUS
  <2>4. DOMAIN pages \subseteq Nat \ {0}
    BY <2>2, <2>3
  <2> HIDE DEF pages
  <2> QED
    BY <2>1, <2>4
<1>2. PageBits \in Nat
  BY ProxyAssumption DEF PageBits
<1>3. \A m \in memory : m = <<m[1], m[2]>> /\ m[2] \in 0..(PageBits - 1)
  BY ProxyAssumption
<1>4. 8 \in DOMAIN Domains /\ DomainKinds[8] = "mem"
  BY DomainsDiffer, KindsDiffer
<1>5. ASSUME NEW p \in PagesRead, NEW m \in memory, p[1] = m[1]
      PROVE  LET f == FeatureOf(proxy.type, "mem", p[2] + m[2])
             IN  Legible(f) /\ Meaning(f) = <<"mem", m[1], m[2]>>
  <2>1. PICK i \in DOMAIN pages : p = <<pages[i], (i - 1) * PageBits>>
    BY <1>1
  <2>2. i - 1 \in Nat /\ p[2] = (i - 1) * PageBits /\ p[1] = pages[i]
    BY <1>1, <2>1
  <2> DEFINE n == p[2] + m[2]
             base == (i - 1) * PageBits
             b == m[2]
  <2>3. b \in 0..(PageBits - 1)
    BY <1>3
  <2> HIDE DEF b
  <2>4. n \in Nat /\ n % PageBits = b /\ n = base + b /\ base \in Nat
    <3>1. n = (i - 1) * PageBits + b
      BY <2>2 DEF b
    <3>2. (i - 1) * PageBits + b \in Nat /\ ((i - 1) * PageBits + b) % PageBits = b
      BY <1>2, <2>2, <2>3, TakenApart
    <3> QED
      BY <1>2, <2>2, <3>1, <3>2
  <2> HIDE DEF n, base
  <2>5. n - (n % PageBits) = base
    BY <2>3, <2>4
  <2> DEFINE q == CHOOSE q \in PagesRead : q[2] = n - (n % PageBits)
  <2>6. q \in PagesRead /\ q[2] = base
    <3>1. p[2] = base
      BY <2>2 DEF base
    <3> QED
      BY <2>5, <3>1
  <2> HIDE DEF q
  <2>7. q[1] = p[1]
    <3>1. PICK j \in DOMAIN pages : q = <<pages[j], (j - 1) * PageBits>>
      BY <1>1, <2>6
    <3>2. j - 1 \in Nat /\ (j - 1) * PageBits = (i - 1) * PageBits /\ q[1] = pages[j]
      BY <1>1, <2>6, <3>1 DEF base
    <3>3. 0 \in 0..(PageBits - 1)
      BY <1>2, <2>3
    <3>4. ((j - 1) * PageBits + 0) \div PageBits = j - 1 /\ ((i - 1) * PageBits + 0) \div PageBits = i - 1
      BY <1>2, <2>2, <3>2, <3>3, TakenApart
    <3>5. j - 1 = i - 1
      BY <3>2, <3>4
    <3>6. i \in Nat /\ j \in Nat
      BY <1>1
    <3> QED
      BY <2>2, <3>2, <3>5, <3>6
  <2>8. Meant("mem", n) = <<"mem", p[1], b>>
    BY <2>4, <2>7 DEF Meant, q
  <2>9. Meaning(FeatureOf(proxy.type, DomainKinds[8], n)) = Meant(DomainKinds[8], n)
        /\ Legible(FeatureOf(proxy.type, DomainKinds[8], n))
    BY <1>4, <2>4, MeaningIs
  <2> QED
    BY <1>4, <1>5, <2>8, <2>9 DEF n, b
<1> DEFINE F == MemFeatures(proxy.type, PagesRead, memory)
           H == MemoryIn(memory)
<1>6. ASSUME NEW f \in F PROVE Legible(f) /\ Meaning(f) \in H
  <2>1. PICK pm \in PagesRead \X memory : pm[1][1] = pm[2][1] /\ f = FeatureOf(proxy.type, "mem", pm[1][2] + pm[2][2])
    BY DEF MemFeatures
  <2> DEFINE p == pm[1]
             m == pm[2]
  <2>2. p \in PagesRead /\ m \in memory /\ p[1] = m[1] /\ f = FeatureOf(proxy.type, "mem", p[2] + m[2])
    BY <2>1
  <2> HIDE DEF p, m
  <2>3. Legible(f) /\ Meaning(f) = <<"mem", m[1], m[2]>>
    BY <1>5, <2>2
  <2> QED
    BY <2>2, <2>3 DEF MemoryIn
<1>7. ASSUME NEW h \in H PROVE \E f \in F : Meaning(f) = h
  <2>1. PICK m \in memory : (\E p \in PagesRead : p[1] = m[1]) /\ h = <<"mem", m[1], m[2]>>
    BY DEF MemoryIn
  <2>2. PICK p \in PagesRead : p[1] = m[1]
    BY <2>1
  <2> DEFINE f == FeatureOf(proxy.type, "mem", p[2] + m[2])
             pm == <<p, m>>
  <2>3. pm \in PagesRead \X memory /\ pm[1] = p /\ pm[2] = m
    OBVIOUS
  <2>4. f \in F
    <3> HIDE DEF pm
    <3> QED
      BY <2>2, <2>3 DEF MemFeatures
  <2>5. Meaning(f) = h
    BY <1>5, <2>1, <2>2
  <2> QED
    BY <2>4, <2>5
<1> HIDE DEF F, H
<1>8. Tells(F, H)
  BY <1>6, <1>7 DEF Tells
<1> QED
  BY <1>8 DEF F, H

\* Of a processor's memory nothing can be told.
LEMMA MemoryIsUntold ==
  ASSUME proxy.type = "pmu", NEW pages, NEW memory, NEW f \in MemFeatures(proxy.type, pages, memory)
  PROVE  ~Legible(f)
<1>1. PICK n : f = FeatureOf(proxy.type, "mem", n)
  BY DEF MemFeatures
<1>2. DomainOf(proxy.type, "mem") = Domain("mem")
  BY DEF DomainOf, Domain, DomainsOf, Domains
<1>3. f[1] = DomainOf(proxy.type, "mem")
  BY <1>1 DEF FeatureOf
<1> QED
  BY <1>2, <1>3 DEF Legible

\* The highest bit of what fits into a byte.
LEMMA HighestBit == ASSUME NEW n \in 1..255 PROVE Log2(n) \in 0..7
<1>1. /\ 2^0 = 1 /\ 2^1 = 2 /\ 2^2 = 4 /\ 2^3 = 8 /\ 2^4 = 16 /\ 2^5 = 32 /\ 2^6 = 64 /\ 2^7 = 128
      /\ 2^8 = 256
  BY SMT
<1>2. \E k \in 0..7 : 2^k <= n /\ n < 2^(k + 1)
  <2> DEFINE P(k) == 2^k <= n /\ n < 2^(k + 1)
  <2>1. P(0) \/ P(1) \/ P(2) \/ P(3) \/ P(4) \/ P(5) \/ P(6) \/ P(7)
    <3>1. 0 + 1 = 1 /\ 1 + 1 = 2 /\ 2 + 1 = 3 /\ 3 + 1 = 4 /\ 4 + 1 = 5 /\ 5 + 1 = 6 /\ 6 + 1 = 7 /\ 7 + 1 = 8
      OBVIOUS
    <3> QED
      BY <1>1, <3>1
  <2> HIDE DEF P
  <2>2. \E k \in 0..7 : P(k)
    BY <2>1
  <2> QED
    BY <2>2 DEF P
<1> QED
  BY <1>2 DEF Log2

\* What a count is clipped and compressed to.
LEMMA CountsAreSmall ==
  ASSUME NEW counts \in Seq(Nat), NEW i \in DOMAIN counts
  PROVE  LET clipped == ClippedCounts(counts)
             compressed == Convert8BitCountToUserFeature(i, clipped[i])
         IN  /\ i - 1 \in Nat /\ i <= Len(counts) /\ clipped[i] \in 0..kMaxCount
             /\ clipped[i] > 0 => /\ compressed \in 0..(Len(counts) * 8 - 1)
                                  /\ compressed \div 8 = i - 1
<1> DEFINE c == Min({counts[i], kMaxCount})
<1>1. i \in 1..Len(counts) /\ Len(counts) \in Nat /\ counts[i] \in Nat
  OBVIOUS
<1>2. kMaxCount \in 0..255
  BY ProxyAssumption
<1>3. c \in {counts[i], kMaxCount} /\ \A y \in {counts[i], kMaxCount} : c <= y
  <2> DEFINE S == {counts[i], kMaxCount}
  <2>1. S \in SUBSET Nat /\ S # {}
    BY <1>1, <1>2
  <2> HIDE DEF S
  <2>2. Min(S) \in S /\ \A y \in S : Min(S) <= y
    BY <2>1, LeastOf
  <2> QED
    BY <2>2 DEF S
<1>4. ClippedCounts(counts)[i] = c
  BY DEF ClippedCounts
<1> HIDE DEF c
<1>5. c \in 0..kMaxCount
  BY <1>1, <1>2, <1>3
<1>6. ASSUME c > 0
      PROVE  /\ Convert8BitCountToUserFeature(i, c) \in 0..(Len(counts) * 8 - 1)
             /\ Convert8BitCountToUserFeature(i, c) \div 8 = i - 1
  <2> DEFINE k == Log2(c)
  <2>1. k \in 0..7
    <3>1. c \in 1..255
      BY <1>2, <1>5, <1>6
    <3> QED
      BY <3>1, HighestBit
  <2> HIDE DEF k
  <2>2. i - 1 \in Nat /\ k \in 0..(8 - 1)
    BY <1>1, <2>1
  <2>3. (i - 1) * 8 + k \in Nat /\ ((i - 1) * 8 + k) \div 8 = i - 1
    BY <2>2, TakenApart
  <2>4. (i - 1) * 8 + k <= Len(counts) * 8 - 1
    BY <1>1, <2>1
  <2> QED
    BY <1>1, <2>3, <2>4 DEF Convert8BitCountToUserFeature, k
<1> QED
  BY <1>1, <1>4, <1>5, <1>6

\* The counts that were measured.
LEMMA CountsTell ==
  ASSUME proxy.type = "pmu", NEW counts \in Seq(Nat), Len(counts) = Len(pmu.events)
  PROVE  Tells(CountsFeatures(proxy.type, counts), CountsIn(counts))
<1> DEFINE clipped == ClippedCounts(counts)
           d == Len(counts) * 8
           seen == {i \in DOMAIN counts : clipped[i] > 0}
           compressed(i) == Convert8BitCountToUserFeature(i, clipped[i])
           below == {p \in seen \X seen : p[2] < p[1]}
           f(i) == FeatureOf(proxy.type, "count", (i - 1) * (kMaxCount + 1) + clipped[i])
           h(i) == <<"count", i, clipped[i]>>
           g(p) == FeatureOf(proxy.type, "count_pair", compressed(p[1]) * d + compressed(p[2]))
           j(p) == <<"count_pair", compressed(p[1]), compressed(p[2])>>
<1>1. \A i \in DOMAIN counts :
        /\ i - 1 \in Nat /\ i <= Len(counts) /\ clipped[i] \in 0..kMaxCount
        /\ clipped[i] > 0 => compressed(i) \in 0..(d - 1)
  BY CountsAreSmall
<1>2. /\ 9 \in DOMAIN Domains /\ 10 \in DOMAIN Domains
      /\ DomainKinds[9] = "count" /\ DomainKinds[10] = "count_pair"
  BY DomainsDiffer, KindsDiffer
<1>3. kMaxCount \in Nat /\ d \in Nat
  <2>1. kMaxCount \in 0..255
    BY ProxyAssumption
  <2>2. Len(counts) \in Nat
    OBVIOUS
  <2> QED
    BY <2>1, <2>2
<1> HIDE DEF clipped, compressed
<1>4. ASSUME NEW i \in DOMAIN counts PROVE Legible(f(i)) /\ Meaning(f(i)) = h(i)
  <2> DEFINE n == (i - 1) * (kMaxCount + 1) + clipped[i]
             a == i - 1
             m == kMaxCount + 1
             b == clipped[i]
  <2>1. a \in Nat /\ m \in Nat /\ b \in 0..(m - 1) /\ a + 1 = i
    BY <1>1, <1>3
  <2> HIDE DEF a, m, b
  <2>2. a * m + b \in Nat /\ (a * m + b) \div m = a /\ (a * m + b) % m = b
    BY <2>1, TakenApart
  <2>3. n \in Nat /\ n \div (kMaxCount + 1) = a /\ n % (kMaxCount + 1) = b
    BY <2>2 DEF a, m, b
  <2> HIDE DEF n
  <2>4. Meaning(FeatureOf(proxy.type, DomainKinds[9], n)) = Meant(DomainKinds[9], n)
        /\ Legible(FeatureOf(proxy.type, DomainKinds[9], n))
    BY <1>2, <2>3, MeaningIs
  <2>5. Meant("count", n) = <<"count", i, b>>
    BY <2>1, <2>3 DEF Meant
  <2> QED
    BY <1>2, <2>4, <2>5 DEF n, b
<1>5. ASSUME NEW p \in below PROVE Legible(g(p)) /\ Meaning(g(p)) = j(p)
  <2> DEFINE a == compressed(p[1])
             b == compressed(p[2])
             n == a * d + b
  <2>1. p[1] \in seen /\ p[2] \in seen
    OBVIOUS
  <2>2. a \in 0..(d - 1) /\ b \in 0..(d - 1)
    BY <1>1, <2>1
  <2>3. d = Len(pmu.events) * 8
    OBVIOUS
  <2> HIDE DEF a, b
  <2> HIDE DEF d
  <2>4. n \in Nat /\ n \div d = a /\ n % d = b
    <3>1. a \in Nat /\ d \in Nat /\ b \in 0..(d - 1)
      BY <1>3, <2>2
    <3> QED
      BY <3>1, TakenApart
  <2> HIDE DEF n
  <2>5. Meaning(FeatureOf(proxy.type, DomainKinds[10], n)) = Meant(DomainKinds[10], n)
        /\ Legible(FeatureOf(proxy.type, DomainKinds[10], n))
    BY <1>2, <2>4, MeaningIs
  <2>6. Meant("count_pair", n) = <<"count_pair", a, b>>
    BY <2>3, <2>4 DEF Meant
  <2> QED
    BY <1>2, <2>5, <2>6 DEF a, b, n
<1> HIDE DEF f, g, h, j, below, seen, d
<1>6. Tells({f(i) : i \in DOMAIN counts}, {h(i) : i \in DOMAIN counts})
  BY <1>4 DEF Tells
<1>7. Tells({g(p) : p \in below}, {j(p) : p \in below})
  BY <1>5 DEF Tells
<1>8. Tells({f(i) : i \in DOMAIN counts} \cup {g(p) : p \in below},
            {h(i) : i \in DOMAIN counts} \cup {j(p) : p \in below})
  BY <1>6, <1>7, TellsTogether
<1> QED
  BY <1>8 DEF CountsFeatures, CountsIn, f, g, h, j, below, seen, d, clipped, compressed

\* What rises in some instructions rises in one of them.
LEMMA BitsOfEach ==
  ASSUME NEW kind, NEW first, NEW c, NEW I
  PROVE  /\ UNION {{<<kind, b, 0>> : b \in Told(Rise(first, c, i))} : i \in I} = BitsIn(kind, Rises(first, c, I))
         /\ UNION {{<<kind, b, 0>> : b \in Told(Fall(first, c, i))} : i \in I} = BitsIn(kind, Falls(first, c, I))
<1>1. \A b : b \in Told(Rises(first, c, I)) <=> \E i \in I : b \in Told(Rise(first, c, i))
  BY DEF Told, Rises
<1>2. \A b : b \in Told(Falls(first, c, I)) <=> \E i \in I : b \in Told(Fall(first, c, i))
  BY DEF Told, Falls
<1>3. UNION {{<<kind, b, 0>> : b \in Told(Rise(first, c, i))} : i \in I} = BitsIn(kind, Rises(first, c, I))
  <2> DEFINE U == UNION {{<<kind, b, 0>> : b \in Told(Rise(first, c, i))} : i \in I}
             V == BitsIn(kind, Rises(first, c, I))
  <2>1. ASSUME NEW x \in U PROVE x \in V
    <3>1. PICK i \in I : \E b \in Told(Rise(first, c, i)) : x = <<kind, b, 0>>
      OBVIOUS
    <3> QED
      BY <1>1, <3>1 DEF BitsIn
  <2>2. ASSUME NEW x \in V PROVE x \in U
    <3>1. PICK b \in Told(Rises(first, c, I)) : x = <<kind, b, 0>>
      BY DEF BitsIn
    <3>2. PICK i \in I : b \in Told(Rise(first, c, i))
      BY <1>1
    <3> QED
      BY <3>1, <3>2
  <2> HIDE DEF U, V
  <2>3. U = V
    BY <2>1, <2>2
  <2> QED
    BY <2>3 DEF U, V
<1>4. UNION {{<<kind, b, 0>> : b \in Told(Fall(first, c, i))} : i \in I} = BitsIn(kind, Falls(first, c, I))
  <2> DEFINE U == UNION {{<<kind, b, 0>> : b \in Told(Fall(first, c, i))} : i \in I}
             V == BitsIn(kind, Falls(first, c, I))
  <2>1. ASSUME NEW x \in U PROVE x \in V
    <3>1. PICK i \in I : \E b \in Told(Fall(first, c, i)) : x = <<kind, b, 0>>
      OBVIOUS
    <3> QED
      BY <1>2, <3>1 DEF BitsIn
  <2>2. ASSUME NEW x \in V PROVE x \in U
    <3>1. PICK b \in Told(Falls(first, c, I)) : x = <<kind, b, 0>>
      BY DEF BitsIn
    <3>2. PICK i \in I : b \in Told(Fall(first, c, i))
      BY <1>2
    <3> QED
      BY <3>1, <3>2
  <2> HIDE DEF U, V
  <2>3. U = V
    BY <2>1, <2>2
  <2> QED
    BY <2>3 DEF U, V
<1> QED
  BY <1>3, <1>4

\* So do the bits of each kind of instruction.
OpRises(first, c) ==
  UNION {{<<"op_toggle_zero_one", c[i].id, b>> : b \in Told(Rise(first, c, i))} : i \in KnownIn(c)}
OpFalls(first, c) ==
  UNION {{<<"op_toggle_one_zero", c[i].id, b>> : b \in Told(Fall(first, c, i))} : i \in KnownIn(c)}
LEMMA OpBitsOfEach ==
  ASSUME NEW first, NEW c
  PROVE  OpRises(first, c) \cup OpFalls(first, c)
         = UNION {OpBitsIn(first, c, id) : id \in NamedIn(c)}
<1> DEFINE U1 == UNION {{<<"op_toggle_zero_one", c[i].id, b>> : b \in Told(Rise(first, c, i))} : i \in KnownIn(c)}
           U2 == UNION {{<<"op_toggle_one_zero", c[i].id, b>> : b \in Told(Fall(first, c, i))} : i \in KnownIn(c)}
           V == UNION {OpBitsIn(first, c, id) : id \in NamedIn(c)}
<1>5. \A i \in KnownIn(c) : c[i].id \in NamedIn(c) /\ i \in Doing(c, c[i].id)
  BY DEF NamedIn, KnownIn, Doing
<1>6. \A id \in NamedIn(c) : \A i \in Doing(c, id) : i \in KnownIn(c) /\ c[i].id = id
  BY DEF NamedIn, KnownIn, Doing
<1>1. ASSUME NEW x \in U1 PROVE x \in V
  <2>1. PICK i \in KnownIn(c) : \E b \in Told(Rise(first, c, i)) : x = <<"op_toggle_zero_one", c[i].id, b>>
    OBVIOUS
  <2>2. PICK b \in Told(Rise(first, c, i)) : x = <<"op_toggle_zero_one", c[i].id, b>>
    BY <2>1
  <2>3. b \in Told(Rises(first, c, Doing(c, c[i].id)))
    BY <1>5 DEF Told, Rises
  <2>4. x \in OpBitsIn(first, c, c[i].id)
    BY <2>2, <2>3 DEF OpBitsIn, OpBitsOf
  <2> QED
    BY <1>5, <2>4
<1>2. ASSUME NEW x \in U2 PROVE x \in V
  <2>1. PICK i \in KnownIn(c) : \E b \in Told(Fall(first, c, i)) : x = <<"op_toggle_one_zero", c[i].id, b>>
    OBVIOUS
  <2>2. PICK b \in Told(Fall(first, c, i)) : x = <<"op_toggle_one_zero", c[i].id, b>>
    BY <2>1
  <2>3. b \in Told(Falls(first, c, Doing(c, c[i].id)))
    BY <1>5 DEF Told, Falls
  <2>4. x \in OpBitsIn(first, c, c[i].id)
    BY <2>2, <2>3 DEF OpBitsIn, OpBitsOf
  <2> QED
    BY <1>5, <2>4
<1>3. ASSUME NEW x \in V PROVE x \in U1 \cup U2
  <2>1. PICK id \in NamedIn(c) : x \in OpBitsIn(first, c, id)
    OBVIOUS
  <2>2. CASE x \in OpBitsOf("op_toggle_zero_one", id, Rises(first, c, Doing(c, id)))
    <3>1. PICK b \in Told(Rises(first, c, Doing(c, id))) : x = <<"op_toggle_zero_one", id, b>>
      BY <2>2 DEF OpBitsOf
    <3>2. PICK i \in Doing(c, id) : b \in Told(Rise(first, c, i))
      BY DEF Told, Rises
    <3>3. i \in KnownIn(c) /\ c[i].id = id
      BY <1>6
    <3>4. x \in {<<"op_toggle_zero_one", c[i].id, a>> : a \in Told(Rise(first, c, i))}
      BY <3>1, <3>2, <3>3
    <3> QED
      BY <3>3, <3>4
  <2>3. CASE x \in OpBitsOf("op_toggle_one_zero", id, Falls(first, c, Doing(c, id)))
    <3>1. PICK b \in Told(Falls(first, c, Doing(c, id))) : x = <<"op_toggle_one_zero", id, b>>
      BY <2>3 DEF OpBitsOf
    <3>2. PICK i \in Doing(c, id) : b \in Told(Fall(first, c, i))
      BY DEF Told, Falls
    <3>3. i \in KnownIn(c) /\ c[i].id = id
      BY <1>6
    <3>4. x \in {<<"op_toggle_one_zero", c[i].id, a>> : a \in Told(Fall(first, c, i))}
      BY <3>1, <3>2, <3>3
    <3> QED
      BY <3>3, <3>4
  <2> QED
    BY <2>1, <2>2, <2>3 DEF OpBitsIn
<1> HIDE DEF U1, U2, V
<1>4. U1 \cup U2 = V
  BY <1>1, <1>2, <1>3
<1> QED
  BY <1>4 DEF OpRises, OpFalls, U1, U2, V

\* Of what happened that is what a feature can tell.
LEMMA HappenedIs ==
  ASSUME run_state \in RunType
  PROVE  {h \in Happened : Kept(h)} = HappenedIn
<1> DEFINE first == run_state.first
           c == Counted
           counts == run_state.counts
           clipped == ClippedCounts(counts)
           seen == {i \in DOMAIN counts : clipped[i] > 0}
           compressed(i) == Convert8BitCountToUserFeature(i, clipped[i])
           P1 == {<<"op", c[i].id, 0>> : i \in KnownIn(c)}
           P3 == UNION {{<<"toggle_zero_one", b, 0>> : b \in Told(Rise(first, c, i))} : i \in DOMAIN c}
           P4 == UNION {{<<"toggle_one_zero", b, 0>> : b \in Told(Fall(first, c, i))} : i \in DOMAIN c}
           P5 == UNION {{<<"op_toggle_zero_one", c[i].id, b>> : b \in Told(Rise(first, c, i))} : i \in KnownIn(c)}
           P6 == UNION {{<<"op_toggle_one_zero", c[i].id, b>> : b \in Told(Fall(first, c, i))} : i \in KnownIn(c)}
           P7 == {<<"difference", b, 0>> : b \in Told(BitDiff(first, At(first, c, Len(c))))}
           P9 == {<<"count", i, clipped[i]>> : i \in DOMAIN counts}
           P10 == {<<"count_pair", compressed(i), compressed(j)>> : i \in seen, j \in seen}
           Q10 == {<<"count_pair", compressed(p[1]), compressed(p[2])>> : p \in {p \in seen \X seen : p[2] < p[1]}}
<1>1. Happened = P1 \cup PairsIn(c) \cup P3 \cup P4 \cup P5 \cup P6 \cup P7
                   \cup MemoryIn(run_state.memory) \cup P9 \cup P10
  <2> DEFINE known == {i \in DOMAIN c : c[i].id # kInvalidInstructionId}
             rises(i) == Told(State(i) \ State(i - 1))
             falls(i) == Told(State(i - 1) \ State(i))
             some == {i \in DOMAIN clipped : clipped[i] > 0}
             H1 == {<<"op", c[i].id, 0>> : i \in known}
             H2 == {<<"op_pair", c[i - 1].id, c[i].id>> : i \in {i \in known : i - 1 \in known}}
             H3 == UNION {{<<"toggle_zero_one", b, 0>> : b \in rises(i)} : i \in DOMAIN c}
             H4 == UNION {{<<"toggle_one_zero", b, 0>> : b \in falls(i)} : i \in DOMAIN c}
             H5 == UNION {{<<"op_toggle_zero_one", c[i].id, b>> : b \in rises(i)} : i \in known}
             H6 == UNION {{<<"op_toggle_one_zero", c[i].id, b>> : b \in falls(i)} : i \in known}
             H7 == {<<"difference", b, 0>> : b \in Told(BitDiff(first, State(Len(c))))}
             H8 == {<<"mem", m[1], m[2]>> : m \in {m \in run_state.memory : \E p \in PagesRead : p[1] = m[1]}}
             H9 == {<<"count", i, clipped[i]>> : i \in DOMAIN clipped}
             H10 == {<<"count_pair", compressed(i), compressed(j)>> : i \in some, j \in some}
  <2>1. Happened = H1 \cup H2 \cup H3 \cup H4 \cup H5 \cup H6 \cup H7 \cup H8 \cup H9 \cup H10
    BY DEF Happened
  <2>2. DOMAIN clipped = DOMAIN counts
    BY DEF ClippedCounts
  <2>3. H9 = P9 /\ H10 = P10
    <3> HIDE DEF clipped, compressed, counts
    <3> QED
      BY <2>2
  <2>4. H1 = P1 /\ H2 = PairsIn(c) /\ H8 = MemoryIn(run_state.memory)
    BY DEF KnownIn, PairsIn, MemoryIn
  <2>5. \A i : rises(i) = Told(Rise(first, c, i)) /\ falls(i) = Told(Fall(first, c, i))
    BY DEF State, At, Rise, Fall
  <2>6. H7 = P7
    BY DEF State, At
  <2>7. known = KnownIn(c)
    BY DEF KnownIn
  <2>8. H3 = P3 /\ H4 = P4
    <3> HIDE DEF rises, falls
    <3> QED
      BY <2>5
  <2>9. H5 = P5 /\ H6 = P6
    <3> HIDE DEF rises, falls, known
    <3> QED
      BY <2>5, <2>7
  <2> HIDE DEF P1, P3, P4, P5, P6, P7, P9, P10, H1, H2, H3, H4, H5, H6, H7, H8, H9, H10
  <2> QED
    BY <2>1, <2>3, <2>4, <2>6, <2>8, <2>9
<1>2. P3 = BitsIn("toggle_zero_one", Rises(first, c, DOMAIN c)) /\ P4 = BitsIn("toggle_one_zero", Falls(first, c, DOMAIN c))
  BY BitsOfEach
<1>3. P5 \cup P6 = UNION {OpBitsIn(first, c, id) : id \in NamedIn(c)}
  <2>1. OpRises(first, c) \cup OpFalls(first, c) = UNION {OpBitsIn(first, c, id) : id \in NamedIn(c)}
    BY OpBitsOfEach
  <2> QED
    BY <2>1 DEF OpRises, OpFalls
<1>4. P1 = {<<"op", id, 0>> : id \in NamedIn(c)}
  BY DEF NamedIn
<1>5. P7 = BitsIn("difference", BitDiff(first, At(first, c, Len(c))))
  BY DEF BitsIn
<1>6. CountsIn(counts) = P9 \cup Q10
  BY DEF CountsIn
<1>7. /\ \A h \in P1 : h[1] = "op"
      /\ \A h \in P3 : h[1] = "toggle_zero_one"
      /\ \A h \in P4 : h[1] = "toggle_one_zero"
      /\ \A h \in P5 : h[1] = "op_toggle_zero_one"
      /\ \A h \in P6 : h[1] = "op_toggle_one_zero"
      /\ \A h \in P7 : h[1] = "difference"
      /\ \A h \in P9 : h[1] = "count"
  OBVIOUS
<1>8. (\A h \in PairsIn(c) : h[1] = "op_pair") /\ \A h \in MemoryIn(run_state.memory) : h[1] = "mem"
  BY DEF PairsIn, MemoryIn
<1>9. counts \in Seq(Nat)
  BY DEF RunType
<1>10. \A i \in seen : compressed(i) \div 8 = i - 1 /\ i \in Nat
  <2> SUFFICES ASSUME NEW i \in DOMAIN counts, clipped[i] > 0 PROVE compressed(i) \div 8 = i - 1 /\ i \in Nat
    OBVIOUS
  <2>1. i \in Nat
    BY <1>9
  <2> HIDE DEF counts
  <2>2. compressed(i) \div 8 = i - 1
    BY <1>9, CountsAreSmall
  <2> QED
    BY <2>1, <2>2
<1> HIDE DEF clipped, compressed, counts
<1>11. \A h : (h \in P10 /\ Kept(h)) <=> h \in Q10
  <2>1. ASSUME NEW i \in seen, NEW j \in seen
        PROVE  Kept(<<"count_pair", compressed(i), compressed(j)>>) <=> j < i
    <3> DEFINE h == <<"count_pair", compressed(i), compressed(j)>>
    <3>1. h[1] = "count_pair" /\ h[2] = compressed(i) /\ h[3] = compressed(j)
      OBVIOUS
    <3> HIDE DEF h
    <3>2. Kept(h) <=> i - 1 > j - 1
      BY <1>10, <3>1 DEF Kept
    <3>3. i \in Nat /\ j \in Nat
      BY <1>10
    <3> QED
      BY <3>2, <3>3 DEF h
  <2> HIDE DEF seen
  <2>2. ASSUME NEW h \in P10, Kept(h) PROVE h \in Q10
    <3>1. PICK i \in seen, j \in seen : h = <<"count_pair", compressed(i), compressed(j)>>
      OBVIOUS
    <3>2. j < i
      BY <2>1, <2>2, <3>1
    <3> DEFINE p == <<i, j>>
    <3>3. p \in seen \X seen /\ p[1] = i /\ p[2] = j
      OBVIOUS
    <3> HIDE DEF p
    <3> QED
      BY <3>1, <3>2, <3>3
  <2>3. ASSUME NEW h \in Q10 PROVE h \in P10 /\ Kept(h)
    <3>1. PICK p \in seen \X seen : p[2] < p[1] /\ h = <<"count_pair", compressed(p[1]), compressed(p[2])>>
      OBVIOUS
    <3> DEFINE i == p[1]
               j == p[2]
    <3>2. i \in seen /\ j \in seen /\ j < i /\ h = <<"count_pair", compressed(i), compressed(j)>>
      BY <3>1
    <3> HIDE DEF i, j
    <3> QED
      BY <2>1, <3>2
  <2> QED
    BY <2>2, <2>3
<1>12. \A h : h[1] \notin {"mem", "count_pair"} => Kept(h)
  BY DEF Kept
<1>13. \A h : h[1] = "mem" => (Kept(h) <=> proxy.type # "pmu")
  BY DEF Kept
<1> DEFINE M == MemoryIn(run_state.memory)
           N == PairsIn(c)
<1>14. /\ \A h \in P1 \cup N \cup P3 \cup P4 \cup P5 \cup P6 \cup P7 \cup P9 : Kept(h)
       /\ \A h \in M : Kept(h) <=> proxy.type # "pmu"
  <2> HIDE DEF P1, P3, P4, P5, P6, P7, P9
  <2> QED
    BY <1>7, <1>8, <1>12, <1>13
<1>15. HappenedIn = (P1 \cup P3 \cup P4 \cup P5 \cup P6 \cup P7) \cup N \cup (P9 \cup Q10)
                      \cup (IF proxy.type = "pmu" THEN {} ELSE M)
  <2> HIDE DEF P1, P3, P4, P5, P6, P7, P9, Q10
  <2>1. RunIn(first, c) = P1 \cup P3 \cup P4 \cup P5 \cup P6 \cup P7
    BY <1>2, <1>3, <1>4, <1>5 DEF RunIn
  <2> QED
    BY <1>6, <2>1 DEF HappenedIn, counts
<1> HIDE DEF P1, P3, P4, P5, P6, P7, P9, P10, Q10, M, N
<1>16. Happened = P1 \cup N \cup P3 \cup P4 \cup P5 \cup P6 \cup P7 \cup M \cup P9 \cup P10
  BY <1>1 DEF M, N
<1>17. \A h : h \in Happened /\ Kept(h) <=> h \in HappenedIn
  BY <1>11, <1>14, <1>15, <1>16
<1> QED
  BY <1>17

\* Nothing is known of what was not counted.
LEMMA NothingCountedIn == CountsIn(<<>>) = {}
<1> DEFINE clipped == ClippedCounts(<<>>)
           seen == {i \in DOMAIN <<>> : clipped[i] > 0}
<1>1. DOMAIN <<>> = {}
  OBVIOUS
<1>2. seen = {} /\ {p \in seen \X seen : p[2] < p[1]} = {}
  BY <1>1
<1> QED
  BY <1>1, <1>2 DEF CountsIn

\* What is emitted is what there is to tell.
LEMMA FeaturesInvTells == EventsInv /\ FeaturesInv => FeaturesTellTheRun
<1> SUFFICES ASSUME EventsInv, FeaturesInv, proxy.at = "returned", proxy.status = "ok"
             PROVE  FeaturesTellTheRun
  BY DEF FeaturesTellTheRun
<1>1. /\ run_state \in RunType /\ Complete
      /\ proxy.type # "pmu" => run_state.counts = <<>>
      /\ proxy.type = "pmu" => Len(run_state.counts) = Len(pmu.events)
      /\ proxy.type \in {"unicorn_aarch64", "unicorn_x86_64", "pmu"}
  BY DEF EventsInv, FeaturesInv, ProxyType
<1>2. /\ run_state.path \in Seq(Steps) /\ run_state.first \in SUBSET RegBits
      /\ run_state.memory \in {{}} \cup Dirty /\ run_state.counts \in Seq(Nat) /\ run_state.called \in BOOLEAN
  BY <1>1 DEF RunType
<1>3. Counted \in Seq(Steps)
  BY <1>2, FrontAndLast DEF Counted
<1> DEFINE first == run_state.first
           c == Counted
           pairs == PairFeatures(proxy.type, c)
           counted == CountsFeatures(proxy.type, run_state.counts)
           run == ExecFeatures(proxy.type, first, run_state.path)
           mem == MemFeatures(proxy.type, PagesRead, run_state.memory)
           Pairs == PairsIn(c)
           Counts == CountsIn(run_state.counts)
           Run == RunIn(first, run_state.path)
           Mem == IF proxy.type = "pmu" THEN {} ELSE MemoryIn(run_state.memory)
           seen == {f \in mem : Legible(f)}
<1>4. Tells(pairs, Pairs)
  BY <1>1, <1>3, PairsTell
<1>5. Tells(counted, Counts)
  <2>1. CASE proxy.type = "pmu"
    BY <1>1, <1>2, <2>1, CountsTell
  <2>2. CASE proxy.type # "pmu"
    <3>1. counted = {} /\ Counts = {}
      BY <1>1, <2>2, NothingCounted, NothingCountedIn
    <3> QED
      BY <3>1 DEF Tells
  <2> QED
    BY <2>1, <2>2
<1>6. Tells(run, Run)
  BY <1>1, <1>2, ExecTells
<1>7. Tells(seen, Mem)
  <2>1. CASE proxy.type = "pmu"
    <3>1. seen = {} /\ Mem = {}
      BY <2>1, MemoryIsUntold
    <3> QED
      BY <3>1 DEF Tells
  <2>2. CASE proxy.type # "pmu"
    <3>1. proxy.type \in {"unicorn_aarch64", "unicorn_x86_64"}
      BY <1>1, <2>2
    <3>2. Tells(mem, MemoryIn(run_state.memory))
      BY <1>2, <3>1, MemoryTells
    <3> QED
      BY <2>2, <3>2 DEF Tells
  <2> QED
    BY <2>1, <2>2
<1>8. /\ gen.features = pairs \cup counted \cup (IF run_state.called THEN run \cup mem ELSE {})
      /\ HappenedIn = RunIn(first, c) \cup Pairs \cup Counts \cup Mem
      /\ run_state.called => c = run_state.path
  BY <1>1 DEF Complete, HappenedIn, Counted
<1> DEFINE legible == {f \in gen.features : Legible(f)}
           said == {Meaning(f) : f \in legible}
<1> HIDE DEF pairs, counted, run, mem, Pairs, Counts, Run, Mem
<1>9. ASSUME run_state.called PROVE said = HappenedIn
  <2>1. HappenedIn = Run \cup Pairs \cup Counts \cup Mem
    BY <1>8, <1>9 DEF Run
  <2>2. Tells(legible, HappenedIn)
    <3> HIDE DEF legible, seen
    <3>1. legible = run \cup pairs \cup counted \cup seen
      BY <1>4, <1>5, <1>6, <1>8, <1>9 DEF legible, seen, Tells
    <3> QED
      BY <1>4, <1>5, <1>6, <1>7, <2>1, <3>1, TellsTogether
  <2>3. said = HappenedIn
    <3> HIDE DEF legible
    <3> QED
      BY <2>2 DEF Tells
  <2> QED
    BY <2>3
<1>10. ASSUME ~run_state.called PROVE said \subseteq HappenedIn
  <2>1. gen.features = pairs \cup counted
    BY <1>8, <1>10
  <2>2. \A f \in gen.features : Meaning(f) \in Pairs \cup Counts
    BY <1>4, <1>5, <2>1 DEF Tells
  <2>3. said \subseteq HappenedIn
    BY <1>8, <2>2
  <2> QED
    BY <2>3
<1>11. {h \in Happened : Kept(h)} = HappenedIn
  BY <1>1, HappenedIs
<1>12. (IF run_state.called THEN said = {h \in Happened : Kept(h)} ELSE said \subseteq {h \in Happened : Kept(h)})
         => FeaturesTellTheRun
  BY DEF FeaturesTellTheRun, Legible, Kept
<1> HIDE DEF said
<1> QED
  BY <1>9, <1>10, <1>11, <1>12

\* The features of an input that is kept say what its own run did, all of it if the last
\* callback came, whatever the inputs before did; and each event of the processor is
\* measured in one group (pmu_event_proxy.cc, unicorn_aarch64.cc, unicorn_x86_64.cc,
\* pmu_events.cc, arch_feature_generator.h).
THEOREM ProxiesStayRight == ProxySpec => []ProxiesAreRight
<1>1. ProxyInit => ProxyInv
  BY EventsInitial, FeaturesInitial DEF ProxyInv
<1>2. ProxyInv /\ [ProxyNext]_proxyvars => ProxyInv'
  BY EventsStep, FeaturesStep DEF ProxyInv
<1>3. ProxyInv => ProxiesAreRight
  BY EventsInvTells, FeaturesInvTells DEF ProxyInv, ProxiesAreRight
<1> QED
  BY <1>1, <1>2, <1>3, PTL DEF ProxySpec

=============================================================================
