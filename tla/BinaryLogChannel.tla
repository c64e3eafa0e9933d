-------------------------- MODULE BinaryLogChannel --------------------------
(***************************************************************************)
(* orchestrator/binary_log_channel.cc on util/byte_io.cc: threads of one   *)
(* process send entries through a pipe or socket, threads of another one   *)
(* receive them.  An entry is its size, in HeaderSize bytes, and then that *)
(* many bytes.  A byte is <<n, k>>: the k-th byte of the n-th Send.        *)
(***************************************************************************)
EXTENDS Integers, Sequences

CONSTANTS Senders, Receivers,
          HeaderSize, EntrySizes,
          Capacity,   \* of the pipe
          MaxSends, MaxErrors \* bounds: Sends made, writes that fail with another error than EPIPE

ASSUME ChannelAssumption ==
  HeaderSize \in Nat \ {0} /\ EntrySizes \subseteq Nat /\ Capacity \in Nat /\ MaxSends \in Nat

VARIABLES stream,      \* bytes in the pipe
          sizes,       \* size of the entry of each Send
          sender,      \* per thread: "idle", "wait" (for lock_) or "write", and what is left
          receiver,    \* per thread: "idle", "wait", "header" or "entry", the bytes read, how many
                       \* are wanted, and the Send whose header was read, 0 for none
          write_open, read_open,
          written,     \* Sends whose last byte is in the pipe
          received,    \* what Receive returned, 0 for an entry nobody sent
          first_error, \* the first other result of a Receive
          torn,        \* an entry of which only a part was written: "no", "end", "middle"
          errors

chanvars == <<stream, sizes, sender, receiver, write_open, read_open, written, received,
              first_error, torn, errors>>

Whole(n) == [k \in 1..(HeaderSize + sizes[n]) |-> <<n, k>>]
Writing(p) == sender[p].at = "write"
Reading(r) == receiver[r].at \in {"header", "entry"}

ChanInit ==
  /\ stream = <<>> /\ sizes = <<>> /\ written = <<>> /\ received = <<>>
  /\ sender = [p \in Senders |-> [at |-> "idle", n |-> 0, left |-> <<>>]]
  /\ receiver = [r \in Receivers |-> [at |-> "idle", got |-> <<>>, want |-> 0, of |-> 0]]
  /\ write_open = TRUE /\ read_open = TRUE
  /\ first_error = "none" /\ torn = "no" /\ errors = 0

-----------------------------------------------------------------------------
(* BinaryLogProducer *)

Send(p, size) ==
  /\ sender[p].at = "idle" /\ write_open /\ Len(sizes) < MaxSends
  /\ sizes' = Append(sizes, size)
  /\ sender' = [sender EXCEPT ![p] = [@ EXCEPT !.at = "wait", !.n = Len(sizes) + 1]]
  /\ UNCHANGED <<stream, receiver, write_open, read_open, written, received, first_error,
                 torn, errors>>

\* Mutant: the lock is not taken.
SendUnlocked(p) ==
  /\ sender[p].at = "wait"
  /\ sender' = [sender EXCEPT ![p] = [@ EXCEPT !.at = "write", !.left = Whole(sender[p].n)]]
  /\ UNCHANGED <<stream, sizes, receiver, write_open, read_open, written, received, first_error,
                 torn, errors>>

SendLocked(p) ==
  /\ sender[p].at = "wait" /\ ~ \E q \in Senders : Writing(q)
  /\ sender' = [sender EXCEPT ![p] = [@ EXCEPT !.at = "write", !.left = Whole(sender[p].n)]]
  /\ torn' = IF torn = "end" THEN "middle" ELSE torn
  /\ UNCHANGED <<stream, sizes, receiver, write_open, read_open, written, received, first_error,
                 errors>>

\* write() takes some bytes; the loop of Write goes on with the rest.  A thread
\* interrupted without having written tries again.
WriteSome(p, count) ==
  /\ Writing(p) /\ read_open /\ Len(stream) + count <= Capacity
  /\ LET left == sender[p].left
         at == left[1][2]
         \* the size and the entry are two calls of Write
     IN  /\ count <= (IF at <= HeaderSize THEN HeaderSize + 1 - at ELSE Len(left))
         /\ stream' = stream \o SubSeq(left, 1, count)
         /\ IF count = Len(left)
            THEN /\ sender' = [sender EXCEPT ![p] = [@ EXCEPT !.at = "idle", !.left = <<>>]]
                 /\ written' = IF torn = "no" THEN Append(written, sender[p].n) ELSE written
            ELSE /\ sender' = [sender EXCEPT ![p].left = SubSeq(@, count + 1, Len(@))]
                 /\ UNCHANGED written
  /\ UNCHANGED <<sizes, receiver, write_open, read_open, received, first_error, torn, errors>>

\* write() fails: EPIPE when nobody reads, or another error.  What is in the pipe
\* stays there.
WriteFails(p) ==
  /\ Writing(p) /\ (read_open => errors < MaxErrors)
  /\ errors' = IF read_open THEN errors + 1 ELSE errors
  /\ torn' = IF torn = "no" /\ sender[p].left # Whole(sender[p].n) THEN "end" ELSE torn
  /\ sender' = [sender EXCEPT ![p] = [@ EXCEPT !.at = "idle", !.left = <<>>]]
  /\ UNCHANGED <<stream, sizes, receiver, write_open, read_open, written, received, first_error>>

CloseProducer ==
  /\ write_open /\ \A p \in Senders : sender[p].at = "idle"
  /\ write_open' = FALSE
  /\ UNCHANGED <<stream, sizes, sender, receiver, read_open, written, received, first_error,
                 torn, errors>>

\* The producing process is killed.
ProducerDies ==
  /\ write_open /\ write_open' = FALSE
  /\ sender' = [p \in Senders |-> [at |-> "idle", n |-> 0, left |-> <<>>]]
  /\ torn' = IF torn = "no" /\ \E p \in Senders : Writing(p) /\ sender[p].left # Whole(sender[p].n)
             THEN "end" ELSE torn
  /\ UNCHANGED <<stream, sizes, receiver, read_open, written, received, first_error, errors>>

-----------------------------------------------------------------------------
(* BinaryLogConsumer *)

\* A consumer receives until it is told that something is wrong.
Receive(r) ==
  /\ receiver[r].at = "idle" /\ read_open /\ first_error = "none"
  /\ receiver' = [receiver EXCEPT ![r].at = "wait"]
  /\ UNCHANGED <<stream, sizes, sender, write_open, read_open, written, received, first_error,
                 torn, errors>>

ReceiveLocked(r) ==
  /\ receiver[r].at = "wait" /\ ~ \E q \in Receivers : Reading(q)
  /\ receiver' = [receiver EXCEPT ![r] = [at |-> "header", got |-> <<>>, want |-> HeaderSize, of |-> 0]]
  /\ UNCHANGED <<stream, sizes, sender, write_open, read_open, written, received, first_error,
                 torn, errors>>

Wants(r) == receiver[r].want - Len(receiver[r].got)

ReadSome(r, count) ==
  /\ Reading(r) /\ count <= Wants(r) /\ count <= Len(stream)
  /\ receiver' = [receiver EXCEPT ![r].got = @ \o SubSeq(stream, 1, count)]
  /\ stream' = SubSeq(stream, count + 1, Len(stream))
  /\ UNCHANGED <<sizes, sender, write_open, read_open, written, received, first_error, torn, errors>>

\* Bytes in place of a header show any size, unless they are a header.
IsHeader(got) == \A k \in DOMAIN got : got[k] = <<got[1][1], k>>

HeaderRead(r) ==
  /\ receiver[r].at = "header" /\ Wants(r) = 0
  /\ LET got == receiver[r].got
         of == IF IsHeader(got) THEN got[1][1] ELSE 0
     IN  \E size \in (IF of = 0 THEN EntrySizes ELSE {sizes[of]}) :
           receiver' = [receiver EXCEPT ![r] =
                          [at |-> "entry", got |-> <<>>, want |-> size, of |-> of]]
  /\ UNCHANGED <<stream, sizes, sender, write_open, read_open, written, received, first_error,
                 torn, errors>>

ReceiveReturns(r, e) ==
  /\ receiver' = [receiver EXCEPT ![r].at = "idle"]
  /\ first_error' = IF first_error = "none" THEN e ELSE first_error

\* The entry was read: bytes of anything else may be an entry nobody sent.
EntryRead(r) ==
  /\ receiver[r].at = "entry" /\ Wants(r) = 0
  /\ LET n == receiver[r].of
         genuine == n # 0 /\ receiver[r].got = SubSeq(Whole(n), HeaderSize + 1, HeaderSize + sizes[n])
     IN  \/ received' = Append(received, IF genuine THEN n ELSE 0) /\ ReceiveReturns(r, "none")
         \/ ~ genuine /\ ReceiveReturns(r, "DataLoss") /\ UNCHANGED received
  /\ UNCHANGED <<stream, sizes, sender, write_open, read_open, written, torn, errors>>

\* End of file.
ReadEnds(r) ==
  /\ Reading(r) /\ Wants(r) > 0 /\ stream = <<>> /\ ~ write_open
  /\ ReceiveReturns(r, IF receiver[r].at = "entry" THEN "errno"
                ELSE IF receiver[r].got = <<>> THEN "EOC" ELSE "DataLoss")
  /\ UNCHANGED <<stream, sizes, sender, write_open, read_open, written, received, torn, errors>>

CloseConsumer ==
  /\ read_open /\ \A r \in Receivers : ~ Reading(r)
  /\ read_open' = FALSE
  /\ receiver' = [r \in Receivers |-> [at |-> "idle", got |-> <<>>, want |-> 0, of |-> 0]]
  /\ UNCHANGED <<stream, sizes, sender, write_open, written, received, first_error, torn, errors>>

-----------------------------------------------------------------------------

SenderStep(p) ==
  SendLocked(p) \/ (\E count \in 1..Capacity : WriteSome(p, count)) \/ WriteFails(p)
ReceiverStep(r) ==
  \/ Receive(r) \/ ReceiveLocked(r) \/ HeaderRead(r) \/ EntryRead(r) \/ ReadEnds(r)
  \/ \E count \in 1..Capacity : ReadSome(r, count)

ChanNext ==
  \/ \E p \in Senders : SenderStep(p) \/ \E size \in EntrySizes : Send(p, size)
  \/ \E r \in Receivers : ReceiverStep(r)
  \/ CloseProducer \/ ProducerDies \/ CloseConsumer
  \/ ~ write_open /\ ~ read_open /\ UNCHANGED chanvars

\* The threads are scheduled; the consumer receives until it is told of an end and
\* then closes its side.
ChanFairness ==
  /\ \A p \in Senders : WF_chanvars(SenderStep(p))
  /\ \A r \in Receivers : WF_chanvars(ReceiverStep(r))
  /\ WF_chanvars(first_error # "none" /\ CloseConsumer)

ChanSpec == ChanInit /\ [][ChanNext]_chanvars /\ ChanFairness

-----------------------------------------------------------------------------
(* Properties *)

Stream == INSTANCE LogStream WITH
  Entries <- 0..MaxSends, accepted <- written, delivered <- received, intact <- torn # "middle"

\* Whatever threads send, and however the pipe cuts their bytes, entries come out
\* whole, once and in the order written, up to the first one cut short by a failed
\* write after which the process went on sending.
RefinesLogStream == Stream!StreamSpec

\* The consumer is told "end of channel" exactly if nothing was cut off; a producer
\* killed or failing inside an entry shows as another error, never as an entry.
EndIsTrue ==
  first_error # "none" /\ torn # "middle"
    => received = written /\ (first_error = "EOC") = (torn = "no")

\* Entries come out as they went in, and the end is told truthfully.
ChannelIsFaithful == RefinesLogStream /\ []EndIsTrue

\* A Send returns, whether its bytes are read or the reader goes away.
SendsEnd == \A p \in Senders : sender[p].at # "idle" ~> sender[p].at = "idle"

\* A consumer that keeps receiving learns that the producer is gone.
EndIsTold == ~ write_open ~> first_error # "none" \/ ~ read_open
=============================================================================
