---------------------------- MODULE ReplayBuffer ----------------------------
(***************************************************************************)
(* The replay buffer of a v3 connection as the slice it is: frames whose   *)
(* first head elements have been acknowledged and set to nil, the bytes in *)
(* use, and the last number acknowledged.  An operator returns the buffer  *)
(* after a call; the module that owns a buffer keeps it in a variable.     *)
(*                                                                         *)
(* A frame is its sequence number and its size, header included.           *)
(*                                                                         *)
(* Operators marked faulty are used by no definition here: each is a       *)
(* plausible bug in the operator that follows it.                          *)
(***************************************************************************)
EXTENDS Naturals, Sequences

Record(seq, size) == [seq |-> seq, size |-> size]   \* frameRecord
Nil == Record(0, 0)

(* newReplayBuffer *)
NewReplayBuffer(maxBytes) ==
    [frames |-> <<>>, head |-> 0, usedBytes |-> 0, lastAcked |-> 0, maxBytes |-> maxBytes]

(* frames[head:] *)
Kept(b) == SubSeq(b.frames, b.head + 1, Len(b.frames))

Bytes(fs) ==
    LET sum[n \in 0..Len(fs)] == IF n = 0 THEN 0 ELSE sum[n - 1] + fs[n].size
    IN  sum[Len(fs)]

-----------------------------------------------------------------------------
(* stage: a frame that does not fit is held if it would fit alone, and is  *)
(* refused otherwise; a number that is not a new one is refused.           *)

Fits(b, size) == b.maxBytes > 0 => b.usedBytes + size <= b.maxBytes

TooLarge(b, size) == ~Fits(b, size) /\ size > b.maxBytes

NewNumber(b, seq) ==
    /\ seq > b.lastAcked
    /\ Len(b.frames) > b.head => seq > b.frames[Len(b.frames)].seq

Staged(b, seq, size) ==
    [b EXCEPT !.frames = Append(@, Record(seq, size)), !.usedBytes = @ + size]

-----------------------------------------------------------------------------
(* ack: the acknowledged frames are at the front of the ones kept.         *)

(* head after the loop that drops them. *)
DroppedTo(b, lastSeq) ==
    CHOOSE h \in b.head..Len(b.frames) :
       /\ \A i \in (b.head + 1)..h : b.frames[i].seq <= lastSeq
       /\ h < Len(b.frames) => b.frames[h + 1].seq > lastSeq

(* The slice with h dead elements: emptied when nothing is kept, compacted *)
(* when the dead part is the larger one, else with nil in the dead part.   *)
CompactLate(fs, h) ==   \* faulty
    IF h = Len(fs) THEN [frames |-> <<>>, head |-> 0]
    ELSE IF h > Len(fs) \div 2 THEN [frames |-> SubSeq(fs, h, Len(fs)), head |-> 0]
    ELSE [frames |-> [i \in DOMAIN fs |-> IF i <= h THEN Nil ELSE fs[i]], head |-> h]
Compact(fs, h) ==
    IF h = Len(fs) THEN [frames |-> <<>>, head |-> 0]
    ELSE IF h > Len(fs) \div 2 THEN [frames |-> SubSeq(fs, h + 1, Len(fs)), head |-> 0]
    ELSE [frames |-> [i \in DOMAIN fs |-> IF i <= h THEN Nil ELSE fs[i]], head |-> h]

Acked(b, lastSeq) ==
    IF lastSeq <= b.lastAcked THEN b
    ELSE LET h == DroppedTo(b, lastSeq)
             c == Compact(b.frames, h)
         IN  [b EXCEPT !.lastAcked = lastSeq, !.frames = c.frames, !.head = c.head,
                       !.usedBytes = @ - Bytes(SubSeq(b.frames, b.head + 1, h))]

-----------------------------------------------------------------------------
(* snapshotFrom: the search finds the first frame after lastSeq, the       *)
(* frames being in order.                                                  *)
SnapshotFrom(b, lastSeq) ==
    LET kept == Kept(b)
        start == CHOOSE n \in 0..Len(kept) :
                    /\ n < Len(kept) => kept[n + 1].seq > lastSeq
                    /\ n > 0 => kept[n].seq <= lastSeq
    IN  SubSeq(kept, start + 1, Len(kept))

-----------------------------------------------------------------------------
(* usedBytes is the size of the frames kept, and within the limit. *)
BytesAreExact(b) ==
    /\ b.usedBytes = Bytes(Kept(b))
    /\ b.maxBytes > 0 => b.usedBytes <= b.maxBytes

(* The frames kept are those numbered from the one after lastAcked up to   *)
(* last, nil is in the dead part only, and the dead part is no larger than *)
(* the other.                                                              *)
KeepsUpTo(b, last) ==
    /\ Len(Kept(b)) = last - b.lastAcked
    /\ \A i \in DOMAIN Kept(b) : Kept(b)[i].seq = b.lastAcked + i /\ Kept(b)[i].size > 0
    /\ \A i \in 1..b.head : b.frames[i] = Nil
    /\ 2 * b.head <= Len(b.frames)

(* snapshotFrom returns the frames kept that come after n, none of them    *)
(* left out: what a resume from n needs.                                   *)
SnapshotsAreExact(b, last) ==
    \A n \in 0..last : \E k \in 0..Len(Kept(b)) :
       /\ \A i \in DOMAIN Kept(b) : Kept(b)[i].seq > n <=> i > k
       /\ SnapshotFrom(b, n) = SubSeq(Kept(b), k + 1, Len(Kept(b)))
=============================================================================
