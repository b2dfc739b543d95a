----------------------------- MODULE RingBuffer -----------------------------
(***************************************************************************)
(* The byte ring that keeps the trailing tail of a session's PTY output.   *)
(* Nothing looks into a byte, so a byte is identified with its position in *)
(* the output: 0 is the first byte ever written.  Write holds mu while it  *)
(* loops over its argument; Snapshot and Len take mu, so they see the ring *)
(* only between two Writes.                                                *)
(***************************************************************************)
EXTENDS Integers

CONSTANTS
    capacity,  \* NewRingBuffer's argument
    MaxWrite,  \* bound: longest argument of one Write
    MaxBytes   \* bound: bytes written in one behaviour

ASSUME CapacityAssumption == capacity \in Int
ASSUME RingBoundsAssumption == MaxWrite \in Nat /\ MaxBytes \in Nat

VARIABLES
    buf,   \* buf[0..cap-1]; Unset where nothing was written yet
    pos,   \* next write position
    full,  \* the ring has wrapped
    left,  \* bytes of the running Write still to be stored, 0: mu is free
    n      \* history: bytes stored so far

ringVars == <<buf, pos, full, left, n>>

\* NewRingBuffer: a ring has at least one byte.
cap == IF capacity <= 0 THEN 1 ELSE capacity
Unset == -1

RingInit ==
    /\ buf = [i \in 0..(cap - 1) |-> Unset]
    /\ pos = 0
    /\ full = FALSE
    /\ left = 0
    /\ n = 0

\* Write(p) takes mu; k is len(p), at least 1 (an empty p changes nothing).
Write(k) ==
    /\ left = 0 /\ n + k <= MaxBytes
    /\ left' = k
    /\ UNCHANGED <<buf, pos, full, n>>

\* Mutant: the wrap is noticed one byte late.
BadWriteByte ==
    /\ left > 0
    /\ buf' = [buf EXCEPT ![pos] = n]
    /\ pos' = IF pos + 1 > cap THEN 0 ELSE pos + 1
    /\ full' = (full \/ pos + 1 > cap)
    /\ left' = left - 1
    /\ n' = n + 1

\* One turn of Write's loop.
WriteByte ==
    /\ left > 0
    /\ buf' = [buf EXCEPT ![pos] = n]
    /\ pos' = IF pos + 1 >= cap THEN 0 ELSE pos + 1
    /\ full' = (full \/ pos + 1 >= cap)
    /\ left' = left - 1
    /\ n' = n + 1

RingNext == WriteByte \/ \E k \in 1..MaxWrite : Write(k)
RingSpec == RingInit /\ [][RingNext]_ringVars

-----------------------------------------------------------------------------
Length == IF full THEN cap ELSE pos

\* Mutant: a wrapped ring is copied from its start, not from pos.
BadSnapshot == [i \in 0..(Length - 1) |-> buf[i]]

\* Snapshot: buf[:pos], or buf[pos:] followed by buf[:pos].
Snapshot ==
    IF ~full THEN [i \in 0..(pos - 1) |-> buf[i]]
    ELSE [i \in 0..(cap - 1) |->
            IF i < cap - pos THEN buf[pos + i] ELSE buf[i - (cap - pos)]]

\* The reference: the last min(n, cap) bytes written, oldest first.
Retained == IF n < cap THEN n ELSE cap
TailOfOutput == [i \in 0..(Retained - 1) |-> n - Retained + i]

-----------------------------------------------------------------------------
\* Every variable has its type; pos is an index of buf.
RingTypeOK ==
    /\ buf \in [0..(cap - 1) -> Int]
    /\ pos \in 0..(cap - 1)
    /\ full \in BOOLEAN
    /\ left \in 0..MaxWrite
    /\ n \in Nat

(***************************************************************************)
(* Snapshot returns the newest bytes, all that fit, in the order they were *)
(* written ("in chronological order, oldest byte first"), however Writes   *)
(* of different lengths wrap around the end; Len is its length.            *)
(***************************************************************************)
SnapshotIsTail == Snapshot = TailOfOutput /\ Length = Retained
=============================================================================
