------------------------- MODULE PtySession_proofs -------------------------
(***************************************************************************)
(* No subscriber of a PTY session misses a chunk between its snapshot and  *)
(* its live stream, and the tail of the output survives the end of the     *)
(* session, for any number of subscribers and chunks.  The ring itself     *)
(* returns the tail of the output, for every capacity.                     *)
(***************************************************************************)
EXTENDS PtySession, RingBuffer, TLAPS

\* The chunk in hand (number read) still has to reach subscriber s.
Pending(s) ==
    \/ reader.pc \in {"ring", "fan"}
    \/ reader.pc = "send" /\ s \in reader.todo

\* Every chunk after the snapshot was offered, but for the one in hand.
Covered(s) ==
    \A k \in (snap[s] + 1)..read : k \in offered[s] \/ (k = read /\ Pending(s))

Counts ==
    /\ read <= made
    /\ reader.pc \in {"ring", "fan", "send"} => read >= 1
    /\ reader.pc = "ring" => read = ring + 1
    /\ reader.pc # "ring" => read = ring

Drained == child # "running" /\ ~held /\ read = made

Ends ==
    /\ timedOut => closed
    /\ closed /\ ~timedOut => reader.pc = "done"
    /\ reader.pc = "done" /\ ~timedOut => Drained

IInv == TypeOK /\ Counts /\ Ends /\ \A s \in subscribers : Covered(s)

\* The initial state satisfies the invariant.
LEMMA InitIInv == Init => IInv
<1> SUFFICES ASSUME Init PROVE IInv
    OBVIOUS
<1> USE BoundsAssumption DEF Init
<1>1. TypeOK
    <2>1. held \in BOOLEAN /\ closed \in BOOLEAN /\ timedOut \in BOOLEAN
        BY Zenon
    <2>2. ch \in [Subs -> Seq(1..MaxChunks)] /\ \A s \in Subs : Len(ch[s]) <= Depth
        OBVIOUS
    <2> QED
        BY <2>1, <2>2 DEF TypeOK
<1>2. Counts /\ Ends /\ subscribers = {}
    BY DEF Counts, Ends
<1> QED
    BY <1>1, <1>2 DEF IInv

\* Every step keeps the types.
LEMMA TypeStep == TypeOK /\ Counts /\ [Next]_vars => TypeOK'
<1> SUFFICES ASSUME TypeOK, Counts, [Next]_vars PROVE TypeOK'
    OBVIOUS
<1> USE BoundsAssumption DEF TypeOK, readVars, subVars, endVars
<1>1. CASE ChildWrite
    BY <1>1 DEF ChildWrite
<1>2. CASE ChildExit
    BY <1>2 DEF ChildExit, Exits
<1>3. CASE ReleaseSlave
    BY <1>3 DEF ReleaseSlave
<1>4. CASE Read
    <2> USE <1>4 DEF Read
    <2>1. read' \in 0..MaxChunks
        OBVIOUS
    <2>2. reader' \in [pc : {"read", "ring", "fan", "send", "done"}, todo : SUBSET Subs]
        OBVIOUS
    <2> QED
        BY <2>1, <2>2
<1>5. CASE ReadFails
    BY <1>5 DEF ReadFails
<1>6. CASE RingWrite
    BY <1>6 DEF RingWrite
<1>7. CASE FanCopy
    BY <1>7 DEF FanCopy
<1>8. CASE FanEnd
    BY <1>8 DEF FanEnd
<1>9. ASSUME NEW s \in Subs, FanSend(s) PROVE TypeOK'
    <2> USE <1>9 DEF FanSend, Send
    <2>1. read \in 1..MaxChunks
        BY DEF Counts
    <2>2. reader' \in [pc : {"read", "ring", "fan", "send", "done"}, todo : SUBSET Subs]
        OBVIOUS
    <2>3. offered' \in [Subs -> SUBSET (1..MaxChunks)]
        BY <2>1
    <2>4. Len(ch[s]) < Depth => /\ Append(ch[s], read) \in Seq(1..MaxChunks)
                                /\ Len(Append(ch[s], read)) <= Depth
        BY <2>1
    <2>5. ch' \in [Subs -> Seq(1..MaxChunks)] /\ \A t \in Subs : Len(ch'[t]) <= Depth
        BY <2>4
    <2> QED
        BY <2>2, <2>3, <2>5
<1>10. CASE WaitReturns
    BY <1>10 DEF WaitReturns
<1>11. CASE WaitDrained
    BY <1>11 DEF WaitDrained, Finish
<1>12. CASE WaitTimeout
    BY <1>12 DEF WaitTimeout, Finish
<1>13. CASE CloseCall
    BY <1>13 DEF CloseCall
<1>14. CASE CloseKill
    BY <1>14 DEF CloseKill, Exits
<1>15. CASE CloseReturn
    BY <1>15 DEF CloseReturn
<1>16. ASSUME NEW s \in Subs, Subscribe(s) PROVE TypeOK'
    BY <1>16 DEF Subscribe
<1>17. ASSUME NEW s \in Subs, SubscribeRefused(s) PROVE TypeOK'
    BY <1>17 DEF SubscribeRefused
<1>18. ASSUME NEW s \in Subs, Receive(s) PROVE TypeOK'
    BY <1>18 DEF Receive
<1>19. ASSUME NEW s \in Subs, SeeDone(s) PROVE TypeOK'
    BY <1>19 DEF SeeDone
<1>20. ASSUME NEW s \in Subs, Detach(s) PROVE TypeOK'
    BY <1>20 DEF Detach
<1>21. ASSUME NEW s \in Subs, Unsubscribe(s) PROVE TypeOK'
    BY <1>21 DEF Unsubscribe
<1>22. CASE UNCHANGED vars
    BY <1>22 DEF vars
<1> QED
    BY <1>1, <1>2, <1>3, <1>4, <1>5, <1>6, <1>7, <1>8, <1>9, <1>10, <1>11, <1>12,
       <1>13, <1>14, <1>15, <1>16, <1>17, <1>18, <1>19, <1>20, <1>21, <1>22
    DEF Next, ReadLoop, WaitLoop, Closing, Winding

\* Every step keeps the invariant: one step per action, and under it one per
\* conjunct that the action disturbs.
LEMMA NextIInv == IInv /\ [Next]_vars => IInv'
<1> SUFFICES ASSUME IInv, [Next]_vars PROVE IInv'
    OBVIOUS
<1>0. TypeOK'
    BY TypeStep DEF IInv
<1>a. ASSUME UNCHANGED <<read, reader, subscribers, snap, offered>>
      PROVE  (\A s \in subscribers : Covered(s))'
    BY <1>a DEF IInv, Covered, Pending
<1>b. ASSUME UNCHANGED readVars PROVE Counts'
    BY <1>b DEF IInv, Counts, readVars
<1> USE BoundsAssumption DEF TypeOK, IInv, readVars, subVars, endVars
<1>1. CASE ChildWrite
    <2>1. Counts'
        BY <1>1 DEF ChildWrite, Counts
    <2>2. Ends'
        BY <1>1 DEF ChildWrite, Ends, Drained
    <2> QED
        BY <1>0, <1>1, <1>a, <2>1, <2>2 DEF ChildWrite
<1>2. CASE Exits
    <2>1. Ends'
        BY <1>2 DEF Exits, Ends, Drained
    <2> QED
        BY <1>0, <1>2, <1>a, <1>b, <2>1 DEF Exits
<1>3. CASE ReleaseSlave
    <2>1. Ends'
        BY <1>3 DEF ReleaseSlave, Ends, Drained
    <2> QED
        BY <1>0, <1>3, <1>a, <1>b, <2>1 DEF ReleaseSlave
<1>4. CASE Read
    <2> USE <1>4 DEF Read
    <2>1. reader'.pc = "ring" /\ read' = ring' + 1 /\ read' <= made'
        BY DEF Counts
    <2>2. Ends'
        BY <2>1 DEF Ends
    <2>3. ASSUME NEW s \in subscribers' PROVE Covered(s)'
        <3>1. \A k \in (snap[s] + 1)..read : k \in offered[s]
            BY DEF Covered, Pending
        <3> QED
            BY <2>1, <3>1 DEF Covered, Pending
    <2>4. Counts'
        BY <2>1 DEF Counts
    <2> QED
        BY <1>0, <2>2, <2>3, <2>4
<1>5. CASE ReadFails
    <2> USE <1>5 DEF ReadFails
    <2>1. reader'.pc = "done"
        OBVIOUS
    <2>2. Counts'
        BY <2>1 DEF Counts
    <2>3. Ends'
        BY <2>1 DEF Ends, Drained
    <2>4. ASSUME NEW s \in subscribers' PROVE Covered(s)'
        BY DEF Covered, Pending
    <2> QED
        BY <1>0, <2>2, <2>3, <2>4
<1>6. CASE RingWrite
    <2> USE <1>6 DEF RingWrite
    <2>1. reader'.pc = "fan"
        OBVIOUS
    <2>2. Counts' /\ Ends'
        BY <2>1 DEF Counts, Ends
    <2>3. ASSUME NEW s \in subscribers' PROVE Covered(s)'
        BY <2>1 DEF Covered, Pending
    <2> QED
        BY <1>0, <2>2, <2>3
<1>7. CASE FanCopy
    <2> USE <1>7 DEF FanCopy
    <2>1. reader'.pc = "send" /\ reader'.todo = subscribers
        OBVIOUS
    <2>2. Counts' /\ Ends'
        BY <2>1 DEF Counts, Ends
    <2>3. ASSUME NEW s \in subscribers' PROVE Covered(s)'
        BY <2>1 DEF Covered, Pending
    <2> QED
        BY <1>0, <2>2, <2>3
<1>8. CASE FanEnd
    <2> USE <1>8 DEF FanEnd
    <2>1. reader'.pc = "read"
        OBVIOUS
    <2>2. Counts' /\ Ends'
        BY <2>1 DEF Counts, Ends
    <2>3. ASSUME NEW s \in subscribers' PROVE Covered(s)'
        BY DEF Covered, Pending
    <2> QED
        BY <1>0, <2>2, <2>3
<1>9. ASSUME NEW c \in Subs, FanSend(c) PROVE IInv'
    <2> USE <1>9 DEF FanSend
    <2>1. reader'.pc = "send" /\ reader'.todo = reader.todo \ {c}
        OBVIOUS
    <2>2. Counts' /\ Ends'
        BY <2>1 DEF Counts, Ends
    <2>3. ASSUME NEW s \in subscribers' PROVE Covered(s)'
        <3>1. CASE s = c
            <4>1. offered'[s] = offered[s] \cup {read}
                BY <3>1
            <4> QED
                BY <4>1 DEF Covered
        <3>2. CASE s # c
            <4>1. offered'[s] = offered[s] /\ (Pending(s) => Pending(s)')
                BY <2>1, <3>2 DEF Pending
            <4> QED
                BY <4>1 DEF Covered
        <3> QED
            BY <3>1, <3>2
    <2> QED
        BY <1>0, <2>2, <2>3
<1>10. CASE WaitReturns
    <2>1. Ends'
        BY <1>10 DEF WaitReturns, Ends, Drained
    <2> QED
        BY <1>0, <1>10, <1>a, <1>b, <2>1 DEF WaitReturns
<1>11. CASE WaitDrained
    <2>1. Ends'
        BY <1>11 DEF WaitDrained, Finish, Ends, Drained
    <2> QED
        BY <1>0, <1>11, <1>a, <1>b, <2>1 DEF WaitDrained, Finish
<1>12. CASE WaitTimeout
    <2>1. Ends'
        BY <1>12 DEF WaitTimeout, Finish, Ends, Drained
    <2> QED
        BY <1>0, <1>12, <1>a, <1>b, <2>1 DEF WaitTimeout, Finish
<1>13. CASE CloseCall \/ CloseReturn
    <2>1. UNCHANGED <<readVars, subVars, child, held, closed, timedOut>>
        BY <1>13 DEF CloseCall, CloseReturn
    <2>2. Ends'
        BY <2>1 DEF Ends, Drained
    <2> QED
        BY <1>0, <1>a, <1>b, <2>1, <2>2
<1>14. CASE UNCHANGED <<readVars, subVars, child, held, closed, timedOut>>
    <2>1. Ends'
        BY <1>14 DEF Ends, Drained
    <2> QED
        BY <1>0, <1>a, <1>b, <1>14, <2>1
<1>15. CASE CloseKill
    BY <1>2, <1>14, <1>15 DEF CloseKill
<1>16. ASSUME NEW c \in Subs, Subscribe(c) PROVE IInv'
    <2> USE <1>16 DEF Subscribe
    <2>1. Counts' /\ Ends'
        BY DEF Counts, Ends, Drained
    <2>2. ASSUME NEW s \in subscribers' PROVE Covered(s)'
        <3>1. CASE s = c
            <4>1. snap'[s] = ring
                BY <3>1
            <4> QED
                BY <4>1 DEF Covered, Pending, Counts
        <3>2. CASE s # c
            <4>1. s \in subscribers /\ snap'[s] = snap[s]
                BY <3>2
            <4> QED
                BY <4>1 DEF Covered, Pending
        <3> QED
            BY <3>1, <3>2
    <2> QED
        BY <1>0, <2>1, <2>2
<1>17. ASSUME NEW c \in Subs, SubscribeRefused(c) \/ SeeDone(c) \/ Detach(c) \/ Receive(c)
       PROVE  IInv'
    <2>1. UNCHANGED <<readVars, subscribers, snap, offered, child, held, closed, timedOut>>
        BY <1>17 DEF SubscribeRefused, SeeDone, Detach, Receive
    <2>2. Ends'
        BY <2>1 DEF Ends, Drained
    <2> QED
        BY <1>0, <1>a, <1>b, <2>1, <2>2
<1>18. ASSUME NEW c \in Subs, Unsubscribe(c) PROVE IInv'
    <2> USE <1>18 DEF Unsubscribe
    <2>1. Counts' /\ Ends'
        BY DEF Counts, Ends, Drained
    <2>2. ASSUME NEW s \in subscribers' PROVE Covered(s)'
        BY DEF Covered, Pending
    <2> QED
        BY <1>0, <2>1, <2>2
<1>19. CASE UNCHANGED vars
    BY <1>14, <1>19 DEF vars
<1> QED
    BY <1>1, <1>2, <1>3, <1>4, <1>5, <1>6, <1>7, <1>8, <1>9, <1>10, <1>11, <1>12,
       <1>13, <1>15, <1>16, <1>17, <1>18, <1>19
    DEF Next, ReadLoop, WaitLoop, Closing, Winding, ChildExit

\* The invariant holds in every reachable state.
THEOREM Inductive == Spec => []IInv
<1>1. IInv /\ [Next]_vars => IInv'
    BY NextIInv
<1> QED
    BY InitIInv, <1>1, PTL DEF Spec

\* Types and channel capacities, for every number of subscribers.
THEOREM TypeCorrect == Spec => []TypeOK
<1>1. IInv => TypeOK
    BY DEF IInv
<1> QED
    BY Inductive, <1>1, PTL

(***************************************************************************)
(* No chunk is missing between the ring that Subscribe returned and the    *)
(* chunks fanned out to the subscriber afterwards.                         *)
(***************************************************************************)
THEOREM SubscribersMissNothing == Spec => []NoGap
<1>1. IInv => NoGap
    BY DEF IInv, Covered, Pending, NoGap
<1> QED
    BY Inductive, <1>1, PTL

(***************************************************************************)
(* When the wait loop did not run into its deadline, the closed session's  *)
(* ring holds everything the child wrote (#363).                           *)
(***************************************************************************)
THEOREM TailSurvivesExit == Spec => []TailKept
<1>1. IInv => TailKept
    BY DEF IInv, TypeOK, Counts, Ends, Drained, TailKept
<1> QED
    BY Inductive, <1>1, PTL

-----------------------------------------------------------------------------
(* What a subscriber is sent, and in which order.                          *)

\* A subscriber is sent chunks from its snapshot's last one on, up to the one
\* in hand, which it has not been sent yet while it is pending.
Fed(s) ==
    /\ client[s] \in {"new", "refused"} =>
          s \notin subscribers /\ s \notin reader.todo /\ offered[s] = {}
    /\ snap[s] <= ring
    /\ \A k \in offered[s] : snap[s] <= k /\ k <= read /\ (Pending(s) => k < read)

\* Its channel holds some of them, the older ones first.
Ordered(s) ==
    /\ \A i \in 1..Len(ch[s]) : ch[s][i] \in offered[s]
    /\ \A i, j \in 1..Len(ch[s]) : i < j => ch[s][i] < ch[s][j]

Feed == \A s \in Subs : Fed(s) /\ Ordered(s)

\* Appending the chunk in hand, or taking the first one out, keeps the order.
LEMMA OrderedSend ==
    ASSUME TypeOK, Counts, NEW s \in Subs, Fed(s), Ordered(s), FanSend(s)
    PROVE  Ordered(s)'
<1>1. /\ reader.pc = "send" /\ s \in reader.todo
      /\ offered' = [offered EXCEPT ![s] = @ \cup {read}]
      /\ ch' = [ch EXCEPT ![s] = IF Len(@) < Depth THEN Append(@, read) ELSE @]
    BY DEF FanSend, Send
<1>2. ch[s] \in Seq(1..MaxChunks) /\ offered[s] \subseteq 1..MaxChunks /\ read \in Nat
    BY BoundsAssumption DEF TypeOK
<1>3. offered'[s] = offered[s] \cup {read} /\ \A k \in offered[s] : k < read
    BY <1>1 DEF TypeOK, Fed, Pending
<1>4. CASE Len(ch[s]) < Depth
  <2>1. ch'[s] = Append(ch[s], read)
    BY <1>1, <1>4 DEF TypeOK
  <2>2. /\ Len(ch'[s]) = Len(ch[s]) + 1 /\ Len(ch[s]) \in Nat
        /\ \A i \in 1..Len(ch[s]) : ch'[s][i] = ch[s][i]
        /\ ch'[s][Len(ch[s]) + 1] = read
    BY <1>2, <2>1
  <2>3. \A i \in 1..Len(ch'[s]) : ch'[s][i] \in offered'[s]
    BY <1>3, <2>2 DEF Ordered
  <2>4. ASSUME NEW i \in 1..Len(ch'[s]), NEW j \in 1..Len(ch'[s]), i < j
        PROVE  ch'[s][i] < ch'[s][j]
    <3>1. i \in 1..Len(ch[s]) /\ ch'[s][i] = ch[s][i] /\ ch[s][i] \in offered[s]
      BY <2>2, <2>4 DEF Ordered
    <3>2. CASE j = Len(ch[s]) + 1
      BY <1>3, <2>2, <3>1, <3>2
    <3>3. CASE j \in 1..Len(ch[s])
      BY <2>2, <2>4, <3>1, <3>3 DEF Ordered
    <3> QED
      BY <2>2, <3>2, <3>3
  <2> QED
    BY <2>3, <2>4 DEF Ordered
<1>5. CASE ~(Len(ch[s]) < Depth)
  <2>1. ch'[s] = ch[s]
    BY <1>1, <1>5 DEF TypeOK
  <2> QED
    BY <1>3, <2>1 DEF Ordered
<1> QED
    BY <1>4, <1>5

LEMMA OrderedReceive ==
    ASSUME TypeOK, NEW s \in Subs, Ordered(s), Receive(s)
    PROVE  Ordered(s)'
<1>1. ch[s] \in Seq(1..MaxChunks) /\ ch[s] # <<>> /\ ch'[s] = Tail(ch[s]) /\ offered' = offered
    BY DEF TypeOK, Receive
<1>2. /\ Len(ch'[s]) = Len(ch[s]) - 1 /\ Len(ch[s]) \in Nat
      /\ \A i \in 1..Len(ch'[s]) : ch'[s][i] = ch[s][i + 1]
    BY <1>1
<1>3. \A i \in 1..Len(ch'[s]) : i + 1 \in 1..Len(ch[s])
    BY <1>2
<1>4. \A i \in 1..Len(ch'[s]) : ch'[s][i] \in offered'[s]
    BY <1>1, <1>2, <1>3 DEF Ordered
<1>5. ASSUME NEW i \in 1..Len(ch'[s]), NEW j \in 1..Len(ch'[s]), i < j
      PROVE  ch'[s][i] < ch'[s][j]
    BY <1>2, <1>3, <1>5 DEF Ordered
<1> QED
    BY <1>4, <1>5 DEF Ordered

\* A step keeps the feed of every subscriber it does not touch.
LEMMA FeedStep == IInv /\ Feed /\ [Next]_vars => Feed'
<1> SUFFICES ASSUME IInv, Feed, [Next]_vars, NEW s \in Subs PROVE (Fed(s) /\ Ordered(s))'
    BY DEF Feed
<1>t. TypeOK /\ TypeOK' /\ Counts /\ Fed(s) /\ Ordered(s)
    BY NextIInv DEF IInv, Feed
<1>n. /\ read \in Nat /\ ring \in Nat /\ snap[s] \in Nat /\ offered[s] \subseteq Nat
      /\ reader \in [pc : {"read", "ring", "fan", "send", "done"}, todo : SUBSET Subs]
    BY <1>t, BoundsAssumption DEF TypeOK
<1>a. ASSUME UNCHANGED <<ch, offered>> PROVE Ordered(s)'
    BY <1>t, <1>a DEF Ordered
<1>1. CASE UNCHANGED <<readVars, subVars>>
    BY <1>1, <1>a, <1>t DEF Fed, Pending, readVars, subVars
<1>2. CASE ChildWrite
    BY <1>2, <1>a, <1>t DEF ChildWrite, Fed, Pending, subVars
<1>3. CASE Read
  <2>1. /\ reader'.pc = "ring" /\ reader'.todo = reader.todo /\ read' = read + 1
        /\ UNCHANGED <<ring, subscribers, client, snap, ch, offered>>
    BY <1>3, <1>n DEF Read, subVars
  <2>2. Fed(s)'
    BY <1>n, <1>t, <2>1 DEF Fed, Pending
  <2> QED
    BY <1>a, <2>1, <2>2
<1>4. CASE ReadFails \/ FanEnd
  <2>1. /\ reader'.pc \in {"read", "done"} /\ reader'.todo = reader.todo
        /\ UNCHANGED <<read, ring, subscribers, client, snap, ch, offered>>
    BY <1>4, <1>n DEF ReadFails, FanEnd, subVars
  <2>2. Fed(s)'
    BY <1>n, <1>t, <2>1 DEF Fed, Pending
  <2> QED
    BY <1>a, <2>1, <2>2
<1>5. CASE RingWrite
  <2>1. /\ reader.pc = "ring" /\ reader'.pc = "fan" /\ reader'.todo = reader.todo /\ ring' = read
        /\ UNCHANGED <<read, subscribers, client, snap, ch, offered>>
    BY <1>5, <1>n DEF RingWrite, subVars
  <2>2. Fed(s)'
    BY <1>n, <1>t, <2>1 DEF Fed, Pending, Counts
  <2> QED
    BY <1>a, <2>1, <2>2
<1>6. CASE FanCopy
  <2>1. /\ reader.pc = "fan" /\ reader'.pc = "send" /\ reader'.todo = subscribers
        /\ UNCHANGED <<read, ring, subscribers, client, snap, ch, offered>>
    BY <1>6 DEF FanCopy, subVars
  <2>2. Fed(s)'
    BY <1>n, <1>t, <2>1 DEF Fed, Pending
  <2> QED
    BY <1>a, <2>1, <2>2
<1>7. ASSUME NEW c \in Subs, FanSend(c) PROVE (Fed(s) /\ Ordered(s))'
  <2>1. /\ reader.pc = "send" /\ c \in reader.todo
        /\ reader'.pc = "send" /\ reader'.todo = reader.todo \ {c}
        /\ UNCHANGED <<read, ring, subscribers, client, snap>>
    BY <1>7, <1>n DEF FanSend
  <2>2. CASE s = c
    <3>1. offered'[s] = offered[s] \cup {read} /\ snap[s] <= read
      BY <1>7, <1>n, <1>t, <2>1, <2>2 DEF FanSend, TypeOK, Fed, Counts
    <3>2. Fed(s)'
      BY <1>n, <1>t, <2>1, <2>2, <3>1 DEF Fed, Pending
    <3>3. Ordered(s)'
      BY <1>7, <1>t, <2>2, OrderedSend
    <3> QED
      BY <3>2, <3>3
  <2>3. CASE s # c
    <3>1. offered'[s] = offered[s] /\ ch'[s] = ch[s]
      BY <1>7, <1>t, <2>3 DEF FanSend, Send, TypeOK
    <3> QED
      BY <1>n, <1>t, <2>1, <3>1 DEF Fed, Pending, Ordered
  <2> QED
    BY <2>2, <2>3
<1>8. ASSUME NEW c \in Subs, Subscribe(c) PROVE (Fed(s) /\ Ordered(s))'
  <2>1. /\ client[c] = "new" /\ client' = [client EXCEPT ![c] = "live"]
        /\ subscribers' = subscribers \cup {c} /\ snap' = [snap EXCEPT ![c] = ring]
        /\ UNCHANGED <<read, ring, reader, ch, offered>>
    BY <1>8 DEF Subscribe, readVars
  <2>2. CASE s = c
    <3>1. client'[s] = "live" /\ snap'[s] = ring /\ offered[s] = {}
      BY <1>t, <2>1, <2>2 DEF TypeOK, Fed
    <3> QED
      BY <1>a, <1>n, <2>1, <3>1 DEF Fed
  <2>3. CASE s # c
    <3>1. client'[s] = client[s] /\ snap'[s] = snap[s] /\ (s \in subscribers' <=> s \in subscribers)
      BY <1>t, <2>1, <2>3 DEF TypeOK
    <3> QED
      BY <1>a, <1>t, <2>1, <3>1 DEF Fed, Pending
  <2> QED
    BY <2>2, <2>3
<1>9. ASSUME NEW c \in Subs,
             SubscribeRefused(c) \/ SeeDone(c) \/ Detach(c) \/ Unsubscribe(c) \/ Receive(c)
      PROVE  (Fed(s) /\ Ordered(s))'
  <2>1. /\ UNCHANGED <<read, ring, reader, snap, offered>> /\ subscribers' \subseteq subscribers
    BY <1>9 DEF SubscribeRefused, SeeDone, Detach, Unsubscribe, Receive, readVars
  <2>2. client'[s] \in {"new", "refused"} => client[s] \in {"new", "refused"}
    BY <1>9, <1>t DEF SubscribeRefused, SeeDone, Detach, Unsubscribe, Receive, TypeOK
  <2>3. Fed(s)'
    BY <1>t, <2>1, <2>2 DEF Fed, Pending
  <2>4. CASE Receive(c)
    <3>1. CASE s = c
      BY <1>t, <2>3, <2>4, <3>1, OrderedReceive
    <3>2. CASE s # c
      <4>1. ch'[s] = ch[s]
        BY <1>t, <2>4, <3>2 DEF Receive, TypeOK
      <4> QED
        BY <1>t, <2>1, <2>3, <4>1 DEF Ordered
    <3> QED
      BY <3>1, <3>2
  <2>5. CASE ~Receive(c)
    BY <1>9, <1>a, <2>1, <2>3, <2>5 DEF SubscribeRefused, SeeDone, Detach, Unsubscribe
  <2> QED
    BY <2>4, <2>5
<1>10. CASE \/ ChildExit \/ ReleaseSlave \/ WaitReturns \/ WaitDrained \/ WaitTimeout
            \/ CloseCall \/ CloseKill \/ CloseReturn \/ UNCHANGED vars
    BY <1>1, <1>10 DEF ChildExit, Exits, ReleaseSlave, WaitReturns, WaitDrained, WaitTimeout,
                       Finish, CloseCall, CloseKill, CloseReturn, vars
<1> QED
    BY <1>2, <1>3, <1>4, <1>5, <1>6, <1>7, <1>8, <1>9, <1>10
    DEF Next, ReadLoop, WaitLoop, Closing, Winding

\* The feed is in order in every reachable state.
LEMMA FeedHolds == Spec => []Feed
<1>1. Init => Feed
  <2> SUFFICES ASSUME Init, NEW s \in Subs PROVE Fed(s) /\ Ordered(s)
    BY DEF Feed
  <2>1. Fed(s)
    BY DEF Init, Fed
  <2>2. ch[s] = <<>> /\ 1..Len(<<>>) = {}
    BY DEF Init
  <2> QED
    BY <2>1, <2>2 DEF Ordered
<1> QED
    BY <1>1, FeedStep, Inductive, PTL DEF Spec

\* A subscriber's channel holds chunks in the order the child wrote them.
InOrder ==
    \A s \in Subs : \A i, j \in 1..Len(ch[s]) : i < j => ch[s][i] < ch[s][j]

\* A chunk is sent to a subscriber after all that it was sent before, and once.
SentInOrder ==
    \A s \in Subs : FanSend(s) => \A k \in offered[s] : k < read

\* Of the chunks in its snapshot only the last one may be sent again.
OverlapsByOne == \A s \in Subs : \A k \in offered[s] : k >= snap[s]

(***************************************************************************)
(* The read loop fans out from a copy of the subscribers without the lock: *)
(* still nobody is sent a chunk twice or after a later one, and the        *)
(* channel hands them over in that order, drops included.                  *)
(***************************************************************************)
THEOREM OutputInOrder == Spec => []InOrder /\ [][SentInOrder]_vars
<1>1. Feed => InOrder
    BY DEF Feed, Ordered, InOrder
<1>2. Feed => SentInOrder
    BY DEF Feed, Fed, Pending, FanSend, SentInOrder
<1> QED
    BY <1>1, <1>2, FeedHolds, PTL

(***************************************************************************)
(* Subscribe's comment promises chunks "AFTER subscribe time".  The chunk  *)
(* between RingWrite and FanCopy is in the snapshot and sent as well       *)
(* (ReplayThenLive fails); it is the only one: a client repeats at most    *)
(* the last chunk of its replay.                                           *)
(***************************************************************************)
THEOREM ReplayOverlapsByOne == Spec => []OverlapsByOne
<1>1. Feed => OverlapsByOne
  <2> SUFFICES ASSUME Feed, NEW s \in Subs, NEW k \in offered[s] PROVE snap[s] <= k
    BY DEF OverlapsByOne
  <2> QED
    BY DEF Feed, Fed
<1> QED
    BY <1>1, FeedHolds, PTL

-----------------------------------------------------------------------------
(* The ring behind Session.ring, byte by byte.                             *)

\* A ring that has not wrapped holds all bytes from the first; a wrapped one
\* holds the newest pos bytes below pos and the older ones from pos on.
RingLayout ==
    /\ ~full => n = pos
    /\ full => n >= cap
    /\ \A i \in 0..(cap - 1) : i < pos => buf[i] = n - pos + i
    /\ \A i \in 0..(cap - 1) : full /\ i >= pos => buf[i] = n - cap - pos + i

RingInv == RingTypeOK /\ RingLayout

\* The ring is never empty: NewRingBuffer's guard.
LEMMA CapPositive == cap \in Nat /\ cap >= 1
BY CapacityAssumption DEF cap

\* A new ring satisfies the layout.
LEMMA RingInitInv == RingInit => RingInv
<1> SUFFICES ASSUME RingInit PROVE RingInv
    OBVIOUS
<1> USE CapPositive, RingBoundsAssumption
<1>1. RingTypeOK
    <2>1. Unset \in Int
        BY DEF Unset
    <2>2. buf \in [0..(cap - 1) -> Int]
        BY <2>1 DEF RingInit
    <2>3. full \in BOOLEAN
        BY Zenon DEF RingInit
    <2>4. pos \in 0..(cap - 1) /\ left \in 0..MaxWrite /\ n \in Nat
        BY DEF RingInit
    <2> QED
        BY <2>2, <2>3, <2>4 DEF RingTypeOK
<1>2. RingLayout
    BY DEF RingInit, RingLayout
<1> QED
    BY <1>1, <1>2 DEF RingInv

\* Neither the start of a Write nor a turn of its loop breaks the layout.
LEMMA RingNextInv == RingInv /\ [RingNext]_ringVars => RingInv'
<1> SUFFICES ASSUME RingInv, [RingNext]_ringVars PROVE RingInv'
    OBVIOUS
<1> USE CapPositive, RingBoundsAssumption DEF RingInv, RingTypeOK
<1>1. CASE WriteByte
    <2> USE <1>1 DEF WriteByte
    <2>1. RingTypeOK'
        OBVIOUS
    <2>2. CASE pos + 1 >= cap
        <3>1. pos' = 0 /\ full' /\ pos = cap - 1
            <4>1. full'
                BY <2>2
            <4> QED
                BY <2>2, <4>1
        <3>2. \A i \in 0..(cap - 1) : buf'[i] = n' - cap + i
            BY <2>2 DEF RingLayout
        <3>3. n' >= cap
            BY <2>2 DEF RingLayout
        <3> QED
            BY <2>1, <3>1, <3>2, <3>3 DEF RingLayout
    <2>3. CASE pos + 1 < cap
        <3>1. pos' = pos + 1 /\ full' = full
            BY <2>3
        <3>2. \A i \in 0..(cap - 1) : i < pos' => buf'[i] = n' - pos' + i
            <4> SUFFICES ASSUME NEW i \in 0..(cap - 1), i < pos'
                         PROVE  buf'[i] = n' - pos' + i
                OBVIOUS
            <4>1. CASE i = pos
                <5>1. buf'[i] = n
                    BY <4>1
                <5> QED
                    BY <3>1, <4>1, <5>1
            <4>2. CASE i # pos
                <5>1. buf'[i] = buf[i] /\ i < pos
                    BY <3>1, <4>2
                <5> QED
                    BY <3>1, <5>1 DEF RingLayout
            <4> QED
                BY <4>1, <4>2
        <3>3. \A i \in 0..(cap - 1) : full' /\ i >= pos' => buf'[i] = n' - cap - pos' + i
            BY <2>3, <3>1 DEF RingLayout
        <3> QED
            BY <2>1, <3>1, <3>2, <3>3 DEF RingLayout
    <2> QED
        BY <2>2, <2>3
<1>2. CASE \E k \in 1..MaxWrite : Write(k)
    BY <1>2 DEF Write, RingLayout
<1>3. CASE UNCHANGED ringVars
    BY <1>3 DEF ringVars, RingLayout
<1> QED
    BY <1>1, <1>2, <1>3 DEF RingNext

\* The layout is what Snapshot needs.
LEMMA RingLayoutGivesTail == RingInv => SnapshotIsTail
<1> SUFFICES ASSUME RingInv PROVE SnapshotIsTail
    OBVIOUS
<1> USE CapPositive DEF RingInv, RingTypeOK
<1>1. Length = Retained
    BY DEF Length, Retained, RingLayout
<1>2. CASE ~full
    <2>1. Retained = pos /\ n = pos
        BY <1>2 DEF Retained, RingLayout
    <2>2. \A i \in 0..(pos - 1) : buf[i] = n - pos + i
        BY <1>2 DEF RingLayout
    <2> QED
        BY <1>1, <1>2, <2>1, <2>2 DEF SnapshotIsTail, Snapshot, TailOfOutput
<1>3. CASE full
    <2>1. Retained = cap
        BY <1>3 DEF Retained, RingLayout
    <2>2. \A i \in 0..(cap - 1) :
             (IF i < cap - pos THEN buf[pos + i] ELSE buf[i - (cap - pos)])
                 = n - cap + i
        <3> TAKE i \in 0..(cap - 1)
        <3>1. CASE i < cap - pos
            <4>1. pos + i \in 0..(cap - 1) /\ pos + i >= pos
                BY <3>1
            <4>2. buf[pos + i] = n - cap - pos + (pos + i)
                BY <4>1, <1>3 DEF RingLayout
            <4> QED
                BY <3>1, <4>2
        <3>2. CASE i >= cap - pos
            <4>1. i - (cap - pos) \in 0..(cap - 1) /\ i - (cap - pos) < pos
                BY <3>2
            <4>2. buf[i - (cap - pos)] = n - pos + (i - (cap - pos))
                BY <4>1 DEF RingLayout
            <4> QED
                BY <3>2, <4>2
        <3> QED
            BY <3>1, <3>2
    <2> QED
        BY <1>1, <1>3, <2>1, <2>2 DEF SnapshotIsTail, Snapshot, TailOfOutput
<1> QED
    BY <1>2, <1>3

(***************************************************************************)
(* RingBuffer.Snapshot always returns the newest bytes of the output in    *)
(* the order they were written, for every capacity passed to NewRingBuffer *)
(* and Writes of every length.                                             *)
(***************************************************************************)
THEOREM RingKeepsTail == RingSpec => []SnapshotIsTail
<1>1. RingInv /\ [RingNext]_ringVars => RingInv'
    BY RingNextInv
<1> QED
    BY RingInitInv, <1>1, RingLayoutGivesTail, PTL DEF RingSpec

(***************************************************************************)
(* WriteByte's index is always one of the buffer's: Write never runs into  *)
(* an index out of range, and full, left and n keep their types.           *)
(***************************************************************************)
THEOREM RingTypesKept == RingSpec => []RingTypeOK
<1>1. RingInv => RingTypeOK
    BY DEF RingInv
<1>2. RingInv /\ [RingNext]_ringVars => RingInv'
    BY RingNextInv
<1> QED
    BY RingInitInv, <1>1, <1>2, PTL DEF RingSpec
=============================================================================
