--------------------------- MODULE UsbDeviceProofs ---------------------------
(***************************************************************************)
(* Lemmas about the two rings of UsbDevice, for every size of them: the    *)
(* ring of events is a queue and the ring of the history keeps the last    *)
(* requests, however often their indices have wrapped. Every one of them   *)
(* is a fact about Ring, what n cells from an index on hold.               *)
(***************************************************************************)
EXTENDS UsbDevice, SequenceTheorems, TLAPS

Slot(x, size) == x % size
Put(cells, c, r) == [cells EXCEPT ![c] = r]
Extended(s, r) == Append(s, r)
Ring(cells, size, first, n) == [i \in 1..n |-> cells[Slot(first + i - 1, size)]]

(* An index lies less than a ring's length beyond the array, where % is    *)
(* one subtraction.                                                        *)
LEMMA Wrapped ==
    ASSUME NEW size \in Nat \ {0}, NEW x \in 0..(2 * size - 1)
    PROVE  /\ Slot(x, size) = IF x < size THEN x ELSE x - size
           /\ Slot(x, size) \in 0..(size - 1)
<1>1. CASE x \in 0..(size - 1)
  BY <1>1, SMT DEF Slot
<1>2. CASE x \in size..(2 * size - 1)
  BY <1>2, SMT DEF Slot
<1> QED
  BY <1>1, <1>2

LEMMA RingLength ==
    ASSUME NEW cells, NEW size, NEW first, NEW n \in Nat
    PROVE  Len(Ring(cells, size, first, n)) = n
BY DEF Ring

LEMMA RingIsSequence ==
    ASSUME NEW S, NEW size \in Nat \ {0}, NEW cells \in [0..(size - 1) -> S],
           NEW first \in 0..(size - 1), NEW n \in 0..size
    PROVE  Ring(cells, size, first, n) \in Seq(S)
<1>1. \A i \in 1..n : Slot(first + i - 1, size) \in 0..(size - 1)
  <2> SUFFICES ASSUME NEW i \in 1..n PROVE Slot(first + i - 1, size) \in 0..(size - 1)
    OBVIOUS
  <2>1. first + i - 1 \in 0..(2 * size - 1)
    OBVIOUS
  <2> QED
    BY <2>1, Wrapped
<1>2. Ring(cells, size, first, n) \in [1..n -> S]
  BY <1>1 DEF Ring
<1> QED
  BY <1>2

(* Writing the cell behind the newest one appends.                         *)
LEMMA RingAppend ==
    ASSUME NEW S, NEW size \in Nat \ {0}, NEW cells \in [0..(size - 1) -> S],
           NEW first \in 0..(size - 1), NEW n \in 0..(size - 1), NEW r \in S,
           NEW free, free = Slot(first + n, size), NEW more, more = n + 1
    PROVE  Ring(Put(cells, free, r), size, first, more)
             = Extended(Ring(cells, size, first, n), r)
<1> DEFINE written == Put(cells, free, r)
           long == Ring(written, size, first, n + 1)
           short == Ring(cells, size, first, n)
<1>1. /\ first + n \in 0..(2 * size - 1) /\ n \in 0..size /\ n + 1 \in 0..size /\ n + 1 \in Int
  OBVIOUS
<1>2. /\ free = IF first + n < size THEN first + n ELSE first + n - size
      /\ free \in 0..(size - 1)
  BY <1>1, Wrapped
<1>3. written \in [0..(size - 1) -> S] /\ written[free] = r
      /\ \A c \in 0..(size - 1) : c # free => written[c] = cells[c]
  BY <1>2 DEF Put
<1> HIDE DEF written
<1>4. /\ short \in Seq(S) /\ Len(short) = n
      /\ \A i \in 1..n : short[i] = cells[Slot(first + i - 1, size)]
  <2>1. short \in Seq(S)
    BY <1>1, RingIsSequence
  <2>2. Len(short) = n
    BY RingLength
  <2> QED
    BY <2>1, <2>2 DEF Ring
<1>5. /\ long \in Seq(S) /\ Len(long) = n + 1
      /\ \A i \in 1..(n + 1) : long[i] = written[Slot(first + i - 1, size)]
  <2>1. long \in Seq(S)
    BY <1>1, <1>3, RingIsSequence
  <2>2. Len(long) = n + 1
    BY RingLength
  <2> QED
    BY <2>1, <2>2 DEF Ring
<1> HIDE DEF long, short
<1>6. ASSUME NEW i \in 1..n PROVE long[i] = short[i]
  <2>1. first + i - 1 \in 0..(2 * size - 1) /\ first + i - 1 < first + n /\ i \in 1..(n + 1)
        /\ first + i - 1 >= first
    OBVIOUS
  <2>2. /\ Slot(first + i - 1, size) = IF first + i - 1 < size THEN first + i - 1
                                    ELSE first + i - 1 - size
        /\ Slot(first + i - 1, size) \in 0..(size - 1)
    BY <2>1, Wrapped
  <2>3. Slot(first + i - 1, size) # free
    BY <1>2, <2>1, <2>2
  <2> QED
    BY <1>3, <1>4, <1>5, <2>1, <2>2, <2>3
<1>7. long[n + 1] = r
  <2>1. first + (n + 1) - 1 = first + n /\ n + 1 \in 1..(n + 1)
    OBVIOUS
  <2> QED
    BY <1>3, <1>5, <2>1
<1>8. /\ Append(short, r) \in Seq(S) /\ Len(Append(short, r)) = n + 1
      /\ \A i \in 1..n : Append(short, r)[i] = short[i]
      /\ Append(short, r)[n + 1] = r
  BY <1>4, AppendProperties
<1>9. \A i \in 1..(n + 1) : i \in 1..n \/ i = n + 1
  OBVIOUS
<1>10. long = Append(short, r)
  BY <1>5, <1>6, <1>7, <1>8, <1>9, SeqEqual
<1> QED
  BY <1>10 DEF long, short, written, Extended

(* Moving on from the oldest cell takes it away.                           *)
LEMMA RingTail ==
    ASSUME NEW S, NEW size \in Nat \ {0}, NEW cells \in [0..(size - 1) -> S],
           NEW first \in 0..(size - 1), NEW n \in 1..size
    PROVE  /\ Ring(cells, size, first, n) # <<>>
           /\ Head(Ring(cells, size, first, n)) = cells[first]
           /\ Ring(cells, size, Slot(first + 1, size), n - 1) = Tail(Ring(cells, size, first, n))
<1> DEFINE second == Slot(first + 1, size)
           long == Ring(cells, size, first, n)
           short == Ring(cells, size, second, n - 1)
<1>1. first + 1 \in 0..(2 * size - 1) /\ n \in 0..size /\ n - 1 \in 0..size /\ n \in Int /\ n > 0
  OBVIOUS
<1>2. /\ second = IF first + 1 < size THEN first + 1 ELSE first + 1 - size
      /\ second \in 0..(size - 1)
  BY <1>1, Wrapped
<1> HIDE DEF second
<1>3. /\ long \in Seq(S) /\ Len(long) = n
      /\ \A i \in 1..n : long[i] = cells[Slot(first + i - 1, size)]
  <2>1. long \in Seq(S)
    BY <1>1, RingIsSequence
  <2>2. Len(long) = n
    BY RingLength
  <2> QED
    BY <2>1, <2>2 DEF Ring
<1>4. /\ short \in Seq(S) /\ Len(short) = n - 1
      /\ \A i \in 1..(n - 1) : short[i] = cells[Slot(second + i - 1, size)]
  <2>1. short \in Seq(S)
    BY <1>1, <1>2, RingIsSequence
  <2>2. Len(short) = n - 1
    BY RingLength
  <2> QED
    BY <2>1, <2>2 DEF Ring
<1> HIDE DEF long, short
<1>5. long # <<>>
  BY <1>1, <1>3, EmptySeq
<1>6. Head(long) = cells[first]
  <2>1. 1 \in 1..n /\ first + 1 - 1 = first /\ first \in 0..(2 * size - 1) /\ first < size
    OBVIOUS
  <2>2. Slot(first, size) = first
    BY <2>1, Wrapped
  <2> QED
    BY <1>3, <1>5, <2>1, <2>2
<1>7. /\ Tail(long) \in Seq(S) /\ Len(Tail(long)) = n - 1
      /\ \A i \in 1..(n - 1) : Tail(long)[i] = long[i + 1]
  BY <1>3, <1>5, HeadTailProperties
<1>8. ASSUME NEW i \in 1..(n - 1) PROVE short[i] = Tail(long)[i]
  <2>1. /\ i + 1 \in 1..n /\ first + (i + 1) - 1 = first + i /\ first + i \in 0..(2 * size - 1)
        /\ i \in Int /\ i >= 1 /\ i < size
    OBVIOUS
  <2>2. Slot(first + i, size) = IF first + i < size THEN first + i ELSE first + i - size
    BY <2>1, Wrapped
  <2> DEFINE x == second + i - 1
  <2>3. x \in 0..(2 * size - 1)
    BY <1>2, <2>1
  <2> HIDE DEF x
  <2>4. Slot(x, size) = IF x < size THEN x ELSE x - size
    BY <2>3, Wrapped
  <2> USE DEF x
  <2>5. Slot(second + i - 1, size) = Slot(first + i, size)
    BY <1>2, <2>1, <2>2, <2>3, <2>4
  <2> QED
    BY <1>3, <1>4, <1>7, <2>1, <2>5
<1>9. short = Tail(long)
  BY <1>4, <1>7, <1>8, SeqEqual
<1> QED
  BY <1>5, <1>6, <1>9 DEF long, short, second

(* A full ring that is written on keeps all but its oldest cell.           *)
LEMMA RingReplace ==
    ASSUME NEW S, NEW size \in Nat \ {0}, NEW cells \in [0..(size - 1) -> S],
           NEW first \in 0..(size - 1), NEW r \in S
    PROVE  Ring(Put(cells, first, r), size, Slot(first + 1, size), size)
             = Tail(Append(Ring(cells, size, first, size), r))
<1> DEFINE second == Slot(first + 1, size)
           written == Put(cells, first, r)
           old == Ring(cells, size, first, size)
           new == Ring(written, size, second, size)
           longer == Append(old, r)
<1>1. first + 1 \in 0..(2 * size - 1) /\ size \in 0..size
  OBVIOUS
<1>2. /\ second = IF first + 1 < size THEN first + 1 ELSE first + 1 - size
      /\ second \in 0..(size - 1)
  BY <1>1, Wrapped
<1> HIDE DEF second
<1>3. written \in [0..(size - 1) -> S] /\ written[first] = r
      /\ \A c \in 0..(size - 1) : c # first => written[c] = cells[c]
  BY DEF Put
<1> HIDE DEF written
<1>4. /\ old \in Seq(S) /\ Len(old) = size
      /\ \A i \in 1..size : old[i] = cells[Slot(first + i - 1, size)]
  <2>1. old \in Seq(S)
    BY <1>1, RingIsSequence
  <2>2. Len(old) = size
    BY RingLength
  <2> QED
    BY <2>1, <2>2 DEF Ring
<1>5. /\ new \in Seq(S) /\ Len(new) = size
      /\ \A i \in 1..size : new[i] = written[Slot(second + i - 1, size)]
  <2>1. new \in Seq(S)
    BY <1>1, <1>2, <1>3, RingIsSequence
  <2>2. Len(new) = size
    BY RingLength
  <2> QED
    BY <2>1, <2>2 DEF Ring
<1> HIDE DEF old, new
<1>6. /\ longer \in Seq(S) /\ longer # <<>> /\ Len(longer) = size + 1
      /\ \A i \in 1..size : longer[i] = old[i]
      /\ longer[size + 1] = r
  <2>1. old \in Seq(S) /\ r \in S
    BY <1>4
  <2>2. longer \in Seq(S) /\ longer # <<>> /\ Len(longer) = Len(old) + 1
    BY <2>1, AppendProperties
  <2>3. \A i \in 1..Len(old) : longer[i] = old[i]
    BY <2>1, AppendProperties
  <2>4. longer[Len(old) + 1] = r
    BY <2>1, AppendProperties
  <2> QED
    BY <1>4, <2>2, <2>3, <2>4
<1> HIDE DEF longer
<1>7. /\ Tail(longer) \in Seq(S) /\ Len(Tail(longer)) = size
      /\ \A i \in 1..size : Tail(longer)[i] = longer[i + 1]
  <2>1. size + 1 - 1 = size
    OBVIOUS
  <2> QED
    BY <1>6, <2>1, HeadTailProperties
<1>8. ASSUME NEW i \in 1..size PROVE new[i] = Tail(longer)[i]
  <2>1. i \in Int /\ i >= 1 /\ i <= size /\ second + i - 1 \in 0..(2 * size - 1)
    BY <1>2
  <2> DEFINE x == second + i - 1
  <2> HIDE DEF x
  <2>2. /\ Slot(x, size) = IF x < size THEN x ELSE x - size
        /\ Slot(x, size) \in 0..(size - 1)
    <3>1. x \in 0..(2 * size - 1)
      BY <2>1 DEF x
    <3> QED
      BY <3>1, Wrapped
  <2> USE DEF x
  <2>3. CASE i < size
    <3>1. i + 1 \in 1..size /\ first + (i + 1) - 1 = first + i /\ first + i \in 0..(2 * size - 1)
      BY <2>3
    <3>2. Slot(first + i, size) = IF first + i < size THEN first + i ELSE first + i - size
      BY <3>1, Wrapped
    <3>3. Slot(second + i - 1, size) = Slot(first + i, size) /\ Slot(second + i - 1, size) # first
      BY <1>2, <2>1, <2>2, <2>3, <3>2
    <3> QED
      BY <1>3, <1>4, <1>5, <1>6, <1>7, <2>2, <3>1, <3>3
  <2>4. CASE i = size
    <3>1. Slot(second + i - 1, size) = first
      BY <1>2, <2>2, <2>4
    <3> QED
      BY <1>3, <1>5, <1>6, <1>7, <2>4, <3>1
  <2>5. i < size \/ i = size
    BY <2>1
  <2> QED
    BY <2>3, <2>4, <2>5
<1>9. new = Tail(longer)
  BY <1>5, <1>7, <1>8, SeqEqual
<1> QED
  BY <1>9 DEF new, longer, old, written, second

----------------------------------------------------------------------------
(* The rings of UsbDevice. *)

Posted == Records \cup {NoEvent}

RingsOK ==
    /\ events \in [0..(EventCapacity - 1) -> Posted]
    /\ eventHistory \in [0..(HistorySize - 1) -> Posted]
    /\ eventRead \in 0..(EventCapacity - 1) /\ eventWrite \in 0..(EventCapacity - 1)
    /\ historyWrite \in 0..(HistorySize - 1)
    /\ IndicesAgree

LEMMA QueuedIsRing == Queued = Ring(events, EventCapacity, eventRead, eventCount)
BY DEF Queued, Ring, Slot

LEMMA TraceIsRing == Trace = Ring(eventHistory, HistorySize, Oldest, historyCount)
BY DEF Trace, Ring, Slot

(* The oldest record of the history: at the start until the ring is full,  *)
(* then where the next one is written.                                     *)
LEMMA OldestIndex ==
    ASSUME RingsOK
    PROVE  /\ Oldest = IF historyCount = HistorySize THEN historyWrite ELSE 0
           /\ Oldest \in 0..(HistorySize - 1)
           /\ Slot(Oldest + historyCount, HistorySize) = historyWrite
<1> DEFINE x == historyWrite + HistorySize - historyCount
<1>1. HistorySize \in Nat \ {0} /\ historyCount \in 0..HistorySize /\ historyWrite \in 0..(HistorySize - 1)
  BY UsbSizeAssumption DEF RingsOK, IndicesAgree
<1>2. /\ x \in 0..(2 * HistorySize - 1)
      /\ x = IF historyCount = HistorySize THEN historyWrite ELSE HistorySize
  BY <1>1 DEF RingsOK, IndicesAgree
<1>3. Oldest = Slot(x, HistorySize)
  BY DEF Oldest, Slot
<1> HIDE DEF x
<1>4. Oldest = IF historyCount = HistorySize THEN historyWrite ELSE 0
  BY <1>1, <1>2, <1>3, Wrapped
<1> DEFINE y == Oldest + historyCount
<1>5. y \in 0..(2 * HistorySize - 1)
  BY <1>1, <1>4 DEF RingsOK, IndicesAgree
<1>6. y = IF historyCount = HistorySize THEN historyWrite + HistorySize ELSE historyWrite
  BY <1>1, <1>4 DEF RingsOK, IndicesAgree
<1> HIDE DEF y
<1>7. Slot(y, HistorySize) = historyWrite
  BY <1>1, <1>5, <1>6, Wrapped
<1> QED
  BY <1>1, <1>4, <1>7 DEF y

LEMMA RingSequences ==
    ASSUME RingsOK
    PROVE  /\ Queued \in Seq(Posted) /\ Len(Queued) = eventCount
           /\ Trace \in Seq(Posted) /\ Len(Trace) = historyCount
           /\ eventCount \in 0..EventCapacity /\ historyCount \in 0..HistorySize
<1>1. /\ EventCapacity \in Nat \ {0} /\ HistorySize \in Nat \ {0}
      /\ eventCount \in 0..EventCapacity /\ historyCount \in 0..HistorySize
      /\ Oldest \in 0..(HistorySize - 1)
  BY UsbSizeAssumption, OldestIndex DEF RingsOK, IndicesAgree
<1>2. Queued \in Seq(Posted) /\ Trace \in Seq(Posted)
  BY <1>1, QueuedIsRing, TraceIsRing, RingIsSequence DEF RingsOK
<1>3. Len(Queued) = eventCount /\ Len(Trace) = historyCount
  BY <1>1, QueuedIsRing, TraceIsRing, RingLength
<1> QED
  BY <1>1, <1>2, <1>3

(* post_event: a request is queued unless the queue is full, and then it   *)
(* is counted as lost.                                                     *)
LEMMA PostQueues ==
    ASSUME RingsOK, NEW r \in Posted, PostEvent(r)
    PROVE  /\ eventCount = EventCapacity => Queued' = Queued /\ dropped' = TRUE
           /\ eventCount # EventCapacity => Queued' = Append(Queued, r) /\ dropped' = dropped
<1>1. /\ EventCapacity \in Nat \ {0} /\ eventCount \in 0..EventCapacity
      /\ eventRead \in 0..(EventCapacity - 1) /\ events \in [0..(EventCapacity - 1) -> Posted]
      /\ Slot(eventRead + eventCount, EventCapacity) = eventWrite
  BY UsbSizeAssumption DEF RingsOK, IndicesAgree, Slot
<1>2. CASE eventCount = EventCapacity
  BY <1>2 DEF PostEvent, queueVars, Queued
<1>3. CASE eventCount # EventCapacity
  <2>1. /\ eventRead' = eventRead /\ eventCount' = eventCount + 1 /\ dropped' = dropped
        /\ events' = Put(events, eventWrite, r)
    BY <1>1, <1>3 DEF PostEvent, Put
  <2>2. eventCount \in 0..(EventCapacity - 1)
    BY <1>1, <1>3
  <2>3. Queued' = Ring(events', EventCapacity, eventRead, eventCount')
    BY <2>1 DEF Queued, Ring, Slot
  <2>4. Ring(Put(events, eventWrite, r), EventCapacity, eventRead, eventCount')
          = Extended(Ring(events, EventCapacity, eventRead, eventCount), r)
    <3>1. EventCapacity \in Nat \ {0}
      BY <1>1
    <3>2. events \in [0..(EventCapacity - 1) -> Posted]
      BY <1>1
    <3>3. eventRead \in 0..(EventCapacity - 1)
      BY <1>1
    <3>4. eventWrite = Slot(eventRead + eventCount, EventCapacity)
      BY <1>1
    <3>5. eventCount' = eventCount + 1
      BY <2>1
    <3> QED
      BY <2>2, <3>1, <3>2, <3>3, <3>4, <3>5, RingAppend
  <2>5. Queued' = Append(Queued, r)
    BY <2>1, <2>3, <2>4, QueuedIsRing DEF Extended
  <2> QED
    BY <1>3, <2>1, <2>5
<1> QED
  BY <1>2, <1>3

(* ... and it is recorded, whether it was queued or lost.                  *)
LEMMA PostRecords ==
    ASSUME RingsOK, NEW r \in Posted, RecordHistory(r)
    PROVE  Trace' = IF r.event \in ReportRequests THEN Trace
                    ELSE Log!Latest(Append(Trace, r))
<1>1. /\ HistorySize \in Nat \ {0} /\ historyCount \in 0..HistorySize
      /\ historyWrite \in 0..(HistorySize - 1) /\ eventHistory \in [0..(HistorySize - 1) -> Posted]
      /\ historyCount < HistorySize => historyWrite = historyCount
  BY UsbSizeAssumption DEF RingsOK, IndicesAgree
<1>2. CASE r.event \in ReportRequests
  BY <1>2 DEF RecordHistory, historyVars, Trace, Oldest
<1>3. CASE r.event \notin ReportRequests
  <2>1. /\ eventHistory' = Put(eventHistory, historyWrite, r)
        /\ historyWrite' = Slot(historyWrite + 1, HistorySize)
        /\ historyCount' = IF historyCount < HistorySize THEN historyCount + 1 ELSE historyCount
    BY <1>3 DEF RecordHistory, Slot, Put
  <2>2. Trace' = Ring(eventHistory', HistorySize, Oldest', historyCount')
    BY DEF Trace, Ring, Slot
  <2>3. historyWrite + 1 \in 0..(2 * HistorySize - 1)
    BY <1>1
  <2>4. /\ historyWrite' = IF historyWrite + 1 < HistorySize THEN historyWrite + 1
                           ELSE historyWrite + 1 - HistorySize
        /\ historyWrite' \in 0..(HistorySize - 1)
    BY <1>1, <2>1, <2>3, Wrapped
  <2>5. Len(Append(Trace, r)) = historyCount + 1
    BY RingSequences, AppendProperties
  <2> DEFINE x == historyWrite' + HistorySize - historyCount'
  <2>6. Oldest' = Slot(x, HistorySize)
    BY DEF Oldest, Slot
  <2>7. CASE historyCount < HistorySize
    <3>1. x = IF historyCount + 1 < HistorySize THEN HistorySize ELSE 0
      BY <1>1, <2>1, <2>4, <2>7
    <3>2. x \in 0..(2 * HistorySize - 1)
      BY <1>1, <3>1
    <3> HIDE DEF x
    <3>3. Oldest' = 0
      BY <1>1, <2>6, <3>1, <3>2, Wrapped
    <3>4. Oldest = 0 /\ Oldest \in 0..(HistorySize - 1)
      BY <1>1, <2>7, OldestIndex
    <3>5. historyWrite = Slot(Oldest + historyCount, HistorySize)
      BY OldestIndex
    <3>6. Ring(Put(eventHistory, historyWrite, r), HistorySize, Oldest, historyCount')
            = Extended(Ring(eventHistory, HistorySize, Oldest, historyCount), r)
      <4>1. HistorySize \in Nat \ {0}
        BY <1>1
      <4>2. eventHistory \in [0..(HistorySize - 1) -> Posted]
        BY <1>1
      <4>3. historyCount \in 0..(HistorySize - 1)
        BY <1>1, <2>7
      <4>4. Oldest \in 0..(HistorySize - 1)
        BY <3>4
      <4>5. historyCount' = historyCount + 1
        BY <2>1, <2>7
      <4> QED
        BY <3>5, <4>1, <4>2, <4>3, <4>4, <4>5, RingAppend
    <3>7. Trace' = Append(Trace, r)
      BY <2>1, <2>2, <2>7, <3>3, <3>4, <3>6, TraceIsRing DEF Extended
    <3>8. Log!Latest(Append(Trace, r)) = Append(Trace, r)
      BY <1>1, <2>5, <2>7 DEF Log!Latest
    <3> QED
      BY <1>3, <3>7, <3>8
  <2>8. CASE historyCount = HistorySize
    <3>1. x = historyWrite' /\ x \in 0..(2 * HistorySize - 1) /\ historyCount' = HistorySize
          /\ x < HistorySize
      BY <1>1, <2>1, <2>4, <2>8
    <3> HIDE DEF x
    <3>2. Oldest' = Slot(historyWrite + 1, HistorySize)
      BY <1>1, <2>1, <2>6, <3>1, Wrapped
    <3>3. Oldest = historyWrite
      BY <2>8, OldestIndex
    <3>4. Ring(Put(eventHistory, historyWrite, r), HistorySize,
               Slot(historyWrite + 1, HistorySize), HistorySize)
            = Tail(Append(Ring(eventHistory, HistorySize, historyWrite, HistorySize), r))
      <4>1. HistorySize \in Nat \ {0}
        BY <1>1
      <4>2. eventHistory \in [0..(HistorySize - 1) -> Posted]
        BY <1>1
      <4>3. historyWrite \in 0..(HistorySize - 1)
        BY <1>1
      <4> QED
        BY <4>1, <4>2, <4>3, RingReplace
    <3>5. Trace' = Tail(Append(Trace, r))
      BY <2>1, <2>2, <2>8, <3>1, <3>2, <3>3, <3>4, TraceIsRing
    <3>6. Log!Latest(Append(Trace, r)) = Tail(Append(Trace, r))
      BY <1>1, <2>5, <2>8 DEF Log!Latest
    <3> QED
      BY <1>3, <3>5, <3>6
  <2> QED
    BY <1>1, <2>7, <2>8
<1> QED
  BY <1>2, <1>3

(* take_event returns the oldest request and takes it away.                *)
LEMMA TakeQueues ==
    ASSUME RingsOK, TakeEvent
    PROVE  Queued # <<>> /\ Head(Queued) = NextEvent /\ Queued' = Tail(Queued)
<1>1. /\ EventCapacity \in Nat \ {0} /\ eventCount \in 1..EventCapacity
      /\ eventRead \in 0..(EventCapacity - 1) /\ events \in [0..(EventCapacity - 1) -> Posted]
  BY UsbSizeAssumption DEF RingsOK, IndicesAgree, TakeEvent
<1>2. Queued' = Ring(events, EventCapacity, Slot(eventRead + 1, EventCapacity), eventCount - 1)
  BY DEF TakeEvent, Queued, Ring, Slot
<1>3. /\ Queued # <<>> /\ Head(Queued) = events[eventRead]
      /\ Queued' = Tail(Queued)
  BY <1>1, <1>2, QueuedIsRing, RingTail
<1> QED
  BY <1>3 DEF NextEvent

----------------------------------------------------------------------------
(* The indices stay right. *)

LEMMA PostKeepsRings ==
    ASSUME RingsOK, NEW r \in Posted, PostEvent(r)
    PROVE  RingsOK'
<1>1. /\ HistorySize \in Nat \ {0} /\ historyCount \in 0..HistorySize
      /\ historyWrite \in 0..(HistorySize - 1) /\ eventHistory \in [0..(HistorySize - 1) -> Posted]
      /\ historyCount < HistorySize => historyWrite = historyCount
  BY UsbSizeAssumption DEF RingsOK, IndicesAgree
<1>2. /\ historyWrite' \in 0..(HistorySize - 1) /\ historyCount' \in 0..HistorySize
      /\ historyCount' < HistorySize => historyWrite' = historyCount'
      /\ eventHistory' \in [0..(HistorySize - 1) -> Posted]
  <2>1. CASE UNCHANGED historyVars
    BY <1>1, <2>1 DEF historyVars
  <2>2. CASE /\ eventHistory' = [eventHistory EXCEPT ![historyWrite] = r]
             /\ historyWrite' = Slot(historyWrite + 1, HistorySize)
             /\ historyCount' = IF historyCount < HistorySize THEN historyCount + 1
                                ELSE historyCount
    <3>1. historyWrite + 1 \in 0..(2 * HistorySize - 1)
      BY <1>1
    <3>2. /\ historyWrite' = IF historyWrite + 1 < HistorySize THEN historyWrite + 1
                             ELSE historyWrite + 1 - HistorySize
          /\ historyWrite' \in 0..(HistorySize - 1)
      BY <1>1, <2>2, <3>1, Wrapped
    <3>3. eventHistory' \in [0..(HistorySize - 1) -> Posted]
      BY <1>1, <2>2
    <3> QED
      BY <1>1, <2>2, <3>2, <3>3
  <2> QED
    BY <2>1, <2>2 DEF PostEvent, RecordHistory, Slot
<1>3. /\ EventCapacity \in Nat \ {0} /\ eventCount \in 0..EventCapacity
      /\ eventRead \in 0..(EventCapacity - 1) /\ events \in [0..(EventCapacity - 1) -> Posted]
      /\ eventWrite \in 0..(EventCapacity - 1)
      /\ Slot(eventRead + eventCount, EventCapacity) = eventWrite
  BY UsbSizeAssumption DEF RingsOK, IndicesAgree, Slot
<1>4. /\ events' \in [0..(EventCapacity - 1) -> Posted]
      /\ eventRead' \in 0..(EventCapacity - 1) /\ eventWrite' \in 0..(EventCapacity - 1)
      /\ eventCount' \in 0..EventCapacity
      /\ Slot(eventRead' + eventCount', EventCapacity) = eventWrite'
  <2>1. CASE UNCHANGED queueVars
    BY <1>3, <2>1 DEF queueVars
  <2>2. CASE /\ eventCount # EventCapacity
             /\ events' = [events EXCEPT ![eventWrite] = r]
             /\ eventWrite' = Slot(eventWrite + 1, EventCapacity)
             /\ eventCount' = eventCount + 1 /\ eventRead' = eventRead
    <3>1. eventRead + eventCount \in 0..(2 * EventCapacity - 1)
          /\ eventRead + (eventCount + 1) \in 0..(2 * EventCapacity - 1)
          /\ eventWrite + 1 \in 0..(2 * EventCapacity - 1)
      BY <1>3, <2>2
    <3>2. eventWrite = IF eventRead + eventCount < EventCapacity THEN eventRead + eventCount
                       ELSE eventRead + eventCount - EventCapacity
      BY <1>3, <3>1, Wrapped
    <3>3. /\ eventWrite' = IF eventWrite + 1 < EventCapacity THEN eventWrite + 1
                           ELSE eventWrite + 1 - EventCapacity
          /\ eventWrite' \in 0..(EventCapacity - 1)
      BY <1>3, <2>2, <3>1, Wrapped
    <3> DEFINE x == eventRead + (eventCount + 1)
    <3>4. x \in 0..(2 * EventCapacity - 1)
      BY <3>1
    <3> HIDE DEF x
    <3>5. Slot(x, EventCapacity) = IF x < EventCapacity THEN x ELSE x - EventCapacity
      BY <1>3, <3>4, Wrapped
    <3>6. Slot(x, EventCapacity) = eventWrite'
      BY <1>3, <2>2, <3>2, <3>3, <3>4, <3>5 DEF x
    <3>7. events' \in [0..(EventCapacity - 1) -> Posted] /\ eventCount' \in 0..EventCapacity
      BY <1>3, <2>2
    <3> QED
      BY <1>3, <2>2, <3>3, <3>6, <3>7 DEF x
  <2> QED
    BY <2>1, <2>2 DEF PostEvent, Slot
<1> QED
  BY <1>2, <1>4 DEF RingsOK, IndicesAgree, Slot

LEMMA TakeKeepsRings ==
    ASSUME RingsOK, TakeEvent
    PROVE  RingsOK'
<1>1. /\ EventCapacity \in Nat \ {0} /\ eventCount \in 1..EventCapacity
      /\ eventRead \in 0..(EventCapacity - 1) /\ eventWrite \in 0..(EventCapacity - 1)
      /\ Slot(eventRead + eventCount, EventCapacity) = eventWrite
      /\ eventRead' = Slot(eventRead + 1, EventCapacity) /\ eventCount' = eventCount - 1
  BY UsbSizeAssumption DEF RingsOK, IndicesAgree, TakeEvent, Slot
<1>2. eventRead + eventCount \in 0..(2 * EventCapacity - 1)
      /\ eventRead + 1 \in 0..(2 * EventCapacity - 1)
  BY <1>1
<1>3. eventWrite = IF eventRead + eventCount < EventCapacity THEN eventRead + eventCount
                   ELSE eventRead + eventCount - EventCapacity
  BY <1>1, <1>2, Wrapped
<1>4. /\ eventRead' = IF eventRead + 1 < EventCapacity THEN eventRead + 1
                      ELSE eventRead + 1 - EventCapacity
      /\ eventRead' \in 0..(EventCapacity - 1)
  BY <1>1, <1>2, Wrapped
<1> DEFINE x == eventRead' + eventCount'
<1>5. x \in 0..(2 * EventCapacity - 1)
  BY <1>1, <1>4
<1> HIDE DEF x
<1>6. Slot(x, EventCapacity) = IF x < EventCapacity THEN x ELSE x - EventCapacity
  BY <1>1, <1>5, Wrapped
<1>7. Slot(x, EventCapacity) = eventWrite
  BY <1>1, <1>3, <1>4, <1>5, <1>6 DEF x
<1>8. (eventRead' + eventCount') % EventCapacity = eventWrite'
  BY <1>7 DEF x, Slot, TakeEvent
<1>9. eventCount' \in 0..EventCapacity
  BY <1>1
<1> QED
  BY <1>4, <1>8, <1>9 DEF RingsOK, IndicesAgree, TakeEvent, historyVars
=============================================================================
