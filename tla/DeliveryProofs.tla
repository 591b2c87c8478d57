--------------------------- MODULE DeliveryProofs ---------------------------
(***************************************************************************)
(* Theorems about Delivery: whatever the network does, and whatever the    *)
(* storage fails to take, the client shows the beginning of one game.      *)
(***************************************************************************)
EXTENDS Delivery, ListLemmas

(* What the recursive functions of the model are. *)

\* The lines for the events that the GUI is told of.
Told(names, events) ==
    { Line(names, events[k]) : k \in { i \in 1 .. Len(events) : IsForGui(events[i]) } }

\* lines are, for each k, the lines for the first k events.
IsTelling(lines, names, events) ==
    lines = [k \in 0 .. Len(events) |->
                IF k = 0 THEN <<>>
                ELSE IF IsForGui(events[k]) THEN Append(lines[k - 1], Line(names, events[k]))
                ELSE lines[k - 1]]

\* The function in Lines follows its definition.
LEMMA LinesDefined ==
    ASSUME NEW S, NEW events \in Seq(S), NEW names
    PROVE  \E lines : /\ IsTelling(lines, names, events)
                      /\ Lines(names, events) = lines[Len(events)]
  <1> DEFINE n == Len(events)
             T == Seq(Told(names, events))
             step == [k \in 0 .. n |-> [f \in [0 .. n -> T] |->
                        IF k = 0 THEN <<>>
                        ELSE IF IsForGui(events[k]) THEN Append(f[k - 1], Line(names, events[k]))
                        ELSE f[k - 1]]]
  <1>1. n \in Nat
    BY LenProperties
  <1>2. <<>> \in T /\ T # {}
    BY EmptySeq
  <1>3. ASSUME NEW k \in 0 .. n, NEW f \in [0 .. n -> T]
        PROVE  (IF k = 0 THEN <<>>
                ELSE IF IsForGui(events[k]) THEN Append(f[k - 1], Line(names, events[k]))
                ELSE f[k - 1]) \in T
    <2>1. CASE k = 0
      BY <1>2, <2>1
    <2>2. CASE k # 0
      <3>1. k \in 1 .. n /\ k - 1 \in 0 .. n
        BY <1>1, <2>2
      <3>2. f[k - 1] \in T
        BY <3>1
      <3>3. IsForGui(events[k]) => Line(names, events[k]) \in Told(names, events)
        BY <3>1 DEF Told
      <3>4. QED BY <2>2, <3>2, <3>3, AppendProperties
    <2>3. QED BY <2>1, <2>2
  <1>4. step \in Steps(n, T)
    BY <1>3 DEF Steps
  <1>5. LooksBack(step, n, T)
    <2> SUFFICES ASSUME NEW k \in 0 .. n, NEW f \in [0 .. n -> T], NEW g \in [0 .. n -> T],
                        \A j \in 0 .. k - 1 : f[j] = g[j]
                 PROVE  step[k][f] = step[k][g]
      BY DEF LooksBack
    <2>1. k # 0 => k - 1 \in 0 .. k - 1
      BY <1>1
    <2>2. QED BY <2>1
  <1> HIDE DEF T
  <1>6. PICK f \in [0 .. n -> T] : Obeys(f, step, n)
    <2> HIDE DEF step, n
    <2>1. QED BY <1>1, <1>2, <1>4, <1>5, RecursionExists
  <1>7. IsTelling(f, names, events)
    BY <1>6 DEF Obeys, IsTelling
  <1>8. QED BY <1>7 DEF IsTelling, Lines

\* One step of the function in Lines.
LEMMA TellingStep ==
    ASSUME NEW S, NEW events \in Seq(S), NEW names, NEW lines, IsTelling(lines, names, events)
    PROVE  /\ lines[0] = <<>>
           /\ \A k \in 1 .. Len(events) :
                 /\ IsForGui(events[k]) => lines[k] = Append(lines[k - 1], Line(names, events[k]))
                 /\ ~IsForGui(events[k]) => lines[k] = lines[k - 1]
  <1> DEFINE n == Len(events)
  <1>1. n \in Nat
    BY LenProperties
  <1>2. \A k \in 0 .. n :
           lines[k] = IF k = 0 THEN <<>>
                      ELSE IF IsForGui(events[k]) THEN Append(lines[k - 1], Line(names, events[k]))
                      ELSE lines[k - 1]
    BY DEF IsTelling
  <1>3. 0 \in 0 .. n /\ \A k \in 1 .. n : k \in 0 .. n /\ k # 0
    BY <1>1
  <1>4. QED BY <1>2, <1>3

\* The lines for any part of the events are lines for events.
LEMMA LinesType ==
    ASSUME NEW S, NEW events \in Seq(S), NEW names, NEW lines, IsTelling(lines, names, events)
    PROVE  \A k \in 0 .. Len(events) : lines[k] \in Seq(Told(names, events))
  <1> DEFINE n == Len(events)
             T == Seq(Told(names, events))
             P == { k \in 0 .. n : lines[k] \in T }
  <1>1. n \in Nat
    BY LenProperties
  <1>t. /\ lines[0] = <<>>
        /\ \A k \in 1 .. n :
              /\ IsForGui(events[k]) => lines[k] = Append(lines[k - 1], Line(names, events[k]))
              /\ ~IsForGui(events[k]) => lines[k] = lines[k - 1]
    BY TellingStep
  <1>2. 0 \in P
    <2>1. <<>> \in T /\ 0 \in 0 .. n
      BY <1>1, EmptySeq
    <2>2. QED BY <1>t, <2>1
  <1>3. ASSUME NEW k \in 1 .. n, k - 1 \in P PROVE k \in P
    <2>1. lines[k - 1] \in T
      BY <1>3
    <2>2. IsForGui(events[k]) => Line(names, events[k]) \in Told(names, events)
      BY DEF Told
    <2>3. IsForGui(events[k]) => Append(lines[k - 1], Line(names, events[k])) \in T
      BY <2>1, <2>2, AppendProperties
    <2>4. lines[k] \in T
      BY <1>t, <2>1, <2>3
    <2>5. QED BY <2>4
  <1>4. \A k \in 0 .. n : k \in P
    <2> HIDE DEF P, n
    <2>1. QED BY <1>1, <1>2, <1>3, InductionUpTo
  <1>5. QED BY <1>4

\* The lines for no event.
LEMMA LinesOfNothing ==
    ASSUME NEW names
    PROVE  Lines(names, <<>>) = <<>>
  <1>1. <<>> \in Seq(Nat) /\ Len(<<>>) = 0
    BY EmptySeq
  <1>2. PICK lines : IsTelling(lines, names, <<>>) /\ Lines(names, <<>>) = lines[0]
    BY <1>1, LinesDefined
  <1>3. QED BY <1>1, <1>2, TellingStep

\* The GUI may be told of the events of two parts one after the other.
LEMMA LinesConcat ==
    ASSUME NEW S, NEW a \in Seq(S), NEW b \in Seq(S), NEW names
    PROVE  Lines(names, a \o b) = Lines(names, a) \o Lines(names, b)
  <1> DEFINE c == a \o b
             m == Len(a)
             n == Len(b)
  <1>1. /\ m \in Nat /\ n \in Nat /\ c \in Seq(S) /\ Len(c) = m + n
        /\ \A i \in 1 .. m + n : c[i] = IF i <= m THEN a[i] ELSE b[i - m]
    BY LenProperties, ConcatProperties
  <1> HIDE DEF c
  <1>2. PICK f : IsTelling(f, names, a) /\ Lines(names, a) = f[m]
    BY LinesDefined
  <1>3. PICK g : IsTelling(g, names, b) /\ Lines(names, b) = g[n]
    BY LinesDefined
  <1>4. PICK h : IsTelling(h, names, c) /\ Lines(names, c) = h[m + n]
    BY <1>1, LinesDefined
  <1>f. /\ f[0] = <<>>
        /\ \A k \in 1 .. m :
              /\ IsForGui(a[k]) => f[k] = Append(f[k - 1], Line(names, a[k]))
              /\ ~IsForGui(a[k]) => f[k] = f[k - 1]
    BY <1>2, TellingStep
  <1>g. /\ g[0] = <<>>
        /\ \A k \in 1 .. n :
              /\ IsForGui(b[k]) => g[k] = Append(g[k - 1], Line(names, b[k]))
              /\ ~IsForGui(b[k]) => g[k] = g[k - 1]
    BY <1>3, TellingStep
  <1>h. /\ h[0] = <<>>
        /\ \A k \in 1 .. m + n :
              /\ IsForGui(c[k]) => h[k] = Append(h[k - 1], Line(names, c[k]))
              /\ ~IsForGui(c[k]) => h[k] = h[k - 1]
    BY <1>1, <1>4, TellingStep
  <1>5. h[m] = f[m]
    <2> DEFINE P == { k \in 0 .. m : h[k] = f[k] }
    <2>1. 0 \in P
      BY <1>1, <1>f, <1>h
    <2>2. ASSUME NEW k \in 1 .. m, k - 1 \in P PROVE k \in P
      <3>1. k \in 1 .. m + n /\ c[k] = a[k]
        BY <1>1
      <3>2. h[k - 1] = f[k - 1]
        BY <2>2
      <3>3. h[k] = f[k]
        BY <1>f, <1>h, <3>1, <3>2
      <3>4. QED BY <3>3
    <2>3. \A k \in 0 .. m : k \in P
      <3> HIDE DEF P, m
      <3>1. QED BY <1>1, <2>1, <2>2, InductionUpTo
    <2>4. m \in 0 .. m
      BY <1>1
    <2>5. QED BY <2>3, <2>4
  <1>6. PICK L : f[m] \in Seq(L) /\ \A k \in 0 .. n : g[k] \in Seq(L)
    <2> DEFINE L == Told(names, a) \cup Told(names, b)
    <2>1. f[m] \in Seq(Told(names, a)) /\ \A k \in 0 .. n : g[k] \in Seq(Told(names, b))
      <3>1. m \in 0 .. m
        BY <1>1
      <3>2. QED BY <1>2, <1>3, <3>1, LinesType
    <2>2. f[m] \in Seq(L)
      BY <2>1, SeqMonotonic
    <2>3. \A k \in 0 .. n : g[k] \in Seq(L)
      BY <2>1, SeqMonotonic
    <2>4. QED BY <2>2, <2>3
  <1>7. h[m + n] = f[m] \o g[n]
    <2> DEFINE P == { k \in 0 .. n : h[m + k] = f[m] \o g[k] }
    <2>1. 0 \in P
      <3>1. f[m] \o <<>> = f[m] /\ m + 0 = m /\ 0 \in 0 .. n
        BY <1>1, <1>6, ConcatEmptySeq
      <3>2. QED BY <1>5, <1>g, <3>1
    <2>2. ASSUME NEW k \in 1 .. n, k - 1 \in P PROVE k \in P
      <3>1. /\ m + k \in 1 .. m + n /\ c[m + k] = b[k] /\ m + k - 1 = m + (k - 1)
            /\ k - 1 \in 0 .. n /\ k \in 0 .. n
        <4>1. m + k \in 1 .. m + n /\ ~(m + k <= m) /\ m + k - m = k
          BY <1>1
        <4>2. QED BY <1>1, <4>1
      <3>2. h[m + k - 1] = f[m] \o g[k - 1]
        BY <2>2, <3>1
      <3> DEFINE x == Line(names, b[k])
      <3>3. CASE IsForGui(b[k])
        <4>1. h[m + k] = Append(f[m] \o g[k - 1], x)
          <5>1. \A i \in 1 .. m + n : IsForGui(c[i]) => h[i] = Append(h[i - 1], Line(names, c[i]))
            BY <1>h
          <5>2. h[m + k] = Append(h[m + k - 1], Line(names, c[m + k]))
            BY <3>1, <3>3, <5>1
          <5>3. QED BY <3>1, <3>2, <5>2
        <4>2. g[k] = Append(g[k - 1], x)
          BY <1>g, <3>3
        <4>3. Append(f[m] \o g[k - 1], x) = f[m] \o Append(g[k - 1], x)
          <5> DEFINE M == L \cup {x}
          <5>1. f[m] \in Seq(M) /\ g[k - 1] \in Seq(M) /\ x \in M
            BY <1>6, <3>1, SeqMonotonic
          <5> HIDE DEF M, x
          <5>2. f[m] \o g[k - 1] \in Seq(M) /\ <<x>> \in Seq(M)
            BY <5>1, ConcatProperties
          <5>3. /\ Append(f[m] \o g[k - 1], x) = (f[m] \o g[k - 1]) \o <<x>>
                /\ Append(g[k - 1], x) = g[k - 1] \o <<x>>
            BY <5>1, <5>2, AppendIsConcat
          <5>4. (f[m] \o g[k - 1]) \o <<x>> = f[m] \o (g[k - 1] \o <<x>>)
            <6>1. \A s, t, u \in Seq(M) : (s \o t) \o u = s \o (t \o u)
              BY ConcatAssociative
            <6>2. QED BY <5>1, <5>2, <6>1
          <5>5. QED BY <5>3, <5>4
        <4>4. h[m + k] = f[m] \o g[k]
          BY <4>1, <4>2, <4>3
        <4>5. QED BY <3>1, <4>4
      <3>4. CASE ~IsForGui(b[k])
        <4>1. \A i \in 1 .. m + n : ~IsForGui(c[i]) => h[i] = h[i - 1]
          BY <1>h
        <4>2. h[m + k] = h[m + k - 1]
          BY <3>1, <3>4, <4>1
        <4>3. h[m + k] = f[m] \o g[k]
          BY <1>g, <3>2, <3>4, <4>2
        <4>4. QED BY <3>1, <4>3
      <3>5. QED BY <3>3, <3>4
    <2>3. \A k \in 0 .. n : k \in P
      <3> HIDE DEF P, n
      <3>1. QED BY <1>1, <2>1, <2>2, InductionUpTo
    <2>4. n \in 0 .. n
      BY <1>1
    <2>5. QED BY <2>3, <2>4
  <1>8. QED BY <1>2, <1>3, <1>4, <1>5, <1>7 DEF c

-----------------------------------------------------------------------------
(* How send_events cuts the log. *)

\* The datagram that starts after no events of the log.
Datagram(l, no) == SubSeq(l, no + 1, EndOf(l, no))

Datagrams(l) == { Datagram(l, no) : no \in 0 .. Len(l) - 1 }

\* A datagram has one event at least, and there is room for all if there are more.
LEMMA EndOfProperties ==
    ASSUME NEW S, NEW l \in Seq(S), NEW no \in 0 .. Len(l) - 1
    PROVE  /\ EndOf(l, no) \in no + 1 .. Len(l)
           /\ EndOf(l, no) = no + 1 \/ IsRoomFor(Datagram(l, no))
  <1> DEFINE T == { n \in no + 1 .. Len(l) :
                      n = Len(l) \/ ~IsRoomFor(SubSeq(l, no + 1, n + 1)) }
             e == EndOf(l, no)
  <1>1. Len(l) \in Nat /\ no \in Nat
    BY LenProperties
  <1>2. T \in SUBSET Nat /\ Len(l) \in T
    BY <1>1
  <1>3. e \in T /\ \A n \in T : e <= n
    <2>1. T # {}
      BY <1>2
    <2>2. Min(T) \in T /\ \A n \in T : Min(T) <= n
      <3> HIDE DEF T
      <3>1. QED BY <1>2, <2>1, MinIsLeast
    <2>3. e = Min(T)
      BY DEF EndOf
    <2> HIDE DEF T, e
    <2>4. QED BY <2>2, <2>3
  <1>4. e \in no + 1 .. Len(l)
    BY <1>3
  <1>5. ASSUME e # no + 1 PROVE IsRoomFor(SubSeq(l, no + 1, e))
    <2>1. e - 1 \in no + 1 .. Len(l) /\ e - 1 # Len(l) /\ ~(e <= e - 1) /\ e - 1 + 1 = e
      BY <1>1, <1>4, <1>5
    <2>2. e - 1 \notin T
      BY <1>3, <2>1
    <2> HIDE DEF e
    <2>3. QED BY <2>1, <2>2
  <1>6. QED BY <1>4, <1>5 DEF Datagram

\* Some datagram of a sequence of them holds an event.
Holds(parts, event) ==
    \E k \in DOMAIN parts : \E j \in DOMAIN parts[k] : parts[k][j] = event

\* parts are, for each number, the datagrams for the events that follow.
IsCutting(parts, l) ==
    parts = [no \in 0 .. Len(l) |->
                IF no = Len(l) THEN <<>>
                ELSE <<SubSeq(l, no + 1, EndOf(l, no))>> \o parts[EndOf(l, no)]]

\* The function in Parts follows its definition.
LEMMA PartsDefined ==
    ASSUME NEW S, NEW l \in Seq(S)
    PROVE  \E parts : /\ IsCutting(parts, l)
                      /\ \A no \in Nat :
                            Parts(l, no) = IF no > Len(l) - 1 THEN <<>> ELSE parts[no]
  <1> DEFINE n == Len(l)
             T == Seq(Datagrams(l))
             step == [no \in 0 .. n |-> [f \in [0 .. n -> T] |->
                        IF no = n THEN <<>>
                        ELSE <<SubSeq(l, no + 1, EndOf(l, no))>> \o f[EndOf(l, no)]]]
  <1>1. n \in Nat
    BY LenProperties
  <1>2. <<>> \in T /\ T # {}
    BY EmptySeq
  <1>3. ASSUME NEW no \in 0 .. n, no # n
        PROVE  EndOf(l, no) \in no + 1 .. n /\ EndOf(l, no) \in 0 .. n /\ no \in 0 .. n - 1
    <2>1. no \in 0 .. n - 1
      BY <1>1, <1>3
    <2>2. EndOf(l, no) \in no + 1 .. n
      BY <2>1, EndOfProperties
    <2>3. QED BY <1>1, <2>1, <2>2
  <1>4. ASSUME NEW no \in 0 .. n, NEW f \in [0 .. n -> T]
        PROVE  (IF no = n THEN <<>>
                ELSE <<SubSeq(l, no + 1, EndOf(l, no))>> \o f[EndOf(l, no)]) \in T
    <2>1. CASE no = n
      BY <1>2, <2>1
    <2>2. CASE no # n
      <3>1. f[EndOf(l, no)] \in T
        BY <1>3, <2>2
      <3>2. Datagram(l, no) \in Datagrams(l)
        BY <1>3, <2>2 DEF Datagrams
      <3>3. <<Datagram(l, no)>> \in T
        BY <3>2
      <3>4. <<Datagram(l, no)>> \o f[EndOf(l, no)] \in T
        BY <3>1, <3>3, ConcatProperties
      <3>5. QED BY <2>2, <3>4 DEF Datagram
    <2>3. QED BY <2>1, <2>2
  <1>5. step \in Steps(n, T)
    BY <1>4 DEF Steps
  <1>6. LooksAhead(step, n, T)
    <2> SUFFICES ASSUME NEW k \in 0 .. n, NEW f \in [0 .. n -> T], NEW g \in [0 .. n -> T],
                        \A j \in k + 1 .. n : f[j] = g[j]
                 PROVE  step[k][f] = step[k][g]
      BY DEF LooksAhead
    <2>1. k # n => f[EndOf(l, k)] = g[EndOf(l, k)]
      BY <1>3
    <2>2. QED BY <2>1
  <1> HIDE DEF T
  <1>7. PICK f \in [0 .. n -> T] : Obeys(f, step, n)
    <2> HIDE DEF step, n
    <2>1. QED BY <1>1, <1>2, <1>5, <1>6, RecursionFromAboveExists
  <1>8. IsCutting(f, l)
    BY <1>7 DEF Obeys, IsCutting
  <1>9. QED BY <1>8 DEF IsCutting, Parts

\* A request is answered with datagrams of the log, and they hold every event
\* from the requested one on: the cuts lose nothing.
LEMMA PartsProperties ==
    ASSUME NEW S, NEW l \in Seq(S), NEW event_no \in Nat
    PROVE  /\ Parts(l, event_no) \in Seq(Datagrams(l))
           /\ \A i \in event_no + 1 .. Len(l) : Holds(Parts(l, event_no), l[i])
  <1> DEFINE n == Len(l)
             T == Seq(Datagrams(l))
  <1>1. n \in Nat
    BY LenProperties
  <1>2. PICK parts : /\ IsCutting(parts, l)
                     /\ \A no \in Nat : Parts(l, no) = IF no > n - 1 THEN <<>> ELSE parts[no]
    BY PartsDefined
  <1> DEFINE Good(no) == parts[no] \in T /\ \A i \in no + 1 .. n : Holds(parts[no], l[i])
             P == { d \in 0 .. n : \A no \in n - d .. n : Good(no) }
  <1>3. <<>> \in T
    BY EmptySeq
  <1>4. parts[n] = <<>> /\ \A no \in 0 .. n - 1 :
           parts[no] = <<SubSeq(l, no + 1, EndOf(l, no))>> \o parts[EndOf(l, no)]
    <2>1. \A no \in 0 .. n : parts[no] =
             IF no = n THEN <<>>
             ELSE <<SubSeq(l, no + 1, EndOf(l, no))>> \o parts[EndOf(l, no)]
      BY <1>2 DEF IsCutting
    <2>2. n \in 0 .. n /\ \A no \in 0 .. n - 1 : no \in 0 .. n /\ no # n
      BY <1>1
    <2>3. QED BY <2>1, <2>2
  <1>5. Good(n)
    BY <1>1, <1>3, <1>4
  <1>6. ASSUME NEW no \in 0 .. n - 1, Good(EndOf(l, no)) PROVE Good(no)
    <2> DEFINE e == EndOf(l, no)
               p == SubSeq(l, no + 1, e)
    <2>1. e \in no + 1 .. n /\ no \in Nat
      BY <1>1, EndOfProperties
    <2>2. parts[e] \in T /\ \A i \in e + 1 .. n : Holds(parts[e], l[i])
      BY <1>6
    <2>3. p \in Datagrams(l)
      BY DEF Datagrams, Datagram
    <2>4. parts[no] = <<p>> \o parts[e]
      BY <1>4
    <2>5. Len(p) = e - no /\ DOMAIN p = 1 .. e - no /\ \A j \in 1 .. e - no : p[j] = l[no + j]
      <3>1. \A i \in no + 1 .. e : l[i] \in S
        BY <1>1, <2>1, ElementOfSeq
      <3>2. /\ SubSeq(l, no + 1, e) \in Seq(S)
            /\ Len(SubSeq(l, no + 1, e)) = (IF no + 1 <= e THEN e - (no + 1) + 1 ELSE 0)
            /\ \A j \in 1 .. e - (no + 1) + 1 : SubSeq(l, no + 1, e)[j] = l[no + 1 + j - 1]
        BY <2>1, <3>1, SubSeqProperties
      <3>3. Len(p) = e - no /\ \A j \in 1 .. e - no : p[j] = l[no + j]
        <4> HIDE DEF e
        <4>1. QED BY <2>1, <3>2
      <3>4. QED BY <3>2, <3>3, LenProperties
    <2> HIDE DEF e, p, T
    <2>6. <<p>> \in Seq(Datagrams(l)) /\ Len(<<p>>) = 1 /\ <<p>>[1] = p
      BY <2>3
    <2>7. /\ <<p>> \o parts[e] \in Seq(Datagrams(l))
          /\ Len(<<p>> \o parts[e]) = 1 + Len(parts[e])
          /\ \A k \in 1 .. 1 + Len(parts[e]) :
                (<<p>> \o parts[e])[k] = IF k <= 1 THEN <<p>>[k] ELSE parts[e][k - 1]
      BY <2>2, <2>6, ConcatProperties DEF T
    <2>8. Len(parts[e]) \in Nat /\ DOMAIN parts[e] = 1 .. Len(parts[e])
          /\ DOMAIN (<<p>> \o parts[e]) = 1 .. 1 + Len(parts[e])
      BY <2>2, <2>7, LenProperties DEF T
    <2>9. ASSUME NEW i \in no + 1 .. n PROVE Holds(parts[no], l[i])
      <3>1. CASE i <= e
        <4>1. i - no \in DOMAIN p /\ p[i - no] = l[i]
          <5>1. i - no \in 1 .. e - no /\ no + (i - no) = i
            BY <1>1, <2>1, <3>1
          <5>2. QED BY <2>5, <5>1
        <4>2. 1 \in DOMAIN (<<p>> \o parts[e]) /\ (<<p>> \o parts[e])[1] = p
          BY <2>6, <2>7, <2>8
        <4>3. QED BY <2>4, <4>1, <4>2 DEF Holds
      <3>2. CASE ~(i <= e)
        <4>1. i \in e + 1 .. n
          BY <1>1, <2>1, <3>2
        <4>2. PICK k \in DOMAIN parts[e] : \E j \in DOMAIN parts[e][k] : parts[e][k][j] = l[i]
          BY <2>2, <4>1 DEF Holds
        <4>3. k + 1 \in DOMAIN (<<p>> \o parts[e]) /\ (<<p>> \o parts[e])[k + 1] = parts[e][k]
          <5>1. k + 1 \in 1 .. 1 + Len(parts[e]) /\ ~(k + 1 <= 1) /\ k + 1 - 1 = k
            BY <2>8
          <5>2. QED BY <2>7, <2>8, <5>1
        <4>4. QED BY <2>4, <4>2, <4>3 DEF Holds
      <3>3. QED BY <3>1, <3>2
    <2>10. parts[no] \in T
      BY <2>4, <2>7 DEF T
    <2>11. QED BY <2>9, <2>10
  <1>7. \A d \in 0 .. n : d \in P
    <2> HIDE DEF Good
    <2>1. 0 \in P
      BY <1>1, <1>5
    <2>2. ASSUME NEW d \in 1 .. n, d - 1 \in P PROVE d \in P
      <3>1. \A no \in n - (d - 1) .. n : Good(no)
        BY <2>2
      <3>2. n - d \in 0 .. n - 1
        BY <1>1
      <3>3. EndOf(l, n - d) \in n - d + 1 .. n
        BY <3>2, EndOfProperties
      <3>4. Good(EndOf(l, n - d))
        BY <1>1, <3>1, <3>3
      <3>5. Good(n - d)
        BY <1>6, <3>2, <3>4
      <3>6. \A no \in n - d .. n : Good(no)
        BY <1>1, <3>1, <3>5
      <3>7. d \in 0 .. n
        BY <1>1
      <3>8. QED BY <3>6, <3>7
    <2> HIDE DEF P, n
    <2>3. QED BY <1>1, <2>1, <2>2, InductionUpTo
  <1>8. \A no \in 0 .. n : Good(no)
    <2> HIDE DEF Good
    <2>1. n \in P
      BY <1>1, <1>7
    <2>2. QED BY <1>1, <2>1
  <1>9. CASE event_no > n - 1
    <2>1. Parts(l, event_no) = <<>> /\ \A i \in event_no + 1 .. n : FALSE
      BY <1>1, <1>2, <1>9
    <2>2. QED BY <1>3, <2>1
  <1>10. CASE ~(event_no > n - 1)
    <2>1. Parts(l, event_no) = parts[event_no] /\ event_no \in 0 .. n
      BY <1>1, <1>2, <1>10
    <2>2. QED BY <1>8, <2>1
  <1>11. QED BY <1>9, <1>10

-----------------------------------------------------------------------------
(* The games of the script and what the server has of them. *)

\* What the assumptions say of a game.
LEMMA GameFacts ==
    /\ Len(Games) \in Nat /\ DOMAIN Games = 1 .. Len(Games)
    /\ \A k \in 1 .. Len(Games) :
          /\ Games[k].game_id \in Nat /\ Games[k].log \in Seq(Event)
          /\ Len(Games[k].log) \in Nat /\ DOMAIN Games[k].log = 1 .. Len(Games[k].log)
          /\ PlayersOf(Games[k].log) \in Nat /\ PlayersOf(Games[k].log) >= 2
          /\ Len(Games[k].log) > PlayersOf(Games[k].log)
  <1>1. Games \in Seq([game_id : Nat, log : Seq(Event)])
    BY DeliveryAssumption DEF DeliveryAssumption
  <1>2. Len(Games) \in Nat /\ DOMAIN Games = 1 .. Len(Games)
    BY <1>1, LenProperties
  <1>3. ASSUME NEW k \in 1 .. Len(Games)
        PROVE  /\ Games[k].game_id \in Nat /\ Games[k].log \in Seq(Event)
               /\ Len(Games[k].log) \in Nat /\ DOMAIN Games[k].log = 1 .. Len(Games[k].log)
               /\ PlayersOf(Games[k].log) \in Nat /\ PlayersOf(Games[k].log) >= 2
               /\ Len(Games[k].log) > PlayersOf(Games[k].log)
    <2> DEFINE l == Games[k].log
    <2>1. Games[k] \in [game_id : Nat, log : Seq(Event)]
      BY <1>1, ElementOfSeq
    <2>2. Games[k].game_id \in Nat /\ l \in Seq(Event)
      BY <2>1
    <2>3. Len(l) \in Nat /\ DOMAIN l = 1 .. Len(l)
      BY <2>2, LenProperties
    <2>4. Opened(l) /\ EveryoneEnters(l)
      BY <1>2, DeliveryAssumption DEF DeliveryAssumption, WellFormed
    <2>5. l # <<>> /\ PlayersOf(l) >= 2 /\ Len(l) > PlayersOf(l) /\ l[1].type = "NEW_GAME"
      <3>1. l # <<>>
        BY <2>4 DEF Opened
      <3>2. 1 \in DOMAIN l
        BY <2>2, <2>3, <3>1, EmptySeq
      <3>3. l[1].type = "NEW_GAME" /\ PlayersOf(l) >= 2
        BY <2>4, <3>2 DEF Opened
      <3>4. Len(l) > PlayersOf(l)
        BY <2>4 DEF EveryoneEnters
      <3>5. QED BY <3>1, <3>3, <3>4
    <2>6. l[1] \in Event
      <3>1. 1 \in 1 .. Len(l)
        BY <2>2, <2>3, <2>5, EmptySeq
      <3>2. QED BY <2>2, <3>1, ElementOfSeq
    <2>7. l[1].players_names \in Seq(Name)
      BY <2>5, <2>6 DEF Event
    <2>8. PlayersOf(l) \in Nat
      BY <2>7, LenProperties DEF PlayersOf
    <2>9. QED BY <2>2, <2>3, <2>5, <2>8
  <1>4. QED BY <1>2, <1>3

\* What the grammar says of an event of a game.
LEMMA EventFacts ==
    ASSUME NEW k \in 1 .. Len(Games), NEW i \in 1 .. Len(Games[k].log)
    PROVE  LET event == Games[k].log[i] IN
           /\ event \in Event
           /\ event.event_no = i - 1
           /\ event.type = "NEW_GAME" <=> i = 1
           /\ IsMove(event) => event.player_number < PlayersOf(Games[k].log)
  <1> DEFINE l == Games[k].log
             event == l[i]
  <1>1. l \in Seq(Event) /\ DOMAIN l = 1 .. Len(l) /\ PlayersOf(l) \in Nat
    BY GameFacts
  <1>2. event \in Event
    BY <1>1, ElementOfSeq
  <1>3. WellFormed(l)
    BY GameFacts, DeliveryAssumption DEF DeliveryAssumption
  <1>4. event.event_no = i - 1
    BY <1>1, <1>3 DEF WellFormed, Numbered
  <1>5. event.type = "NEW_GAME" <=> i = 1
    BY <1>1, <1>3 DEF WellFormed, Opened
  <1>6. IsMove(event) => event.player_number < PlayersOf(l)
    <2>1. IsMove(event) => event.player_number \in 0 .. PlayersOf(l) - 1
      BY <1>1, <1>3 DEF WellFormed, MentionsPlayers
    <2>2. QED BY <1>1, <2>1
  <1>7. QED BY <1>2, <1>4, <1>5, <1>6

\* What the storage takes of the new events is some of them.
LEMMA StoredProperties ==
    ASSUME NEW S, NEW new \in Seq(S), NEW stored \in Stored(new)
    PROVE  /\ stored \in Seq(S) /\ Len(stored) \in 0 .. Len(new)
           /\ \A i \in 1 .. Len(stored) : \E j \in 1 .. Len(new) : stored[i] = new[j]
  <1> DEFINE n == Len(new)
  <1>1. n \in Nat /\ DOMAIN new = 1 .. n /\ \A j \in 1 .. n : new[j] \in S
    BY LenProperties, ElementOfSeq
  <1>2. PICK kept \in SUBSET DOMAIN new : \E e \in Enumerations(kept) :
                  stored = [k \in DOMAIN e |-> new[e[k]]]
    BY DEF Stored
  <1>3. PICK e \in Enumerations(kept) : stored = [k \in DOMAIN e |-> new[e[k]]]
    BY <1>2
  <1>4. kept \in SUBSET (1 .. n)
    BY <1>1
  <1> HIDE DEF n
  <1>5. /\ IsFiniteSet(kept) /\ Cardinality(kept) \in Nat
        /\ e \in Seq(kept) /\ Len(e) = Cardinality(kept)
        /\ DOMAIN e = 1 .. Cardinality(kept)
    BY <1>1, <1>4, EnumerationProperties
  <1>6. Cardinality(kept) <= n
    <2>1. IsFiniteSet(1 .. n) /\ Cardinality(1 .. n) = n
      <3>1. /\ IsFiniteSet(1 .. n)
            /\ Cardinality(1 .. n) = (IF 1 > n THEN 0 ELSE n - 1 + 1)
        BY <1>1, FS_Interval
      <3>2. QED BY <1>1, <3>1
    <2>2. QED BY <1>4, <2>1, FS_Subset
  <1>7. \A i \in 1 .. Cardinality(kept) : e[i] \in 1 .. n
    <2>1. \A i \in 1 .. Cardinality(kept) : e[i] \in kept
      BY <1>5, ElementOfSeq
    <2>2. QED BY <1>4, <2>1
  <1>8. stored \in [1 .. Cardinality(kept) -> S]
    BY <1>1, <1>3, <1>5, <1>7
  <1>9. stored \in Seq(S) /\ Len(stored) = Cardinality(kept)
    BY <1>5, <1>8, FunctionIsSeq
  <1>10. \A i \in 1 .. Len(stored) : stored[i] = new[e[i]] /\ e[i] \in 1 .. n
    BY <1>3, <1>5, <1>7, <1>9
  <1>11. Len(stored) \in 0 .. n
    BY <1>1, <1>5, <1>6, <1>9
  <1>12. QED BY <1>9, <1>10, <1>11 DEF n

\* A datagram of a log is not empty and its events are those of the log.
LEMMA DatagramProperties ==
    ASSUME NEW S, NEW l \in Seq(S), NEW p \in Datagrams(l)
    PROVE  /\ p \in Seq(S) /\ p # <<>> /\ Len(l) > 0
           /\ \A i \in 1 .. Len(p) : \E j \in 1 .. Len(l) : p[i] = l[j]
           /\ IsRoomFor(p) \/ \E j \in 1 .. Len(l) : p = <<l[j]>>
  <1>1. Len(l) \in Nat /\ \A j \in 1 .. Len(l) : l[j] \in S
    BY LenProperties, ElementOfSeq
  <1>2. PICK no \in 0 .. Len(l) - 1 : p = Datagram(l, no)
    BY DEF Datagrams
  <1> DEFINE e == EndOf(l, no)
  <1>3. e \in no + 1 .. Len(l) /\ (e = no + 1 \/ IsRoomFor(Datagram(l, no)))
    BY EndOfProperties
  <1>4. p = SubSeq(l, no + 1, e)
    BY <1>2 DEF Datagram
  <1> HIDE DEF e
  <1>5. /\ p \in Seq(S) /\ Len(p) = e - no
        /\ \A i \in 1 .. e - no : p[i] = l[no + i]
    <2>1. \A i \in no + 1 .. e : l[i] \in S
      BY <1>1, <1>3
    <2>2. /\ SubSeq(l, no + 1, e) \in Seq(S)
          /\ Len(SubSeq(l, no + 1, e)) = (IF no + 1 <= e THEN e - (no + 1) + 1 ELSE 0)
          /\ \A i \in 1 .. e - (no + 1) + 1 : SubSeq(l, no + 1, e)[i] = l[no + 1 + i - 1]
      BY <1>1, <1>3, <2>1, SubSeqProperties
    <2>3. Len(p) = e - no
      BY <1>1, <1>3, <1>4, <2>2
    <2>4. ASSUME NEW i \in 1 .. e - no PROVE p[i] = l[no + i]
      <3>1. i \in 1 .. e - (no + 1) + 1 /\ no + 1 + i - 1 = no + i
        BY <1>1, <1>3
      <3>2. QED BY <1>4, <2>2, <3>1
    <2>5. QED BY <1>4, <2>2, <2>3, <2>4
  <1>6. p # <<>> /\ Len(l) > 0
    BY <1>1, <1>3, <1>5, EmptySeq
  <1>7. \A i \in 1 .. Len(p) : \E j \in 1 .. Len(l) : p[i] = l[j]
    <2>1. \A i \in 1 .. e - no : no + i \in 1 .. Len(l)
      BY <1>1, <1>3
    <2>2. QED BY <1>5, <2>1
  <1>8. ASSUME ~IsRoomFor(p) PROVE \E j \in 1 .. Len(l) : p = <<l[j]>>
    <2>1. e = no + 1
      BY <1>2, <1>3, <1>8
    <2>2. no + 1 \in 1 .. Len(l)
      BY <1>1
    <2>3. Len(p) = 1 /\ p[1] = l[no + 1]
      BY <1>1, <1>5, <2>1
    <2> DEFINE q == <<l[no + 1]>>
    <2>4. q \in Seq(S) /\ Len(q) = 1 /\ q[1] = l[no + 1]
      BY <1>1, <2>2
    <2>5. p = q
      <3> HIDE DEF q
      <3>1. \A i \in 1 .. Len(p) : p[i] = q[i]
        BY <2>3, <2>4
      <3>2. Len(p) = Len(q)
        BY <2>3, <2>4
      <3>3. QED BY <1>5, <2>4, <3>1, <3>2, SeqEqual
    <2>6. QED BY <2>2, <2>5
  <1>9. QED BY <1>5, <1>6, <1>7, <1>8

-----------------------------------------------------------------------------
(* The inductive invariant of the server and of the network. *)

\* How many events of game k there have been.
Seen(k) == IF k = game THEN played ELSE Len(Games[k].log)

HasHappened(k, event) == \E i \in 1 .. Seen(k) : event = Games[k].log[i]

\* What the server sends are events that have happened in its game.
ServerInv ==
    /\ game \in 0 .. Len(Games) /\ played \in Nat
    /\ game = 0 => played = 0
    /\ game > 0 => played <= Len(Games[game].log)
    /\ log \in Seq(Event) /\ played - Len(log) \in 0 .. PushFailures
    /\ \A i \in 1 .. Len(log) : HasHappened(game, log[i])
    /\ connected \in BOOLEAN

IsOfGame(m, k) ==
    /\ m.game_id = Games[k].game_id
    /\ \A i \in 1 .. Len(m.events) : HasHappened(k, m.events[i])

\* A datagram is a request, or has events of one game that have happened.
IsSane(m) ==
    /\ m.kind = "REQUEST" => m.next_expected_event_no \in Nat
    /\ m.kind = "EVENTS" =>
           /\ m.events \in Seq(Event) /\ m.events # <<>>
           /\ \E k \in 1 .. game : IsOfGame(m, k)

NetworkInv == \A m \in network : IsSane(m)

\* What a step of the server may do to the games.
Advances ==
    /\ game' \in {game, game + 1} /\ played' \in Nat
    /\ game' = game => played <= played'

\* The bounds are numbers.
LEMMA BoundsAreNumbers ==
    {MaxSize, PushFailures, NetBound, Duplicates} \subseteq Nat
  BY DeliveryAssumption DEF DeliveryAssumption

\* No game ever has fewer events.
LEMMA SeenGrows ==
    ASSUME ServerInv, Advances, NEW k \in 1 .. game
    PROVE  /\ k \in 1 .. Len(Games) /\ k \in 1 .. game'
           /\ Seen(k) \in Nat /\ Seen(k)' \in Nat
           /\ Seen(k) <= Seen(k)' /\ Seen(k) <= Len(Games[k].log)
  <1>1. game \in Nat /\ played \in Nat /\ game \in 0 .. Len(Games)
    BY GameFacts DEF ServerInv
  <1>2. k \in 1 .. Len(Games) /\ game > 0 /\ k \in 1 .. game'
    BY <1>1, GameFacts DEF Advances
  <1>3. Len(Games[k].log) \in Nat
    BY <1>2, GameFacts
  <1>4. CASE k = game
    <2>1. Seen(k) = played /\ played <= Len(Games[k].log)
      BY <1>2, <1>4 DEF ServerInv, Seen
    <2>2. CASE game' = game
      <3>1. Seen(k)' = played' /\ played' \in Nat /\ played <= played'
        BY <1>4, <2>2 DEF Advances, Seen
      <3>2. QED BY <1>1, <1>2, <2>1, <3>1
    <2>3. CASE game' # game
      <3>1. Seen(k)' = Len(Games[k].log)
        BY <1>1, <1>4, <2>3 DEF Advances, Seen
      <3>2. QED BY <1>1, <1>2, <1>3, <2>1, <3>1
    <2>4. QED BY <2>2, <2>3
  <1>5. CASE k # game
    <2>1. k # game'
      BY <1>1, <1>5 DEF Advances
    <2>2. QED BY <1>2, <1>3, <1>5, <2>1 DEF Seen
  <1>6. QED BY <1>4, <1>5

\* An event that has happened stays one.
LEMMA HappenedStays ==
    ASSUME ServerInv, Advances, NEW k \in 1 .. game, NEW event, HasHappened(k, event)
    PROVE  HasHappened(k, event)'
  <1>1. Seen(k) \in Nat /\ Seen(k)' \in Nat /\ Seen(k) <= Seen(k)'
    BY SeenGrows
  <1>2. PICK i \in 1 .. Seen(k) : event = Games[k].log[i]
    BY DEF HasHappened
  <1>3. i \in 1 .. Seen(k)'
    BY <1>1, <1>2
  <1>4. QED BY <1>2, <1>3 DEF HasHappened

\* A datagram on its way keeps telling what has happened.
LEMMA SaneStays ==
    ASSUME ServerInv, Advances, NEW m, IsSane(m)
    PROVE  IsSane(m)'
  <1>1. CASE m.kind = "EVENTS"
    <2>1. /\ m.events \in Seq(Event) /\ m.events # <<>>
          /\ \E k \in 1 .. game : IsOfGame(m, k)
      BY <1>1 DEF IsSane
    <2>2. PICK k \in 1 .. game : IsOfGame(m, k)
      BY <2>1
    <2>3. \A i \in 1 .. Len(m.events) : HasHappened(k, m.events[i])'
      BY <2>2, HappenedStays DEF IsOfGame
    <2>4. IsOfGame(m, k)'
      BY <2>2, <2>3 DEF IsOfGame
    <2>5. k \in 1 .. game'
      <3>1. game \in Nat
        BY GameFacts DEF ServerInv
      <3>2. QED BY <3>1 DEF Advances
    <2>6. m.kind # "REQUEST"
      BY <1>1
    <2>7. QED BY <2>1, <2>4, <2>5, <2>6 DEF IsSane
  <1>2. CASE m.kind # "EVENTS"
    BY <1>2 DEF IsSane
  <1>3. QED BY <1>1, <1>2

\* What the server sends tells what has happened.
LEMMA SentIsSane ==
    ASSUME ServerInv', NEW part, part \in Datagrams(log'), NEW m, m = Message(game_id', part)
    PROVE  IsSane(m)'
  <1>1. log' \in Seq(Event)
    BY DEF ServerInv
  <1>2. /\ part \in Seq(Event) /\ part # <<>> /\ Len(log') > 0
        /\ \A i \in 1 .. Len(part) : \E j \in 1 .. Len(log') : part[i] = log'[j]
    BY <1>1, DatagramProperties
  <1>3. game' \in 1 .. Len(Games)
    <2>1. Len(log') \in Nat /\ PushFailures \in Nat
      BY <1>1, LenProperties, BoundsAreNumbers
    <2>2. game' # 0
      BY <1>2, <2>1 DEF ServerInv
    <2>3. QED BY <2>2, GameFacts DEF ServerInv
  <1>4. \A i \in 1 .. Len(part) : HasHappened(game, part[i])'
    BY <1>2 DEF ServerInv
  <1>5. m.kind = "EVENTS" /\ m.events = part /\ m.game_id = Games[game'].game_id
    <2>1. game' # 0
      BY <1>3
    <2>2. QED BY <2>1 DEF Message, game_id
  <1>6. IsOfGame(m, game)'
    BY <1>4, <1>5 DEF IsOfGame
  <1>7. game' \in 1 .. game'
    BY <1>3
  <1>8. QED BY <1>2, <1>5, <1>6, <1>7 DEF IsSane

\* handle_round: the storage gets events that happen.
LEMMA PublishKeeps ==
    ASSUME ServerInv, NEW before \in Nat, NEW n \in Int,
           game' \in 1 .. Len(Games), before < n, n <= Len(Games[game'].log),
           \/ game' = game /\ before = played
           \/ game' = game + 1 /\ before = 0,
           Publish(before, n)
    PROVE  ServerInv' /\ Advances
  <1> DEFINE l == Games[game'].log
             new == SubSeq(l, before + 1, n)
             base == IF before = 0 THEN <<>> ELSE log
  <1>1. game \in Nat /\ played \in Nat /\ log \in Seq(Event) /\ Len(log) \in Nat
        /\ PushFailures \in Nat /\ Len(log) <= played
    <2>1. PushFailures \in Nat /\ log \in Seq(Event) /\ Len(log) \in Nat
      BY BoundsAreNumbers, LenProperties DEF ServerInv
    <2>2. QED BY <2>1, GameFacts DEF ServerInv
  <1>2. l \in Seq(Event) /\ Len(l) \in Nat /\ \A i \in 1 .. Len(l) : l[i] \in Event
    BY GameFacts, ElementOfSeq
  <1>3. PICK stored \in Stored(new) : log' = base \o stored
    BY DEF Publish
  <1>4. played' = n /\ n - Len(log') <= PushFailures
    BY DEF Publish
  <1>5. UNCHANGED <<connected, duplicates, client, has_exited>>
    BY DEF Publish
  <1>6. /\ new \in Seq(Event) /\ Len(new) = n - before
        /\ \A j \in 1 .. n - before : new[j] = l[before + j]
    <2>1. \A i \in before + 1 .. n : l[i] \in Event
      BY <1>2
    <2>2. /\ SubSeq(l, before + 1, n) \in Seq(Event)
          /\ Len(SubSeq(l, before + 1, n)) = (IF before + 1 <= n THEN n - (before + 1) + 1 ELSE 0)
          /\ \A i \in 1 .. n - (before + 1) + 1 : SubSeq(l, before + 1, n)[i] = l[before + 1 + i - 1]
      BY <2>1, SubSeqProperties
    <2>3. Len(new) = n - before
      BY <2>2
    <2>4. ASSUME NEW j \in 1 .. n - before PROVE new[j] = l[before + j]
      <3>1. j \in 1 .. n - (before + 1) + 1 /\ before + 1 + j - 1 = before + j
        OBVIOUS
      <3>2. QED BY <2>2, <3>1
    <2>5. QED BY <2>2, <2>3, <2>4
  <1> HIDE DEF new
  <1>7. /\ stored \in Seq(Event) /\ Len(stored) \in 0 .. n - before
        /\ \A i \in 1 .. Len(stored) : \E j \in 1 .. n - before : stored[i] = new[j]
    <2>1. /\ stored \in Seq(Event) /\ Len(stored) \in 0 .. Len(new)
          /\ \A i \in 1 .. Len(stored) : \E j \in 1 .. Len(new) : stored[i] = new[j]
      BY <1>6, StoredProperties
    <2>2. QED BY <1>6, <2>1
  <1>8. Advances
    BY <1>1, <1>4 DEF Advances
  <1>9. base \in Seq(Event) /\ Len(base) \in 0 .. before
        /\ \A i \in 1 .. Len(base) : \E k \in 1 .. n : base[i] = l[k]
    <2>1. CASE before = 0
      <3>1. base = <<>> /\ <<>> \in Seq(Event) /\ Len(<<>>) = 0
        BY <2>1, EmptySeq
      <3> HIDE DEF base
      <3>2. QED BY <2>1, <3>1
    <2>2. CASE before # 0
      <3>1. base = log /\ game' = game /\ before = played
        BY <1>1, <2>2
      <3>2. \A i \in 1 .. Len(log) : \E k \in 1 .. played : log[i] = l[k]
        BY <3>1 DEF ServerInv, HasHappened, Seen
      <3>3. \A k \in 1 .. played : k \in 1 .. n
        BY <3>1
      <3>4. QED BY <1>1, <3>1, <3>2, <3>3
    <2>3. QED BY <2>1, <2>2
  <1> HIDE DEF base
  <1>10. /\ log' \in Seq(Event) /\ Len(log') = Len(base) + Len(stored)
         /\ \A i \in 1 .. Len(base) + Len(stored) :
               log'[i] = IF i <= Len(base) THEN base[i] ELSE stored[i - Len(base)]
    BY <1>3, <1>7, <1>9, ConcatProperties
  <1>11. ASSUME NEW i \in 1 .. Len(log') PROVE \E k \in 1 .. n : log'[i] = l[k]
    <2>1. CASE i <= Len(base)
      <3>1. i \in 1 .. Len(base) /\ log'[i] = base[i]
        BY <1>7, <1>9, <1>10, <2>1
      <3>2. QED BY <1>9, <3>1
    <2>2. CASE ~(i <= Len(base))
      <3>1. i - Len(base) \in 1 .. Len(stored) /\ log'[i] = stored[i - Len(base)]
        BY <1>7, <1>9, <1>10, <2>2
      <3>2. PICK j \in 1 .. n - before : stored[i - Len(base)] = new[j]
        BY <1>7, <3>1
      <3>3. new[j] = l[before + j] /\ before + j \in 1 .. n
        BY <1>6
      <3>4. QED BY <3>1, <3>2, <3>3
    <2>3. QED BY <2>1, <2>2
  <1>12. ServerInv'
    <2>1. game' \in 0 .. Len(Games) /\ game' # 0 /\ played' \in Nat
      BY <1>4, GameFacts
    <2>2. played' <= Len(Games[game'].log)
      BY <1>4
    <2>3. played' - Len(log') \in 0 .. PushFailures
      BY <1>1, <1>4, <1>7, <1>9, <1>10
    <2>4. \A i \in 1 .. Len(log') : \E k \in 1 .. played' : log'[i] = Games[game'].log[k]
      BY <1>4, <1>11
    <2>5. (\A i \in 1 .. Len(log) : HasHappened(game, log[i]))'
      BY <2>4 DEF HasHappened, Seen
    <2>6. connected' \in BOOLEAN
      BY <1>5 DEF ServerInv
    <2>7. QED BY <1>10, <2>1, <2>2, <2>3, <2>5, <2>6 DEF ServerInv
  <1>13. QED BY <1>8, <1>12

\* The server's part of the invariant.
LEMMA ServerStep ==
    ASSUME ServerInv, [Next]_vars
    PROVE  ServerInv' /\ Advances
  <1>1. /\ game \in Nat /\ played \in Nat /\ game \in 0 .. Len(Games) /\ Len(Games) \in Nat
    BY GameFacts DEF ServerInv
  <1>2. ASSUME UNCHANGED <<game, played, log>>, connected' \in BOOLEAN
        PROVE  ServerInv' /\ Advances
    BY <1>1, <1>2 DEF ServerInv, Advances, HasHappened, Seen
  <1>3. CASE BeginGame
    <2>1. game' = game + 1 /\ game < Len(Games)
          /\ Publish(0, 1 + PlayersOf(Games[game'].log))
      BY <1>3 DEF BeginGame
    <2>2. game' \in 1 .. Len(Games)
      BY <1>1, <2>1
    <2>3. /\ PlayersOf(Games[game'].log) \in Nat
          /\ Len(Games[game'].log) \in Nat
          /\ Len(Games[game'].log) > PlayersOf(Games[game'].log)
      BY <2>2, GameFacts
    <2> DEFINE n == 1 + PlayersOf(Games[game'].log)
    <2>4. n \in Int /\ 0 < n /\ n <= Len(Games[game'].log)
      BY <2>3
    <2>5. Publish(0, n)
      BY <2>1
    <2> HIDE DEF n
    <2>6. QED BY <2>1, <2>2, <2>4, <2>5, PublishKeeps
  <1>4. CASE PlayRound
    <2>1. game > 0 /\ game' = game
      BY <1>4 DEF PlayRound, IsPlaying
    <2>2. PICK n \in played + 1 .. Len(Games[game].log) : Publish(played, n)
      BY <1>4 DEF PlayRound
    <2>3. game' \in 1 .. Len(Games) /\ Len(Games[game].log) \in Nat
      BY <1>1, <2>1, GameFacts
    <2>4. n \in Int /\ played < n /\ n <= Len(Games[game'].log)
      BY <1>1, <2>1, <2>2, <2>3
    <2>5. QED BY <1>1, <2>1, <2>2, <2>3, <2>4, PublishKeeps
  <1>5. CASE handle_client_request \/ DropClient
    <2>1. UNCHANGED <<game, played, log>> /\ connected' \in BOOLEAN
      BY <1>5 DEF handle_client_request, Answer, DropClient
    <2>2. QED BY <1>2, <2>1
  <1>6. CASE Lose \/ handle_tick \/ Listen \/ UNCHANGED vars
    <2>1. UNCHANGED <<game, played, log, connected>>
      BY <1>6 DEF Lose, handle_tick, Listen, handle_server_message, vars
    <2>2. connected' \in BOOLEAN
      BY <2>1 DEF ServerInv
    <2>3. QED BY <1>2, <2>1, <2>2
  <1>7. QED BY <1>3, <1>4, <1>5, <1>6 DEF Next, Round

\* A datagram that was not on its way is a request of the client, or one that the
\* server has cut from its log.
LEMMA NewDatagrams ==
    ASSUME ServerInv', NetworkInv, played \in Nat, client.next_expected_event_no \in Nat,
           [Next]_vars, NEW m \in network' \ network
    PROVE  \/ m.kind = "REQUEST" /\ m.kind # "EVENTS" /\ m.next_expected_event_no \in Nat
           \/ \E part \in Datagrams(log') : m = Message(game_id', part)
  <1>1. log' \in Seq(Event)
    BY DEF ServerInv
  <1>2. ASSUME NEW net, NEW no \in Nat, NEW sent \in 0 .. Len(Parts(log', no)),
               m \notin net, send_events(net, game_id', Parts(log', no), sent)
        PROVE  \E part \in Datagrams(log') : m = Message(game_id', part)
    <2> DEFINE parts == Parts(log', no)
    <2>1. PICK k \in 1 .. sent : m = Message(game_id', parts[k])
      BY <1>2 DEF send_events
    <2>2. parts \in Seq(Datagrams(log'))
      BY <1>1, PartsProperties
    <2> HIDE DEF parts
    <2>3. k \in 1 .. Len(parts)
      BY <2>2, LenProperties DEF parts
    <2>4. parts[k] \in Datagrams(log')
      BY <2>2, <2>3, ElementOfSeq
    <2>5. QED BY <2>1, <2>4
  <1>3. ASSUME NEW before \in Nat, NEW n, Publish(before, n)
        PROVE  \E part \in Datagrams(log') : m = Message(game_id', part)
    <2>1. network' # network
      OBVIOUS
    <2>2. PICK sent \in 0 .. Len(Parts(log', before)) :
                  send_events(network, game_id', Parts(log', before), sent)
      BY <1>3, <2>1 DEF Publish
    <2>3. QED BY <1>2, <2>2
  <1>4. CASE Round
    <2>1. CASE BeginGame
      BY <1>3, <2>1 DEF BeginGame
    <2>2. CASE PlayRound
      BY <1>3, <2>2 DEF PlayRound
    <2>3. QED BY <1>4, <2>1, <2>2 DEF Round
  <1>5. CASE handle_client_request
    <2>1. PICK request \in Requests : Answer(request, 0)
      BY <1>5 DEF handle_client_request
    <2>2. UNCHANGED <<game, log>>
      BY <2>1 DEF Answer
    <2> DEFINE no == request.next_expected_event_no
    <2>3. PICK sent \in 0 .. Len(Requested(no)) :
                  send_events(network \ {request}, game_id, Requested(no), sent)
      BY <2>1 DEF Answer
    <2>4. no \in Nat
      BY DEF NetworkInv, IsSane, Requests
    <2>5. game_id' = game_id /\ Requested(no) = Parts(log', no)
      BY <2>2 DEF game_id, Requested
    <2> HIDE DEF no
    <2>6. m \notin network \ {request}
      OBVIOUS
    <2>7. QED BY <1>2, <2>3, <2>4, <2>5, <2>6
  <1>6. CASE DropClient \/ Lose \/ Listen \/ UNCHANGED vars
    <2>1. network' \subseteq network
      BY <1>6 DEF DropClient, Lose, Listen, handle_server_message, Receive, vars
    <2>2. QED BY <2>1
  <1>7. CASE handle_tick
    <2>1. m = Request(client.next_expected_event_no)
      BY <1>7 DEF handle_tick
    <2>2. QED BY <2>1 DEF Request
  <1>8. QED BY <1>4, <1>5, <1>6, <1>7 DEF Next

\* The network's part of the invariant.
LEMMA NetworkStep ==
    ASSUME ServerInv, NetworkInv, duplicates \in 0 .. Duplicates,
           client.next_expected_event_no \in Nat, [Next]_vars
    PROVE  NetworkInv' /\ duplicates' \in 0 .. Duplicates
  <1>1. ServerInv' /\ Advances
    BY ServerStep
  <1>2. ASSUME NEW m \in network' PROVE IsSane(m)'
    <2>1. CASE m \in network
      BY <1>1, <2>1, SaneStays DEF NetworkInv
    <2>2. CASE m \notin network
      <3>1. CASE m.kind = "REQUEST" /\ m.kind # "EVENTS" /\ m.next_expected_event_no \in Nat
        BY <3>1 DEF IsSane
      <3>2. CASE \E part \in Datagrams(log') : m = Message(game_id', part)
        BY <1>1, <3>2, SentIsSane
      <3>3. played \in Nat
        BY DEF ServerInv
      <3>4. QED BY <1>1, <2>2, <3>1, <3>2, <3>3, NewDatagrams
    <2>3. QED BY <2>1, <2>2
  <1>3. duplicates' \in 0 .. Duplicates
    <2>1. Duplicates \in Nat
      BY BoundsAreNumbers
    <2>2. CASE Round
      <3>1. UNCHANGED duplicates
        BY <2>2 DEF Round, BeginGame, PlayRound, Publish
      <3>2. QED BY <3>1
    <2>3. CASE handle_client_request \/ DropClient \/ Lose \/ handle_tick \/ UNCHANGED vars
      <3>1. UNCHANGED duplicates
        BY <2>3 DEF handle_client_request, Answer, DropClient, Lose, handle_tick, vars
      <3>2. QED BY <3>1
    <2>4. CASE Listen
      BY <2>1, <2>4 DEF Listen, handle_server_message, Receive
    <2>5. QED BY <2>2, <2>3, <2>4 DEF Next
  <1>4. QED BY <1>2, <1>3 DEF NetworkInv

-----------------------------------------------------------------------------
(* The client. *)

\* What the fields of an event may be.
LEMMA FieldsOfEvent ==
    ASSUME NEW e \in Event
    PROVE  /\ e.event_no \in Nat
           /\ e.type \in {"NEW_GAME", "PIXEL", "ELIMINATED", "GAME_OVER"}
           /\ e.type = "NEW_GAME" =>
                 e.players_names \in Seq(Name) /\ e.max_x = Width /\ e.max_y = Height
           /\ IsMove(e) => e.player_number \in Nat
           /\ e.type = "PIXEL" => e.pixel \in Pixels
  BY DEF Event, IsMove

\* The loop over the events of a datagram stops where it has to and no sooner.
LEMMA TakenProperties ==
    ASSUME NEW c, NEW S, NEW events \in Seq(S), NEW broken
    PROVE  LET n == Taken(c, events, broken) IN
           /\ n \in 0 .. Len(events)
           /\ \A i \in 0 .. n - 1 : ~IsStopped(c, events, i, broken)
           /\ n = Len(events) \/ IsStopped(c, events, n, broken)
  <1> DEFINE T == { n \in 0 .. Len(events) : n = Len(events) \/ IsStopped(c, events, n, broken) }
             n == Taken(c, events, broken)
  <1>1. Len(events) \in Nat
    BY LenProperties
  <1>2. T \in SUBSET Nat /\ T # {}
    BY <1>1
  <1>3. n \in T /\ \A i \in T : n <= i
    <2>1. n = Min(T)
      BY DEF Taken
    <2> HIDE DEF T, n
    <2>2. QED BY <1>2, <2>1, MinIsLeast
  <1>4. n \in 0 .. Len(events)
    BY <1>3
  <1>5. n = Len(events) \/ IsStopped(c, events, n, broken)
    BY <1>3
  <1>6. ASSUME NEW i \in 0 .. n - 1 PROVE ~IsStopped(c, events, i, broken)
    <2> HIDE DEF n
    <2>1. i \in 0 .. Len(events) /\ ~(n <= i)
      BY <1>1, <1>4
    <2>2. i \notin T
      BY <1>3, <2>1
    <2>3. QED BY <2>1, <2>2
  <1>7. QED BY <1>4, <1>5, <1>6

\* What a line is of, if the event is not illegal.
LEMMA LineType ==
    ASSUME NEW names \in Seq(Name), NEW e \in Event, IsForGui(e),
           IsMove(e) => e.player_number < Len(names)
    PROVE  Line(names, e) \in GuiLine
  <1>1. e.type \in {"NEW_GAME", "PIXEL", "ELIMINATED"}
    BY FieldsOfEvent DEF IsForGui
  <1>2. CASE e.type = "NEW_GAME"
    <2>1. Line(names, e) = [type |-> e.type, max_x |-> e.max_x, max_y |-> e.max_y,
                            players_names |-> names]
      BY <1>2 DEF Line
    <2>2. e.max_x = Width /\ e.max_y = Height
      BY <1>2, FieldsOfEvent
    <2>3. QED BY <1>2, <2>1, <2>2 DEF GuiLine
  <1>3. ASSUME IsMove(e) PROVE names[e.player_number + 1] \in Name
    <2>1. e.player_number \in Nat /\ e.player_number < Len(names) /\ Len(names) \in Nat
      BY <1>3, FieldsOfEvent, LenProperties
    <2>2. e.player_number + 1 \in 1 .. Len(names)
      BY <2>1
    <2>3. QED BY <2>2, ElementOfSeq
  <1>4. CASE e.type = "PIXEL"
    <2>1. IsMove(e) /\ e.pixel \in Pixels
      BY <1>4, FieldsOfEvent DEF IsMove
    <2>2. Line(names, e) = [type |-> e.type, pixel |-> e.pixel,
                            player_name |-> names[e.player_number + 1]]
      BY <1>4 DEF Line
    <2>3. names[e.player_number + 1] \in Name
      BY <1>3, <2>1
    <2>4. QED BY <1>4, <2>1, <2>2, <2>3 DEF GuiLine
  <1>5. CASE e.type = "ELIMINATED"
    <2>1. IsMove(e)
      BY <1>5 DEF IsMove
    <2>2. Line(names, e) = [type |-> e.type, player_name |-> names[e.player_number + 1]]
      BY <1>5 DEF Line
    <2>3. names[e.player_number + 1] \in Name
      BY <1>3, <2>1
    <2>4. QED BY <1>5, <2>2, <2>3 DEF GuiLine
  <1>6. QED BY <1>1, <1>2, <1>4, <1>5

\* The lines for events that are not illegal are lines of the GUI.
LEMMA LinesAreForGui ==
    ASSUME NEW names \in Seq(Name), NEW events \in Seq(Event),
           \A i \in 1 .. Len(events) :
              IsMove(events[i]) => events[i].player_number < Len(names)
    PROVE  Lines(names, events) \in Seq(GuiLine)
  <1>1. PICK lines : IsTelling(lines, names, events) /\ Lines(names, events) = lines[Len(events)]
    BY LinesDefined
  <1>2. Lines(names, events) \in Seq(Told(names, events))
    <2>1. Len(events) \in 0 .. Len(events)
      BY LenProperties
    <2>2. QED BY <1>1, <2>1, LinesType
  <1>3. Told(names, events) \subseteq GuiLine
    <2>1. \A i \in 1 .. Len(events) : events[i] \in Event
      BY ElementOfSeq
    <2>2. QED BY <2>1, LineType DEF Told
  <1>4. QED BY <1>2, <1>3, SeqMonotonic

\* What the client knows when it comes to the events of a datagram, and once it
\* has looked at the first of them.
Known(m) ==
    IF m.game_id = client.current_game_id THEN client ELSE on_game_restart(client, m.game_id)

Informed(m) == on_event_new_game(Known(m), m.events[1])

\* What handle_server_message does with n events.
Takes(m, n) ==
    /\ client' = [Informed(m) EXCEPT
                     !.next_expected_event_no = @ + n,
                     !.shown = Show(@, Informed(m).players_names, SubSeq(m.events, 1, n))]
    /\ has_exited' = /\ n < Len(m.events)
                     /\ IsExpected(Informed(m).next_expected_event_no + n, m.events[n + 1])
                     /\ IsIllegal(Informed(m), m.events[n + 1])

\* A step of Listen in these words.
LEMMA ListenTakes ==
    ASSUME NetworkInv, Listen
    PROVE  \E m \in network :
              /\ m.events \in Seq(Event) /\ m.events # <<>>
              /\ \E k \in 1 .. game : IsOfGame(m, k)
              /\ \E broken : Takes(m, Taken(Informed(m), m.events, broken))
  <1>1. PICK m \in Messages : \E broken \in Breaks(m) : handle_server_message(m, broken)
    BY DEF Listen
  <1>2. PICK broken \in Breaks(m) : handle_server_message(m, broken)
    BY <1>1
  <1>3. Takes(m, Taken(Informed(m), m.events, broken))
    BY <1>2 DEF handle_server_message, Takes, Informed, Known
  <1>4. m \in network /\ m.kind = "EVENTS"
    BY DEF Messages
  <1>5. /\ m.events \in Seq(Event) /\ m.events # <<>>
        /\ \E k \in 1 .. game : IsOfGame(m, k)
    BY <1>4 DEF NetworkInv, IsSane
  <1>6. QED BY <1>3, <1>4, <1>5

\* What the client knows before and after it has looked at the first event.
LEMMA InformedProperties ==
    ASSUME client \in ClientType, NEW m, m.game_id \in Nat, m.events[1] \in Event
    PROVE  /\ Known(m) \in ClientType /\ Informed(m) \in ClientType
           /\ Known(m).current_game_id = m.game_id /\ Informed(m).current_game_id = m.game_id
           /\ m.game_id = client.current_game_id => Known(m) = client
           /\ m.game_id # client.current_game_id => Known(m).next_expected_event_no = 0
           /\ Informed(m).next_expected_event_no = Known(m).next_expected_event_no
           /\ \/ Informed(m) = Known(m)
              \/ /\ m.events[1].type = "NEW_GAME"
                 /\ m.events[1].event_no = Known(m).next_expected_event_no
           /\ m.events[1].type = "NEW_GAME" /\ m.events[1].event_no = Known(m).next_expected_event_no =>
                 /\ Informed(m).players_names = m.events[1].players_names
                 /\ Informed(m).width = Width /\ Informed(m).height = Height
  <1> DEFINE k == Known(m)
             e == m.events[1]
  <1>1. /\ k \in ClientType /\ k.current_game_id = m.game_id
        /\ m.game_id = client.current_game_id => k = client
        /\ m.game_id # client.current_game_id => k.next_expected_event_no = 0
    <2>1. <<>> \in Seq(Name)
      BY EmptySeq
    <2>2. QED BY <2>1 DEF Known, on_game_restart, ClientType
  <1>2. Width \in Nat /\ Height \in Nat
    BY BoardAssumption DEF BoardAssumption
  <1> HIDE DEF k
  <1>3. CASE IsExpected(k.next_expected_event_no, e) /\ e.type = "NEW_GAME"
    <2>1. Informed(m) = [k EXCEPT !.players_names = e.players_names,
                                  !.width = e.max_x, !.height = e.max_y]
      BY <1>3 DEF Informed, on_event_new_game, k
    <2>2. e.players_names \in Seq(Name) /\ e.max_x = Width /\ e.max_y = Height
      BY <1>3, FieldsOfEvent
    <2>3. /\ Informed(m) \in ClientType /\ Informed(m).current_game_id = k.current_game_id
          /\ Informed(m).next_expected_event_no = k.next_expected_event_no
          /\ Informed(m).players_names = e.players_names
          /\ Informed(m).width = Width /\ Informed(m).height = Height
      BY <1>1, <1>2, <2>1, <2>2 DEF ClientType
    <2>4. e.event_no = k.next_expected_event_no
      BY <1>3 DEF IsExpected
    <2>5. QED BY <1>1, <1>3, <2>3, <2>4 DEF k
  <1>4. CASE ~(IsExpected(k.next_expected_event_no, e) /\ e.type = "NEW_GAME")
    <2>1. Informed(m) = k
      BY <1>4 DEF Informed, on_event_new_game, k
    <2>2. QED BY <1>1, <1>4, <2>1 DEF IsExpected, k
  <1>5. QED BY <1>3, <1>4

\* The fields of a client that has taken events.
LEMMA TakesFields ==
    ASSUME client \in ClientType, NEW m, Informed(m) \in ClientType, NEW n, Takes(m, n)
    PROVE  LET c == Informed(m)
               lines == Show(c.shown, c.players_names, SubSeq(m.events, 1, n))
           IN  client' = [c EXCEPT !.next_expected_event_no = c.next_expected_event_no + n,
                                   !.shown = lines]
  BY DEF Takes, ClientType

\* The client's variables keep their types, since it takes no illegal event.
LEMMA ListenKeepsTypes ==
    ASSUME ServerInv, NetworkInv, client \in ClientType, Listen
    PROVE  client' \in ClientType /\ has_exited' \in BOOLEAN
  <1>1. PICK m \in network :
              /\ m.events \in Seq(Event) /\ m.events # <<>>
              /\ \E k \in 1 .. game : IsOfGame(m, k)
              /\ \E broken : Takes(m, Taken(Informed(m), m.events, broken))
    BY ListenTakes
  <1>2. PICK broken : Takes(m, Taken(Informed(m), m.events, broken))
    BY <1>1
  <1>3. m.game_id \in Nat
    <2>1. PICK k \in 1 .. game : IsOfGame(m, k)
      BY <1>1
    <2>2. k \in 1 .. Len(Games)
      BY GameFacts DEF ServerInv
    <2>3. QED BY <2>1, <2>2, GameFacts DEF IsOfGame
  <1>4. /\ Len(m.events) \in Nat /\ Len(m.events) > 0
        /\ \A i \in 1 .. Len(m.events) : m.events[i] \in Event
    BY <1>1, EmptySeq, ElementOfSeq
  <1>5. m.events[1] \in Event
    BY <1>4
  <1> DEFINE c == Informed(m)
             n == Taken(c, m.events, broken)
             q == SubSeq(m.events, 1, n)
  <1>6. c \in ClientType
    BY <1>3, <1>5, InformedProperties
  <1>7. n \in 0 .. Len(m.events) /\ \A i \in 0 .. n - 1 : ~IsStopped(c, m.events, i, broken)
    BY <1>1, TakenProperties
  <1>8. client' = [c EXCEPT !.next_expected_event_no = c.next_expected_event_no + n,
                            !.shown = Show(c.shown, c.players_names, q)]
    BY <1>2, <1>6, TakesFields
  <1>9. has_exited' \in BOOLEAN
    BY <1>2 DEF Takes
  <1> HIDE DEF c, n
  <1>10. q \in Seq(Event) /\ Len(q) = n /\ \A i \in 1 .. n : q[i] = m.events[i]
    <2>1. n \in Nat /\ \A i \in 1 .. n : m.events[i] \in Event
      BY <1>4, <1>7
    <2>2. /\ SubSeq(m.events, 1, n) \in Seq(Event)
          /\ Len(SubSeq(m.events, 1, n)) = (IF 1 <= n THEN n - 1 + 1 ELSE 0)
          /\ \A i \in 1 .. n - 1 + 1 : SubSeq(m.events, 1, n)[i] = m.events[1 + i - 1]
      BY <2>1, SubSeqProperties
    <2>3. Len(q) = n
      BY <2>1, <2>2
    <2>4. ASSUME NEW i \in 1 .. n PROVE q[i] = m.events[i]
      <3>1. i \in 1 .. n - 1 + 1 /\ 1 + i - 1 = i
        BY <2>1
      <3>2. QED BY <2>2, <3>1
    <2>5. QED BY <2>2, <2>3, <2>4
  <1> HIDE DEF q
  <1>11. /\ c.players_names \in Seq(Name) /\ c.shown \in Seq(GuiLine)
         /\ c.next_expected_event_no \in Nat
    BY <1>6 DEF ClientType
  <1>12. ASSUME NEW i \in 1 .. Len(q), IsMove(q[i])
         PROVE  q[i].player_number < Len(c.players_names)
    <2>1. i - 1 \in 0 .. n - 1 /\ i - 1 + 1 = i /\ q[i] = m.events[i] /\ i \in 1 .. Len(m.events)
      BY <1>4, <1>7, <1>10
    <2>2. ~IsIllegal(c, m.events[i])
      BY <1>7, <2>1 DEF IsStopped
    <2>3. ~(q[i].player_number >= Len(c.players_names))
      BY <1>12, <2>1, <2>2 DEF IsIllegal
    <2>4. q[i].player_number \in Nat /\ Len(c.players_names) \in Nat
      BY <1>4, <1>11, <1>12, <2>1, FieldsOfEvent, LenProperties
    <2>5. QED BY <2>3, <2>4
  <1>13. Lines(c.players_names, q) \in Seq(GuiLine)
    BY <1>10, <1>11, <1>12, LinesAreForGui
  <1>14. Show(c.shown, c.players_names, q) \in Seq(GuiLine)
    BY <1>11, <1>13, ConcatProperties DEF Show
  <1>15. c.next_expected_event_no + n \in Nat
    BY <1>7, <1>11
  <1>16. client' \in ClientType
    BY <1>6, <1>8, <1>14, <1>15 DEF ClientType
  <1>17. QED BY <1>9, <1>16

-----------------------------------------------------------------------------
(* The theorems that need nothing but the assumptions. *)

DeliveryInv ==
    /\ ServerInv /\ NetworkInv
    /\ duplicates \in 0 .. Duplicates
    /\ client \in ClientType
    /\ has_exited \in BOOLEAN

\* Nothing has happened, and the client knows nothing.
LEMMA DeliveryInit == Init => DeliveryInv
  <1> SUFFICES ASSUME Init PROVE DeliveryInv
    OBVIOUS
  <1>1. Len(Games) \in Nat /\ PushFailures \in Nat /\ Duplicates \in Nat
    BY GameFacts, BoundsAreNumbers
  <1>2. <<>> \in Seq(Event) /\ <<>> \in Seq(Name) /\ <<>> \in Seq(GuiLine) /\ Len(<<>>) = 0
    BY EmptySeq
  <1>3. ServerInv
    <2>1. game = 0 /\ played = 0 /\ log = <<>> /\ connected = FALSE
      BY DEF Init
    <2>2. game \in 0 .. Len(Games) /\ ~(game > 0) /\ played \in Nat
      BY <1>1, <2>1
    <2>c. connected \in BOOLEAN
      BY <2>1
    <2>3. log \in Seq(Event) /\ played - Len(log) \in 0 .. PushFailures
      BY <1>1, <1>2, <2>1
    <2>4. \A i \in 1 .. Len(log) : FALSE
      BY <1>2, <2>1
    <2>5. QED BY <2>1, <2>2, <2>c, <2>3, <2>4 DEF ServerInv
  <1>4. NetworkInv
    BY DEF Init, NetworkInv
  <1>5. client \in ClientType
    BY <1>2 DEF Init, ClientType
  <1>6. duplicates \in 0 .. Duplicates /\ has_exited \in BOOLEAN
    <2>1. duplicates = 0 /\ has_exited = FALSE
      BY DEF Init
    <2>2. duplicates \in 0 .. Duplicates
      BY <1>1, <2>1
    <2>3. has_exited \in BOOLEAN
      BY <2>1
    <2>4. QED BY <2>2, <2>3
  <1>7. QED BY <1>3, <1>4, <1>5, <1>6 DEF DeliveryInv

\* Nothing but a datagram from the server changes what the client knows.
LEMMA OnlyListenChangesClient ==
    ASSUME [Next]_vars, ~Listen
    PROVE  UNCHANGED <<client, has_exited>>
  <1>1. CASE Round
    BY <1>1 DEF Round, BeginGame, PlayRound, Publish
  <1>2. CASE handle_client_request \/ DropClient \/ Lose \/ handle_tick \/ UNCHANGED vars
    BY <1>2 DEF handle_client_request, Answer, DropClient, Lose, handle_tick, vars
  <1>3. QED BY <1>1, <1>2 DEF Next

\* Every step keeps the invariant.
LEMMA DeliveryStep == DeliveryInv /\ [Next]_vars => DeliveryInv'
  <1> SUFFICES ASSUME DeliveryInv, [Next]_vars PROVE DeliveryInv'
    OBVIOUS
  <1> USE DEF DeliveryInv
  <1>1. client.next_expected_event_no \in Nat
    BY DEF ClientType
  <1>2. ServerInv' /\ NetworkInv' /\ duplicates' \in 0 .. Duplicates
    BY <1>1, ServerStep, NetworkStep
  <1>3. client' \in ClientType /\ has_exited' \in BOOLEAN
    <2>1. CASE Listen
      BY <2>1, ListenKeepsTypes
    <2>2. CASE ~Listen
      BY <2>2, OnlyListenChangesClient
    <2>3. QED BY <2>1, <2>2
  <1>4. QED BY <1>2, <1>3

\* The server sends, and the network carries, only events of a game that have
\* happened in it, in datagrams that are not empty.
THEOREM DeliveryInvariant == Spec => []DeliveryInv
  <1>1. QED BY DeliveryInit, DeliveryStep, PTL DEF Spec

\* Types: whatever arrives, in whatever order, the client tells the GUI lines
\* that are lines, even if two games have one game_id, for it takes no event
\* whose player it does not know.
THEOREM DeliveryTypeCorrect == Spec => []DeliveryTypeOK
  <1>1. DeliveryInv => DeliveryTypeOK
    <2> SUFFICES ASSUME DeliveryInv PROVE DeliveryTypeOK
      OBVIOUS
    <2>1. \A m \in Messages : m.events \in Seq(Event) /\ m.events # <<>>
      BY DEF DeliveryInv, NetworkInv, IsSane, Messages
    <2>2. \A m \in Requests : m.next_expected_event_no \in Nat
      BY DEF DeliveryInv, NetworkInv, IsSane, Requests
    <2>3. QED BY <2>1, <2>2 DEF DeliveryInv, ServerInv, DeliveryTypeOK
  <1>2. QED BY <1>1, DeliveryInvariant, PTL

\* No event of the games is longer than a datagram.
EventsFit ==
    \A k \in 1 .. Len(Games) : \A i \in 1 .. Len(Games[k].log) : IsRoomFor(<<Games[k].log[i]>>)

\* If each event alone fits, so does every datagram, wherever the log is cut and
\* whatever the storage has lost.
THEOREM DatagramsFitCorrect ==
    ASSUME EventsFit
    PROVE  Spec => []DatagramsFit
  <1>1. Init => DatagramsFit
    BY DEF Init, DatagramsFit, Messages
  <1>2. DeliveryInv /\ DeliveryInv' /\ DatagramsFit /\ [Next]_vars => DatagramsFit'
    <2> SUFFICES ASSUME DeliveryInv, DeliveryInv', DatagramsFit, [Next]_vars,
                        NEW m \in network', m.kind = "EVENTS"
                 PROVE  DataSize(m.events) <= MaxSize
      BY DEF DatagramsFit, Messages
    <2>1. CASE m \in network
      BY <2>1 DEF DatagramsFit, Messages
    <2>2. CASE m \notin network
      <3>1. ServerInv' /\ NetworkInv /\ played \in Nat /\ client.next_expected_event_no \in Nat
        BY DEF DeliveryInv, ServerInv, ClientType
      <3>2. PICK part \in Datagrams(log') : m = Message(game_id', part)
        BY <2>2, <3>1, NewDatagrams
      <3>3. log' \in Seq(Event)
        BY <3>1 DEF ServerInv
      <3>4. IsRoomFor(part) \/ \E j \in 1 .. Len(log') : part = <<log'[j]>>
        BY <3>3, DatagramProperties
      <3>5. ASSUME NEW j \in 1 .. Len(log'), part = <<log'[j]>> PROVE IsRoomFor(part)
        <4>1. PICK i \in 1 .. Seen(game)' : log'[j] = Games[game'].log[i]
          BY <3>1 DEF ServerInv, HasHappened
        <4>2. game' \in 1 .. Len(Games) /\ i \in 1 .. Len(Games[game'].log)
          <5>1. game' \in 0 .. Len(Games) /\ played' \in Nat /\ (game' = 0 => played' = 0)
                /\ (game' > 0 => played' <= Len(Games[game'].log)) /\ Seen(game)' = played'
            BY <3>1 DEF ServerInv, Seen
          <5>2. game' \in 1 .. Len(Games)
            BY <4>1, <5>1, GameFacts
          <5>3. Len(Games[game'].log) \in Nat
            BY <5>2, GameFacts
          <5>4. QED BY <4>1, <5>1, <5>2, <5>3
        <4>3. QED BY <3>5, <4>1, <4>2 DEF EventsFit
      <3>6. IsRoomFor(part) /\ m.events = part
        BY <3>2, <3>4, <3>5 DEF Message
      <3>7. QED BY <3>6 DEF IsRoomFor
    <2>3. QED BY <2>1, <2>2
  <1>3. QED BY <1>1, <1>2, DeliveryInvariant, PTL DEF Spec

-----------------------------------------------------------------------------
(* How long an event may be. *)

\* sum is, for each k, the sum of the first k numbers.
IsSumming(sum, numbers) ==
    sum = [k \in 0 .. Len(numbers) |-> IF k = 0 THEN 0 ELSE sum[k - 1] + numbers[k]]

\* The function in Total follows its definition.
LEMMA TotalDefined ==
    ASSUME NEW numbers \in Seq(Nat)
    PROVE  \E sum : IsSumming(sum, numbers) /\ Total(numbers) = sum[Len(numbers)]
  <1> DEFINE n == Len(numbers)
             step == [k \in 0 .. n |-> [f \in [0 .. n -> Nat] |->
                        IF k = 0 THEN 0 ELSE f[k - 1] + numbers[k]]]
  <1>1. n \in Nat /\ \A k \in 1 .. n : numbers[k] \in Nat
    BY LenProperties, ElementOfSeq
  <1>2. \A k \in 0 .. n : k # 0 => k \in 1 .. n /\ k - 1 \in 0 .. n /\ k - 1 \in 0 .. k - 1
    BY <1>1
  <1>3. step \in Steps(n, Nat)
    <2>1. ASSUME NEW k \in 0 .. n, NEW f \in [0 .. n -> Nat]
          PROVE  (IF k = 0 THEN 0 ELSE f[k - 1] + numbers[k]) \in Nat
      <3>1. k # 0 => f[k - 1] \in Nat /\ numbers[k] \in Nat
        BY <1>1, <1>2
      <3>2. QED BY <3>1
    <2>2. QED BY <2>1 DEF Steps
  <1>4. LooksBack(step, n, Nat)
    <2> SUFFICES ASSUME NEW k \in 0 .. n, NEW f \in [0 .. n -> Nat], NEW g \in [0 .. n -> Nat],
                        \A j \in 0 .. k - 1 : f[j] = g[j]
                 PROVE  step[k][f] = step[k][g]
      BY DEF LooksBack
    <2>1. k # 0 => f[k - 1] = g[k - 1]
      BY <1>2
    <2>2. QED BY <2>1
  <1>5. PICK f \in [0 .. n -> Nat] : Obeys(f, step, n)
    <2>1. Nat # {}
      OBVIOUS
    <2> HIDE DEF step, n
    <2>2. QED BY <1>1, <1>3, <1>4, <2>1, RecursionExists
  <1>6. IsSumming(f, numbers)
    BY <1>5 DEF Obeys, IsSumming
  <1>7. QED BY <1>6 DEF IsSumming, Total

\* Names of 20 letters and their ends take 21 bytes each.
LEMMA TotalOfNames ==
    ASSUME NEW numbers \in Seq(Nat), \A k \in 1 .. Len(numbers) : numbers[k] <= 21
    PROVE  Total(numbers) \in Nat /\ Total(numbers) <= 21 * Len(numbers)
  <1> DEFINE n == Len(numbers)
  <1>1. n \in Nat /\ \A k \in 1 .. n : numbers[k] \in Nat
    BY LenProperties, ElementOfSeq
  <1>2. PICK sum : IsSumming(sum, numbers) /\ Total(numbers) = sum[n]
    BY TotalDefined
  <1>3. sum[0] = 0 /\ \A k \in 1 .. n : sum[k] = sum[k - 1] + numbers[k]
    <2>1. \A k \in 0 .. n : sum[k] = IF k = 0 THEN 0 ELSE sum[k - 1] + numbers[k]
      BY <1>2 DEF IsSumming
    <2>2. 0 \in 0 .. n /\ \A k \in 1 .. n : k \in 0 .. n /\ k # 0
      BY <1>1
    <2>3. QED BY <2>1, <2>2
  <1> DEFINE P == { k \in 0 .. n : sum[k] \in Nat /\ sum[k] <= 21 * k }
  <1>4. 0 \in P
    BY <1>1, <1>3
  <1>5. ASSUME NEW k \in 1 .. n, k - 1 \in P PROVE k \in P
    <2>1. sum[k - 1] \in Nat /\ sum[k - 1] <= 21 * (k - 1)
      BY <1>5
    <2>2. sum[k] = sum[k - 1] + numbers[k] /\ numbers[k] \in Nat /\ numbers[k] <= 21
      BY <1>1, <1>3
    <2> HIDE DEF n
    <2>3. sum[k] \in Nat /\ sum[k] <= 21 * k /\ k \in 0 .. n
      BY <1>1, <2>1, <2>2
    <2>4. QED BY <2>3
  <1>6. n \in P
    <2> HIDE DEF P, n
    <2>1. \A k \in 0 .. n : k \in P
      BY <1>1, <1>4, <1>5, InductionUpTo
    <2>2. QED BY <1>1, <2>1
  <1>7. QED BY <1>2, <1>6

\* The size of a datagram of one event.
LEMMA SizeOfOne ==
    ASSUME NEW e, EventSize(e) \in Nat
    PROVE  DataSize(<<e>>) = 4 + EventSize(e)
  <1> DEFINE numbers == [k \in DOMAIN <<e>> |-> EventSize(<<e>>[k])]
  <1>1. Len(<<e>>) = 1 /\ DOMAIN <<e>> = 1 .. 1 /\ <<e>>[1] = e
    OBVIOUS
  <1>2. numbers \in [1 .. 1 -> Nat] /\ numbers[1] = EventSize(e)
    BY <1>1
  <1> HIDE DEF numbers
  <1>3. numbers \in Seq(Nat) /\ Len(numbers) = 1
    BY <1>2, FunctionIsSeq
  <1>4. PICK sum : IsSumming(sum, numbers) /\ Total(numbers) = sum[1]
    BY <1>3, TotalDefined
  <1>5. sum[1] = sum[0] + numbers[1] /\ sum[0] = 0
    BY <1>3, <1>4 DEF IsSumming
  <1>6. QED BY <1>2, <1>4, <1>5 DEF DataSize, numbers

\* NEW_GAME is the longest event of a game: with 21 bytes for each player it
\* fits, and so does every other.
THEOREM LongestEventFits ==
    ASSUME NEW players \in Nat, 25 + 21 * players <= MaxSize,
           \A k \in 1 .. Len(Games) : PlayersOf(Games[k].log) <= players
    PROVE  EventsFit
  <1> SUFFICES ASSUME NEW k \in 1 .. Len(Games), NEW i \in 1 .. Len(Games[k].log)
               PROVE  IsRoomFor(<<Games[k].log[i]>>)
    BY DEF EventsFit
  <1> DEFINE l == Games[k].log
             e == l[i]
  <1>1. PlayersOf(l) \in Nat /\ PlayersOf(l) >= 2 /\ PlayersOf(l) <= players /\ MaxSize \in Nat
    BY GameFacts, BoundsAreNumbers
  <1>2. e \in Event /\ (e.type = "NEW_GAME" <=> i = 1)
    BY EventFacts
  <1>3. EventSize(e) \in Nat /\ EventSize(e) <= 21 + 21 * players
    <2>1. CASE e.type = "NEW_GAME"
      <3> DEFINE names == e.players_names
                 numbers == [j \in DOMAIN names |-> NameLength[names[j]] + 1]
      <3>1. names \in Seq(Name) /\ Len(names) = PlayersOf(l)
        BY <1>2, <2>1, FieldsOfEvent DEF PlayersOf
      <3>2. /\ DOMAIN names = 1 .. Len(names) /\ Len(names) \in Nat
            /\ \A j \in 1 .. Len(names) : names[j] \in Name
        BY <3>1, LenProperties, ElementOfSeq
      <3>3. \A name \in Name : NameLength[name] \in 1 .. 20
        BY DeliveryAssumption DEF DeliveryAssumption
      <3> HIDE DEF names
      <3>a. \A j \in 1 .. Len(names) : NameLength[names[j]] + 1 \in Nat
                                      /\ NameLength[names[j]] + 1 <= 21
        <4>1. \A x \in 1 .. 20 : x + 1 \in Nat /\ x + 1 <= 21
          OBVIOUS
        <4>2. \A j \in 1 .. Len(names) : NameLength[names[j]] \in 1 .. 20
          BY <3>2, <3>3
        <4>3. QED BY <4>1, <4>2
      <3>b. numbers = [j \in 1 .. Len(names) |-> NameLength[names[j]] + 1]
        BY <3>2
      <3>c. \A j \in 1 .. Len(names) : numbers[j] \in Nat /\ numbers[j] <= 21
        BY <3>a, <3>b
      <3>4. numbers \in [1 .. Len(names) -> Nat]
            /\ \A j \in 1 .. Len(names) : numbers[j] <= 21
        <4>1. numbers \in [1 .. Len(names) -> Nat]
          BY <3>a, <3>b
        <4>2. QED BY <4>1, <3>c
      <3>5. EventSize(e) = 13 + (8 + Total(numbers))
        BY <2>1 DEF EventSize, names
      <3> HIDE DEF numbers
      <3>6. numbers \in Seq(Nat) /\ Len(numbers) = Len(names)
        BY <3>2, <3>4, FunctionIsSeq
      <3>7. Total(numbers) \in Nat /\ Total(numbers) <= 21 * Len(numbers)
        BY <3>4, <3>6, TotalOfNames
      <3>8. Len(numbers) \in Nat /\ Len(numbers) <= players
        BY <1>1, <3>1, <3>6
      <3> HIDE DEF e, l
      <3>9. QED BY <3>5, <3>7, <3>8
    <2>2. CASE e.type = "PIXEL"
      <3>1. EventSize(e) = 13 + 9
        BY <2>2 DEF EventSize
      <3>2. QED BY <1>1, <3>1
    <2>3. CASE e.type = "ELIMINATED"
      <3>1. EventSize(e) = 13 + 1
        BY <2>3 DEF EventSize
      <3>2. QED BY <1>1, <3>1
    <2>4. CASE e.type = "GAME_OVER"
      <3>1. EventSize(e) = 13 + 0
        BY <2>4 DEF EventSize
      <3>2. QED BY <1>1, <3>1
    <2>5. QED BY <1>2, <2>1, <2>2, <2>3, <2>4, FieldsOfEvent
  <1>4. DataSize(<<e>>) = 4 + EventSize(e)
    BY <1>3, SizeOfOne
  <1> HIDE DEF e
  <1>5. DataSize(<<e>>) <= MaxSize
    BY <1>1, <1>3, <1>4
  <1>6. QED BY <1>5 DEF IsRoomFor, e

\* With the program's own limits every datagram fits, to the byte: 550 bytes are
\* what a NEW_GAME of 25 players with names of 20 letters takes.
THEOREM ProgramDatagramsFit ==
    ASSUME MaxSize = 550, \A k \in 1 .. Len(Games) : PlayersOf(Games[k].log) <= 25
    PROVE  Spec => []DatagramsFit
  <1>1. 25 \in Nat /\ 25 + 21 * 25 <= MaxSize
    OBVIOUS
  <1>2. EventsFit
    BY <1>1, LongestEventFits
  <1>3. QED BY <1>2, DatagramsFitCorrect

-----------------------------------------------------------------------------
(* The story on the screen. *)

\* No two games have one game_id.
IdsDiffer == \A j, k \in 1 .. Len(Games) : Games[j].game_id = Games[k].game_id => j = k

NamesOf(k) == Games[k].log[1].players_names

\* What a client that has taken an event of game k knows of its players.
KnowsPlayers(k, c) ==
    c.players_names = NamesOf(k) /\ c.width = Width /\ c.height = Height

Telling(k, n) == Lines(NamesOf(k), SubSeq(Games[k].log, 1, n))

\* The client has the beginning of game k, and its screen tells just that.
Follow(k, c) ==
    /\ Games[k].game_id = c.current_game_id
    /\ c.next_expected_event_no <= Seen(k)
    /\ KnowsPlayers(k, c)
    /\ c.shown = Telling(k, c.next_expected_event_no)

\* The inductive invariant of the client.
Story ==
    /\ ~has_exited
    /\ client.next_expected_event_no = 0 \/ \E k \in 1 .. game : Follow(k, client)

\* An event of a datagram stands in its game's log at its number.
LEMMA EventOfGame ==
    ASSUME ServerInv, NEW k \in 1 .. game, NEW m, IsOfGame(m, k), NEW i \in 1 .. Len(m.events)
    PROVE  LET e == m.events[i] IN
           /\ e \in Event /\ e.event_no \in Nat /\ e.event_no + 1 \in 1 .. Seen(k)
           /\ e.event_no + 1 \in 1 .. Len(Games[k].log)
           /\ e = Games[k].log[e.event_no + 1]
           /\ e.type = "NEW_GAME" <=> e.event_no = 0
           /\ IsMove(e) => e.player_number \in Nat /\ e.player_number < Len(NamesOf(k))
  <1>1. k \in 1 .. Len(Games) /\ game \in Nat /\ played \in Nat
    BY GameFacts DEF ServerInv
  <1>2. Seen(k) \in Nat /\ Seen(k) <= Len(Games[k].log) /\ Len(Games[k].log) \in Nat
    BY <1>1, GameFacts DEF ServerInv, Seen
  <1>3. PICK j \in 1 .. Seen(k) : m.events[i] = Games[k].log[j]
    BY DEF IsOfGame, HasHappened
  <1>4. j \in 1 .. Len(Games[k].log)
    BY <1>2, <1>3
  <1> DEFINE e == Games[k].log[j]
  <1>5. /\ e \in Event /\ e.event_no = j - 1 /\ (e.type = "NEW_GAME" <=> j = 1)
        /\ IsMove(e) => e.player_number < Len(NamesOf(k))
    BY <1>1, <1>4, EventFacts DEF PlayersOf, NamesOf
  <1>6. IsMove(e) => e.player_number \in Nat
    BY <1>5, FieldsOfEvent
  <1>7. j - 1 \in Nat /\ j - 1 + 1 = j /\ (j = 1 <=> j - 1 = 0)
    BY <1>2, <1>3
  <1>8. QED BY <1>3, <1>4, <1>5, <1>6, <1>7

\* To a client that knows the players no event of the game is illegal.
LEMMA LegalOfGame ==
    ASSUME ServerInv, NEW k \in 1 .. game, NEW m, IsOfGame(m, k), NEW i \in 1 .. Len(m.events),
           NEW c, KnowsPlayers(k, c)
    PROVE  ~IsIllegal(c, m.events[i])
  <1> DEFINE e == m.events[i]
  <1>1. /\ e \in Event /\ e.event_no \in Nat
        /\ e = Games[k].log[e.event_no + 1]
        /\ e.type = "NEW_GAME" <=> e.event_no = 0
        /\ IsMove(e) => e.player_number \in Nat /\ e.player_number < Len(NamesOf(k))
    BY EventOfGame
  <1>2. k \in 1 .. Len(Games)
    BY GameFacts DEF ServerInv
  <1>3. Len(NamesOf(k)) \in Nat /\ Len(NamesOf(k)) >= 2
    BY <1>2, GameFacts DEF PlayersOf, NamesOf
  <1> HIDE DEF e
  <1>4. ~(e.type = "NEW_GAME" /\ (e.event_no # 0 \/ Len(e.players_names) < 2))
    <2> SUFFICES ASSUME e.type = "NEW_GAME" PROVE e.event_no = 0 /\ ~(Len(e.players_names) < 2)
      OBVIOUS
    <2>1. e.event_no = 0 /\ e.event_no + 1 = 1
      BY <1>1
    <2>2. e.players_names = NamesOf(k)
      BY <1>1, <2>1 DEF NamesOf
    <2>3. QED BY <1>3, <2>1, <2>2
  <1>5. ~(IsMove(e) /\ e.player_number >= Len(c.players_names))
    <2> SUFFICES ASSUME IsMove(e) PROVE ~(e.player_number >= Len(NamesOf(k)))
      BY DEF KnowsPlayers
    <2>1. QED BY <1>1, <1>3
  <1>6. ~(e.type = "PIXEL" /\ (e.pixel[1] >= c.width \/ e.pixel[2] >= c.height))
    <2> SUFFICES ASSUME e.type = "PIXEL"
                 PROVE  ~(e.pixel[1] >= Width) /\ ~(e.pixel[2] >= Height)
      BY DEF KnowsPlayers
    <2>1. e.pixel \in Pixels
      BY <1>1, FieldsOfEvent
    <2>2. e.pixel[1] \in 0 .. Width - 1 /\ e.pixel[2] \in 0 .. Height - 1
      BY <2>1 DEF Pixels
    <2>3. Width \in Nat /\ Height \in Nat
      BY BoardAssumption DEF BoardAssumption
    <2>4. QED BY <2>2, <2>3
  <1>7. QED BY <1>4, <1>5, <1>6 DEF IsIllegal, e

\* A client that gets the event it expects knows the players of the game, by this
\* event or by the game it is following.
LEMMA ExpectedIsOfGame ==
    ASSUME IdsDiffer, ServerInv, Story, client \in ClientType,
           NEW m, NEW k \in 1 .. game, IsOfGame(m, k),
           m.events \in Seq(Event), m.events # <<>>,
           m.events[1].event_no = Informed(m).next_expected_event_no
    PROVE  /\ KnowsPlayers(k, Informed(m))
           /\ Informed(m).next_expected_event_no # 0 => Informed(m) = client /\ Follow(k, client)
  <1> DEFINE c == Informed(m)
             e == m.events[1]
  <1>1. k \in 1 .. Len(Games) /\ 1 .. game \subseteq 1 .. Len(Games)
    BY GameFacts DEF ServerInv
  <1>2. m.game_id = Games[k].game_id /\ m.game_id \in Nat
    BY <1>1, GameFacts DEF IsOfGame
  <1>3. 1 \in 1 .. Len(m.events)
    BY EmptySeq, LenProperties
  <1>4. /\ e \in Event /\ e = Games[k].log[e.event_no + 1] /\ e.event_no \in Nat
        /\ e.type = "NEW_GAME" <=> e.event_no = 0
    BY <1>3, EventOfGame
  <1>5. /\ Known(m).current_game_id = m.game_id /\ c.current_game_id = m.game_id
        /\ m.game_id = client.current_game_id => Known(m) = client
        /\ m.game_id # client.current_game_id => Known(m).next_expected_event_no = 0
        /\ c.next_expected_event_no = Known(m).next_expected_event_no
        /\ c = Known(m) \/ e.type = "NEW_GAME"
        /\ e.type = "NEW_GAME" /\ e.event_no = Known(m).next_expected_event_no =>
              /\ c.players_names = e.players_names
              /\ c.width = Width /\ c.height = Height
    BY <1>2, <1>4, InformedProperties
  <1> HIDE DEF c, e
  <1>6. e.event_no = c.next_expected_event_no
    BY DEF c, e
  <1>7. CASE c.next_expected_event_no = 0
    <2>1. e.type = "NEW_GAME" /\ e.event_no + 1 = 1
      BY <1>4, <1>6, <1>7
    <2>2. c.players_names = NamesOf(k) /\ c.width = Width /\ c.height = Height
      BY <1>4, <1>5, <1>6, <2>1 DEF NamesOf
    <2>3. QED BY <1>7, <2>2 DEF KnowsPlayers, c
  <1>8. CASE c.next_expected_event_no # 0
    <2>1. c = Known(m) /\ Known(m) = client /\ client.current_game_id = m.game_id
      BY <1>4, <1>5, <1>6, <1>8
    <2>2. PICK j \in 1 .. game : Follow(j, client)
      BY <1>8, <2>1 DEF Story
    <2>3. Games[j].game_id = Games[k].game_id
      BY <1>2, <2>1, <2>2 DEF Follow
    <2>4. j = k
      BY <1>1, <2>3 DEF IdsDiffer
    <2>5. Follow(k, client) /\ KnowsPlayers(k, c)
      BY <2>1, <2>2, <2>4 DEF Follow
    <2>6. QED BY <2>1, <2>5 DEF c
  <1>9. QED BY <1>7, <1>8

\* The events it takes stand one after the other in the game's log.
LEMMA TakenFollow ==
    ASSUME ServerInv, NEW m, NEW k \in 1 .. game, IsOfGame(m, k), m.events \in Seq(Event),
           NEW no \in Nat, NEW n \in 0 .. Len(m.events), n > 0,
           \A i \in 0 .. n - 1 : m.events[i + 1].event_no = no + i
    PROVE  /\ no + n <= Seen(k) /\ no + n <= Len(Games[k].log)
           /\ SubSeq(m.events, 1, n) = SubSeq(Games[k].log, no + 1, no + n)
  <1> DEFINE l == Games[k].log
             a == SubSeq(m.events, 1, n)
             b == SubSeq(l, no + 1, no + n)
  <1>1. Len(m.events) \in Nat /\ n \in Nat
    BY LenProperties
  <1>2. k \in 1 .. Len(Games)
    BY GameFacts DEF ServerInv
  <1>3. l \in Seq(Event) /\ Len(l) \in Nat /\ DOMAIN l = 1 .. Len(l)
    BY <1>2, GameFacts
  <1>4. Seen(k) \in Nat
    BY <1>2, <1>3 DEF ServerInv, Seen
  <1>5. ASSUME NEW i \in 1 .. n
        PROVE  m.events[i] = l[no + i] /\ no + i \in 1 .. Len(l) /\ no + i \in 1 .. Seen(k)
    <2>1. i \in 1 .. Len(m.events) /\ i - 1 \in 0 .. n - 1 /\ i - 1 + 1 = i
      BY <1>1
    <2>2. m.events[i].event_no = no + (i - 1)
      BY <2>1
    <2>3. no + (i - 1) + 1 = no + i
      BY <1>1
    <2>4. QED BY <2>1, <2>2, <2>3, EventOfGame
  <1> HIDE DEF l
  <1>6. no + n <= Seen(k) /\ no + n <= Len(l)
    <2>1. n \in 1 .. n
      BY <1>1
    <2>2. no + n \in 1 .. Len(l) /\ no + n \in 1 .. Seen(k)
      BY <1>5, <2>1
    <2>3. QED BY <1>3, <1>4, <2>2
  <1>7. \A i \in 1 .. n : m.events[i] \in Event
    BY <1>1, ElementOfSeq
  <1>8. a \in Seq(Event) /\ Len(a) = n /\ \A i \in 1 .. n : a[i] = m.events[i]
    <2>1. /\ a \in Seq(Event) /\ Len(a) = (IF 1 <= n THEN n - 1 + 1 ELSE 0)
          /\ \A i \in 1 .. n - 1 + 1 : a[i] = m.events[1 + i - 1]
      BY <1>1, <1>7, SubSeqProperties
    <2>2. 1 <= n /\ n - 1 + 1 = n /\ \A i \in 1 .. n : 1 + i - 1 = i
      BY <1>1
    <2> HIDE DEF a
    <2>3. QED BY <2>1, <2>2
  <1>9. b \in Seq(Event) /\ Len(b) = n /\ \A i \in 1 .. n : b[i] = l[no + i]
    <2>1. \A i \in no + 1 .. no + n : l[i] \in Event
      <3>1. \A i \in no + 1 .. no + n : i \in 1 .. Len(l)
        BY <1>1, <1>3, <1>6
      <3>2. QED BY <1>3, <3>1, ElementOfSeq
    <2>2. /\ b \in Seq(Event)
          /\ Len(b) = (IF no + 1 <= no + n THEN no + n - (no + 1) + 1 ELSE 0)
          /\ \A i \in 1 .. no + n - (no + 1) + 1 : b[i] = l[no + 1 + i - 1]
      <3>1. no + 1 \in Int /\ no + n \in Int
        BY <1>1
      <3>2. QED BY <2>1, <3>1, SubSeqProperties
    <2>3. /\ no + 1 <= no + n /\ no + n - (no + 1) + 1 = n
          /\ \A i \in 1 .. n : no + 1 + i - 1 = no + i
      BY <1>1
    <2> HIDE DEF b
    <2>4. QED BY <2>2, <2>3
  <1> HIDE DEF a, b
  <1>10. \A i \in 1 .. Len(a) : a[i] = b[i]
    BY <1>5, <1>8, <1>9
  <1>11. a = b
    BY <1>8, <1>9, <1>10, SeqEqual
  <1>12. QED BY <1>6, <1>11 DEF a, b, l

\* What is shown after these events is the longer beginning of the game.
LEMMA ShowGoesOn ==
    ASSUME ServerInv, NEW k \in 1 .. game, NEW shown, NEW no \in Nat, NEW n \in Nat,
           n > 0, no + n <= Len(Games[k].log), no = 0 \/ shown = Telling(k, no)
    PROVE  Show(shown, NamesOf(k), SubSeq(Games[k].log, no + 1, no + n)) = Telling(k, no + n)
  <1> DEFINE l == Games[k].log
             b == SubSeq(l, no + 1, no + n)
  <1>1. k \in 1 .. Len(Games)
    BY GameFacts DEF ServerInv
  <1>2. l \in Seq(Event) /\ Len(l) \in Nat
    BY <1>1, GameFacts
  <1>3. b \in Seq(Event) /\ b # <<>> /\ b[1] = l[no + 1] /\ no + 1 \in 1 .. Len(l)
    <2> HIDE DEF l
    <2>1. \A i \in no + 1 .. no + n : i \in 1 .. Len(l)
      BY <1>2 DEF l
    <2>2. \A i \in no + 1 .. no + n : l[i] \in Event
      BY <1>2, <2>1, ElementOfSeq
    <2>3. /\ b \in Seq(Event)
          /\ Len(b) = (IF no + 1 <= no + n THEN no + n - (no + 1) + 1 ELSE 0)
          /\ \A i \in 1 .. no + n - (no + 1) + 1 : b[i] = l[no + 1 + i - 1]
      <3>1. no + 1 \in Int /\ no + n \in Int
        OBVIOUS
      <3>2. QED BY <2>2, <3>1, SubSeqProperties
    <2>4. /\ no + 1 <= no + n /\ no + n - (no + 1) + 1 = n /\ 1 \in 1 .. n
          /\ no + 1 + 1 - 1 = no + 1 /\ no + 1 \in no + 1 .. no + n
      OBVIOUS
    <2> HIDE DEF b
    <2>5. Len(b) = n /\ b[1] = l[no + 1]
      BY <2>3, <2>4
    <2>6. b # <<>>
      BY <2>5, EmptySeq
    <2>7. QED BY <2>1, <2>3, <2>4, <2>5, <2>6
  <1>4. b[1].type = "NEW_GAME" <=> no + 1 = 1
    BY <1>1, <1>3, EventFacts
  <1>5. CASE no = 0
    <2>1. b[1].type = "NEW_GAME" /\ no + 1 = 1 /\ no + n = n
      BY <1>4, <1>5
    <2>2. QED BY <1>3, <2>1 DEF Show, Telling
  <1>6. CASE no # 0
    <2>1. shown = Lines(NamesOf(k), SubSeq(l, 1, no)) /\ b[1].type # "NEW_GAME"
      BY <1>4, <1>6 DEF Telling
    <2>2. SubSeq(l, 1, no) \o b = SubSeq(l, 1, no + n)
      <3> HIDE DEF l
      <3>1. 1 \in 1 .. Len(l) + 1 /\ no \in 1 - 1 .. Len(l) /\ no + n \in no .. Len(l)
        BY <1>2 DEF l
      <3>2. QED BY <1>2, <3>1, ConcatAdjacentSubSeq
    <2>3. SubSeq(l, 1, no) \in Seq(Event)
      <3> HIDE DEF l
      <3>1. \A i \in 1 .. no : i \in 1 .. Len(l)
        BY <1>2 DEF l
      <3>2. \A i \in 1 .. no : l[i] \in Event
        BY <1>2, <3>1, ElementOfSeq
      <3>3. QED BY <3>2, SubSeqProperties
    <2> HIDE DEF l, b
    <2>4. Show(shown, NamesOf(k), b) = shown \o Lines(NamesOf(k), b)
      BY <2>1 DEF Show
    <2>5. Lines(NamesOf(k), SubSeq(l, 1, no) \o b)
              = Lines(NamesOf(k), SubSeq(l, 1, no)) \o Lines(NamesOf(k), b)
      BY <1>3, <2>3, LinesConcat
    <2>6. QED BY <2>1, <2>2, <2>4, <2>5 DEF Telling, l, b
  <1>7. QED BY <1>5, <1>6

\* A datagram leaves the client with the beginning of one game.
LEMMA ListenStory ==
    ASSUME IdsDiffer, ServerInv, NetworkInv, client \in ClientType, Story, Listen
    PROVE  Story'
  <1>1. PICK m \in network :
              /\ m.events \in Seq(Event) /\ m.events # <<>>
              /\ \E k \in 1 .. game : IsOfGame(m, k)
              /\ \E broken : Takes(m, Taken(Informed(m), m.events, broken))
    BY ListenTakes
  <1>2. PICK broken : Takes(m, Taken(Informed(m), m.events, broken))
    BY <1>1
  <1>3. PICK k \in 1 .. game : IsOfGame(m, k)
    BY <1>1
  <1>4. UNCHANGED <<game, played>>
    BY DEF Listen, handle_server_message
  <1>5. k \in 1 .. Len(Games) /\ 1 .. game \subseteq 1 .. Len(Games)
    BY GameFacts DEF ServerInv
  <1>6. m.game_id = Games[k].game_id /\ m.game_id \in Nat
    BY <1>3, <1>5, GameFacts DEF IsOfGame
  <1>7. 1 \in 1 .. Len(m.events) /\ Len(m.events) \in Nat /\ m.events[1] \in Event
    BY <1>1, EmptySeq, LenProperties, ElementOfSeq
  <1> DEFINE c == Informed(m)
             no == c.next_expected_event_no
             n == Taken(c, m.events, broken)
             lines == Show(c.shown, c.players_names, SubSeq(m.events, 1, n))
  <1>8. c \in ClientType /\ c.current_game_id = m.game_id
    BY <1>6, <1>7, InformedProperties
  <1>9. no \in Nat /\ c.shown \in Seq(GuiLine)
    BY <1>8 DEF ClientType
  <1>10. /\ n \in 0 .. Len(m.events)
         /\ \A i \in 0 .. n - 1 : ~IsStopped(c, m.events, i, broken)
         /\ n = Len(m.events) \/ IsStopped(c, m.events, n, broken)
    BY <1>1, TakenProperties
  <1>11. client' = [c EXCEPT !.next_expected_event_no = no + n, !.shown = lines]
    BY <1>2, <1>8, TakesFields
  <1>12. has_exited' = /\ n < Len(m.events)
                       /\ IsExpected(no + n, m.events[n + 1])
                       /\ IsIllegal(c, m.events[n + 1])
    BY <1>2 DEF Takes
  <1>13. m.events[1].event_no = no => KnowsPlayers(k, c) /\ (no # 0 => c = client /\ Follow(k, client))
    BY <1>1, <1>3, ExpectedIsOfGame
  <1>14. no # 0 => c = client \/ m.events[1].event_no = no
    <2>1. Known(m).next_expected_event_no # 0 => Known(m) = client
      BY <1>6, <1>7, InformedProperties
    <2>2. no = Known(m).next_expected_event_no /\ (c = Known(m) \/ m.events[1].event_no = no)
      BY <1>6, <1>7, InformedProperties
    <2>3. QED BY <2>1, <2>2
  <1>15. \A i \in 0 .. n - 1 : m.events[i + 1].event_no = no + i
    BY <1>10 DEF IsStopped, IsExpected
  <1> HIDE DEF n, no, c
  <1>16. n \in Nat /\ (n > 0 => m.events[1].event_no = no)
    <2>1. n \in Nat
      BY <1>7, <1>10
    <2>2. n > 0 => 0 \in 0 .. n - 1 /\ 0 + 1 = 1 /\ no + 0 = no
      BY <1>9, <2>1
    <2>3. QED BY <1>15, <2>1, <2>2
  <1>17. ~has_exited'
    <2> SUFFICES ASSUME n < Len(m.events), IsExpected(no + n, m.events[n + 1])
                 PROVE  ~IsIllegal(c, m.events[n + 1])
      BY <1>12 DEF no, n
    <2>1. m.events[1].event_no = no
      <3>1. n = 0 => n + 1 = 1 /\ no + n = no
        BY <1>9
      <3>2. n = 0 => m.events[1].event_no = no
        BY <3>1 DEF IsExpected
      <3>3. QED BY <1>16, <3>2
    <2>2. n + 1 \in 1 .. Len(m.events)
      BY <1>7, <1>16
    <2>3. QED BY <1>3, <1>13, <2>1, <2>2, LegalOfGame
  <1>18. client' = [c EXCEPT !.next_expected_event_no = no + n, !.shown = lines]
    BY <1>11 DEF no, n, c
  <1>19. CASE n = 0
    <2>1. lines = c.shown
      <3>1. SubSeq(m.events, 1, n) = <<>>
        BY <1>19, SubSeqEmpty
      <3>2. Lines(c.players_names, <<>>) = <<>>
        BY LinesOfNothing
      <3>3. lines = c.shown \o <<>>
        BY <3>1, <3>2 DEF Show, c, n
      <3>4. QED BY <1>9, <3>3, ConcatEmptySeq
    <2>2. client' = c
      <3>1. no + n = no
        BY <1>9, <1>19
      <3>2. client' = [c EXCEPT !.next_expected_event_no = c.next_expected_event_no,
                                !.shown = c.shown]
        BY <1>18, <2>1, <3>1 DEF no
      <3>3. QED BY <1>8, <3>2 DEF ClientType, c
    <2>3. CASE no = 0
      BY <1>17, <2>2, <2>3 DEF Story, no, c
    <2>4. CASE no # 0
      <3>1. c = client
        BY <1>13, <1>14, <2>4
      <3>2. client' = client
        BY <2>2, <3>1
      <3>3. Story
        OBVIOUS
      <3>4. QED BY <1>4, <1>17, <3>2, <3>3 DEF Story, Follow, Seen, KnowsPlayers
    <2>5. QED BY <2>3, <2>4
  <1>20. CASE n # 0
    <2>1. n > 0 /\ m.events[1].event_no = no
      BY <1>16, <1>20
    <2>2. KnowsPlayers(k, c) /\ (no # 0 => c = client /\ Follow(k, client))
      BY <1>13, <2>1
    <2>3. /\ no + n <= Seen(k) /\ no + n <= Len(Games[k].log)
          /\ SubSeq(m.events, 1, n) = SubSeq(Games[k].log, no + 1, no + n)
      <3>1. n \in 0 .. Len(m.events)
        BY <1>10 DEF n
      <3>2. QED BY <1>1, <1>3, <1>9, <1>15, <2>1, <3>1, TakenFollow
    <2>4. no = 0 \/ c.shown = Telling(k, no)
      BY <2>2 DEF Follow, no, c
    <2>5. Show(c.shown, NamesOf(k), SubSeq(Games[k].log, no + 1, no + n)) = Telling(k, no + n)
      BY <1>9, <1>16, <2>1, <2>3, <2>4, ShowGoesOn
    <2>6. lines = Telling(k, no + n)
      BY <2>2, <2>3, <2>5 DEF KnowsPlayers, n, c
    <2>7. /\ client'.next_expected_event_no = no + n /\ client'.shown = lines
          /\ client'.current_game_id = c.current_game_id
          /\ client'.players_names = c.players_names
          /\ client'.width = c.width /\ client'.height = c.height
      BY <1>8, <1>18 DEF ClientType, c
    <2>8. Follow(k, client)'
      <3>1. Seen(k)' = Seen(k)
        BY <1>4 DEF Seen
      <3>2. KnowsPlayers(k, client)'
        BY <2>2, <2>7 DEF KnowsPlayers
      <3>3. Games[k].game_id = client'.current_game_id
        BY <1>6, <1>8, <2>7 DEF c
      <3>4. QED BY <2>3, <2>6, <2>7, <3>1, <3>2, <3>3 DEF Follow
    <2>9. QED BY <1>4, <1>17, <2>8 DEF Story
  <1>21. QED BY <1>19, <1>20

\* Every step keeps the story.
LEMMA StoryStep ==
    ASSUME IdsDiffer, DeliveryInv, Story, [Next]_vars
    PROVE  Story'
  <1>1. ServerInv /\ NetworkInv /\ client \in ClientType
    BY DEF DeliveryInv
  <1>2. CASE Listen
    BY <1>1, <1>2, ListenStory
  <1>3. CASE ~Listen
    <2>1. UNCHANGED <<client, has_exited>>
      BY <1>3, OnlyListenChangesClient
    <2>2. Advances
      BY <1>1, ServerStep
    <2>3. CASE client.next_expected_event_no = 0
      BY <2>1, <2>3 DEF Story
    <2>4. CASE client.next_expected_event_no # 0
      <3>1. PICK k \in 1 .. game : Follow(k, client)
        BY <2>4 DEF Story
      <3>2. /\ k \in 1 .. game' /\ Seen(k) \in Nat /\ Seen(k)' \in Nat /\ Seen(k) <= Seen(k)'
        BY <1>1, <2>2, SeenGrows
      <3>3. client.next_expected_event_no \in Nat
        BY <1>1 DEF ClientType
      <3>4. client.next_expected_event_no <= Seen(k)'
        BY <3>1, <3>2, <3>3 DEF Follow
      <3>5. Follow(k, client)'
        BY <2>1, <3>1, <3>4 DEF Follow, KnowsPlayers
      <3>6. QED BY <2>1, <3>2, <3>5 DEF Story
    <2>5. QED BY <2>3, <2>4
  <1>4. QED BY <1>2, <1>3

\* At every moment the client follows one game from its beginning.
THEOREM StoryInvariant ==
    ASSUME IdsDiffer
    PROVE  Spec => [](DeliveryInv /\ Story)
  <1>1. Init => Story
    BY DEF Init, Story
  <1>2. DeliveryInv /\ Story /\ [Next]_vars => Story'
    BY StoryStep
  <1>3. QED BY <1>1, <1>2, DeliveryInit, DeliveryStep, PTL DEF Spec

\* If no two games have one game_id, the screen never tells two games mixed nor
\* a game with a hole, whatever the network loses, repeats or reorders and
\* whatever the storage fails to take.
THEOREM ScreenTellsOneGameCorrect ==
    ASSUME IdsDiffer
    PROVE  Spec => []ScreenTellsOneGame
  <1>1. DeliveryInv /\ Story => ScreenTellsOneGame
    <2> SUFFICES ASSUME DeliveryInv, Story, client.next_expected_event_no # 0
                 PROVE  ScreenTellsOneGame
      BY DEF ScreenTellsOneGame
    <2> DEFINE no == client.next_expected_event_no
    <2>1. PICK k \in 1 .. game : Follow(k, client)
      BY DEF Story
    <2>2. no \in Nat /\ no > 0 /\ ServerInv
      BY DEF DeliveryInv, ClientType
    <2>3. k \in 1 .. Len(Games) /\ game \in Nat /\ played \in Nat
      BY <2>2, GameFacts DEF ServerInv
    <2> DEFINE l == Games[k].log
               known == KnownOf(k)
    <2>4. l \in Seq(Event) /\ Len(l) \in Nat /\ \A i \in 1 .. Len(l) : l[i] \in Event
      BY <2>3, GameFacts, ElementOfSeq
    <2>5. no <= Seen(k) /\ Seen(k) <= Len(l) /\ Seen(k) \in Nat
      BY <2>1, <2>2, <2>3, <2>4 DEF Follow, ServerInv, Seen
    <2>6. no <= Len(known) /\ SubSeq(known, 1, no) = SubSeq(l, 1, no)
      <3>1. CASE k # game
        <4>1. known = l /\ Seen(k) = Len(l)
          BY <3>1 DEF KnownOf, Seen
        <4>2. QED BY <2>5, <4>1
      <3>2. CASE k = game
        <4>1. known = SubSeq(l, 1, played) /\ Seen(k) = played
          BY <3>2 DEF KnownOf, Seen
        <4> HIDE DEF l, no, known
        <4>2. \A i \in 1 .. played : l[i] \in Event
          BY <2>3, <2>4, <2>5, <4>1
        <4>3. known \in Seq(Event) /\ Len(known) = played
          <5>1. /\ SubSeq(l, 1, played) \in Seq(Event)
                /\ Len(SubSeq(l, 1, played)) = (IF 1 <= played THEN played - 1 + 1 ELSE 0)
            BY <2>3, <4>2, SubSeqProperties
          <5>2. QED BY <2>3, <4>1, <5>1
        <4>4. /\ 1 \in 1 .. Len(l) /\ played \in 1 .. Len(l)
              /\ 1 \in 1 .. played - 1 + 1 /\ no \in 1 .. played - 1 + 1
              /\ 1 + 1 - 1 = 1 /\ 1 + no - 1 = no
          BY <2>2, <2>3, <2>4, <2>5, <4>1
        <4>5. SubSeq(SubSeq(l, 1, played), 1, no) = SubSeq(l, 1 + 1 - 1, 1 + no - 1)
          BY <2>4, <4>4, SubSeqOfSubSeq
        <4>6. QED BY <2>5, <4>1, <4>3, <4>4, <4>5
      <3>3. QED BY <3>1, <3>2
    <2>7. Show(<<>>, NamesOf(k), SubSeq(l, 1, no)) = Telling(k, no)
      <3>1. 0 + no <= Len(l) /\ 0 + 1 = 1 /\ 0 + no = no
        BY <2>2, <2>4, <2>5
      <3>2. Show(<<>>, NamesOf(k), SubSeq(l, 0 + 1, 0 + no)) = Telling(k, 0 + no)
        <4> HIDE DEF no
        <4>1. QED BY <2>2, <3>1, ShowGoesOn
      <3>3. QED BY <3>1, <3>2
    <2>8. client.shown = Show(<<>>, Games[k].log[1].players_names, SubSeq(known, 1, no))
      BY <2>1, <2>6, <2>7 DEF Follow, NamesOf
    <2>9. Games[k].game_id = client.current_game_id
      BY <2>1 DEF Follow
    <2>10. QED BY <2>6, <2>8, <2>9 DEF ScreenTellsOneGame
  <1>2. QED BY <1>1, StoryInvariant, PTL

\* Nor does any order of the datagrams make the client exit.
THEOREM NothingIsIllegalCorrect ==
    ASSUME IdsDiffer
    PROVE  Spec => []NothingIsIllegal
  <1>1. Story => NothingIsIllegal
    BY DEF Story, NothingIsIllegal
  <1>2. QED BY <1>1, StoryInvariant, PTL
=============================================================================
