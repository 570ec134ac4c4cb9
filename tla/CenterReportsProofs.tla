------------------------ MODULE CenterReportsProofs ------------------------
(***************************************************************************)
(* Proofs about CenterReports, for any reports, rows, connections and      *)
(* resends: a report that was acknowledged is in the database, and a       *)
(* business report is there once where the center can tell a repetition.   *)
(*                                                                         *)
(* That a row is there follows from Stored: the number that a connection   *)
(* remembers is that of a report which is stored or being handled, as an   *)
(* exception takes the connection with it.  That it is there once follows  *)
(* from what is on the way (Once): the copies of a report that the center  *)
(* has begun with come next on their connection, before any other business *)
(* report, so that they are compared with the number they have.            *)
(***************************************************************************)
EXTENDS CenterReports, TLAPS

Handlings == [conn : ConnIds, report : Reports, done : Nat]

TypeInv ==
    /\ todo \subseteq Reports
    /\ conn \in ConnIds
    /\ sent \in Seq(Reports)
    /\ wire \in [ConnIds -> Seq(Reports)]
    /\ last \in [ConnIds -> Reports \cup {Initial}]
    /\ closed \in [ConnIds -> BOOLEAN]
    /\ handling \in Handlings \cup {None}
    /\ acks \in Seq(Reports)
    /\ DOMAIN stored = Reports
    /\ \A n \in Reports : stored[n] \in [1..Rows[n] -> Nat]
    /\ acked \subseteq Reports

Handles(n) == handling # None /\ handling.report = n

Full(n) == \A i \in 1..Rows[n] : stored[n][i] >= 1

Stored ==
    /\ handling # None =>
        /\ handling.done <= Rows[handling.report]
        /\ \A i \in 1..handling.done : stored[handling.report][i] >= 1
    /\ \A k \in ConnIds : closed[k] = FALSE /\ last[k] # Initial =>
        Full(last[k]) \/ (Handles(last[k]) /\ handling.conn = k)
    /\ \A n \in acked : n # Initial => Full(n)

\* The center has begun to store n.
Touched(n) == Handles(n) \/ \E i \in 1..Rows[n] : stored[n][i] # 0

\* No more than one copy of a row is there.
Single(n) ==
    /\ \A i \in 1..Rows[n] : stored[n][i] <= 1
    /\ Handles(n) => \A i \in 1..Rows[n] : i > handling.done => stored[n][i] = 0

OnWire(n, k) == \E i \in 1..Len(wire[k]) : wire[k][i] = n

\* The copies on the way of a report that is begun with will be ignored.
Ignored(n) ==
    \A k \in ConnIds : \A i \in 1..Len(wire[k]) :
        wire[k][i] = n /\ closed[k] = FALSE /\ Touched(n) =>
            /\ last[k] = n
            /\ \A j \in 1..i : wire[k][j] \in Business => wire[k][j] = n

\* No other business report is between two copies.
Together(n) ==
    \A k \in ConnIds : \A i, j \in 1..Len(wire[k]) :
        wire[k][i] = n /\ wire[k][j] = n =>
            \A m \in i..j : wire[k][m] \in Business => wire[k][m] = n

OneConn(n) ==
    \A k, h \in ConnIds : OnWire(n, k) /\ OnWire(n, h) => k = h

\* What the center would do with one more copy.
AtEnd(n) ==
    n \in SentHere /\ IsLastSent(n) =>
        /\ \A i, j \in 1..Len(wire[conn]) :
            i < j /\ wire[conn][i] = n /\ wire[conn][j] \in Business => wire[conn][j] = n
        /\ closed[conn] = FALSE /\ Touched(n) =>
            /\ last[conn] = n
            /\ \A j \in 1..Len(wire[conn]) : wire[conn][j] \in Business => wire[conn][j] = n

Once(n) == Single(n) /\ Ignored(n) /\ Together(n) /\ OneConn(n) /\ AtEnd(n)

\* Where the center has a report from.
Known ==
    /\ \A n \in Reports, k \in ConnIds : OnWire(n, k) =>
        (k < conn /\ n \in before) \/ (k = conn /\ n \in SentHere)
    /\ \A n \in Reports : Touched(n) => n \in before \cup SentHere
    /\ SentHere \cap before \subseteq again

IInv ==
    /\ TypeInv
    /\ Stored
    /\ Known
    /\ \A n \in Business : n \notin again => Once(n)

USE ConstantsAssumption

\* Nothing has been sent or stored at first.
LEMMA InitIInv == Init => IInv
<1> SUFFICES ASSUME Init PROVE IInv
  OBVIOUS
<1>1. TypeInv
  BY DEF Init, TypeInv, ConnIds
<1>2. Stored
  BY DEF Init, Stored, Full, Handles
<1>3. SentHere = {} /\ (\A n \in Reports, k \in ConnIds : ~OnWire(n, k)) /\ \A n \in Reports : ~Touched(n)
  BY DEF Init, SentHere, OnWire, Touched, Handles
<1>4. Known
  BY <1>3 DEF Known
<1>5. \A n \in Business : Once(n)
  <2> SUFFICES ASSUME NEW n \in Business PROVE Once(n)
    OBVIOUS
  <2>1. \A k \in ConnIds : Len(wire[k]) = 0
    BY DEF Init
  <2>2. Single(n)
    <3>1. n \in Reports /\ handling = None /\ stored[n] = [i \in 1..Rows[n] |-> 0]
      BY DEF Init
    <3> QED
      BY <3>1 DEF Single, Handles
  <2>3. Ignored(n) /\ Together(n)
    BY <2>1 DEF Ignored, Together
  <2>4. OneConn(n) /\ AtEnd(n)
    BY <1>3 DEF OneConn, AtEnd
  <2> QED
    BY <2>2, <2>3, <2>4 DEF Once
<1> QED
  BY <1>1, <1>2, <1>4, <1>5 DEF IInv

\* What a report written to the connection changes on the way.
LEMMA WriteEffect ==
    ASSUME TypeInv, NEW n \in Reports, Write(n)
    PROVE  /\ wire' \in [ConnIds -> Seq(Reports)]
           /\ Len(wire[conn]) \in Nat /\ Len(wire'[conn]) = Len(wire[conn]) + 1
           /\ wire'[conn][Len(wire[conn]) + 1] = n
           /\ \A i \in 1..Len(wire[conn]) : wire'[conn][i] = wire[conn][i]
           /\ \A k \in ConnIds \ {conn} : wire'[k] = wire[k]
           /\ sent' \in Seq(Reports)
           /\ Len(sent) \in Nat /\ Len(sent') = Len(sent) + 1
           /\ sent'[Len(sent) + 1] = n
           /\ \A i \in 1..Len(sent) : sent'[i] = sent[i]
  BY DEF TypeInv, Write

\* The center takes the next report off a connection.
LEMMA TakeEffect ==
    ASSUME TypeInv, NEW k \in ConnIds, TakeNext(k)
    PROVE  /\ wire' \in [ConnIds -> Seq(Reports)]
           /\ Len(wire[k]) \in Nat \ {0} /\ Len(wire'[k]) = Len(wire[k]) - 1
           /\ Head(wire[k]) = wire[k][1] /\ Head(wire[k]) \in Reports
           /\ \A i \in 1..Len(wire[k]) - 1 : wire'[k][i] = wire[k][i + 1]
           /\ \A h \in ConnIds \ {k} : wire'[h] = wire[h]
           /\ handling = None /\ closed[k] = FALSE
  BY DEF TypeInv, TakeNext

\* The last business report sent on this connection is one of those sent.
LEMMA SentDomain ==
    ASSUME TypeInv
    PROVE  /\ SentHere = {sent[i] : i \in 1..Len(sent)}
           /\ \A n : IsLastSent(n) <=> \E i \in 1..Len(sent) :
                  sent[i] = n /\ \A j \in i + 1..Len(sent) : sent[j] \notin Business
<1>1. DOMAIN sent = 1..Len(sent)
  BY DEF TypeInv
<1> QED
  BY <1>1 DEF SentHere, IsLastSent

\* A report sent, or sent again, is behind all others.
LEMMA WriteKeeps ==
    ASSUME IInv, TypeInv', NEW n \in Reports, Write(n),
           UNCHANGED <<conn, last, closed, handling, stored, before>>,
           again \subseteq again',
           \/ n \notin SentHere /\ (n \in before => n \in again')
           \/ n \in SentHere /\ (n \notin again' => IsLastSent(n))
    PROVE  /\ Known'
           /\ \A m \in Business : m \notin again' => Once(m)'
<1> DEFINE L == Len(wire[conn])
           S == Len(sent)
<1>1. /\ conn \in ConnIds /\ conn' = conn
      /\ L \in Nat /\ Len(wire'[conn]) = L + 1 /\ wire'[conn][L + 1] = n
      /\ \A i \in 1..L : wire'[conn][i] = wire[conn][i]
      /\ \A k \in ConnIds \ {conn} : wire'[k] = wire[k]
      /\ S \in Nat /\ Len(sent') = S + 1 /\ sent'[S + 1] = n
      /\ \A i \in 1..S : sent'[i] = sent[i]
      /\ \A k \in ConnIds : Len(wire[k]) \in Nat
  <2>1. TypeInv
    BY DEF IInv
  <2>2. conn \in ConnIds /\ conn' = conn /\ \A k \in ConnIds : Len(wire[k]) \in Nat
    BY <2>1 DEF TypeInv
  <2> QED
    BY <2>1, <2>2, WriteEffect
<1> HIDE DEF L, S
<1>2. /\ SentHere = {sent[i] : i \in 1..S}
      /\ SentHere' = {sent'[i] : i \in 1..Len(sent')}
      /\ \A m : IsLastSent(m) <=> \E i \in 1..S :
             sent[i] = m /\ \A j \in i + 1..S : sent[j] \notin Business
      /\ \A m : IsLastSent(m)' <=> \E i \in 1..Len(sent') :
             sent'[i] = m /\ \A j \in i + 1..Len(sent') : sent'[j] \notin Business
  <2>1. DOMAIN sent = 1..S /\ DOMAIN sent' = 1..Len(sent')
    BY DEF IInv, TypeInv, S
  <2>2. SentHere = {sent[i] : i \in 1..S} /\ SentHere' = {sent'[i] : i \in 1..Len(sent')}
    BY <2>1 DEF SentHere
  <2>3. \A m : IsLastSent(m) <=> \E i \in 1..S :
             sent[i] = m /\ \A j \in i + 1..S : sent[j] \notin Business
    BY <2>1 DEF IsLastSent, S
  <2>4. \A m : IsLastSent(m)' <=> \E i \in 1..Len(sent') :
             sent'[i] = m /\ \A j \in i + 1..Len(sent') : sent'[j] \notin Business
    BY <2>1 DEF IsLastSent
  <2> QED
    BY <2>2, <2>3, <2>4
<1>3. SentHere' = SentHere \cup {n}
  <2>1. ASSUME NEW m \in SentHere' PROVE m \in SentHere \cup {n}
    <3>1. PICK i \in 1..S + 1 : m = sent'[i]
      BY <1>1, <1>2
    <3>2. CASE i = S + 1
      BY <1>1, <3>1, <3>2
    <3>3. CASE i \in 1..S
      BY <1>1, <1>2, <3>1, <3>3
    <3> QED
      BY <1>1, <3>2, <3>3
  <2>2. SentHere \subseteq SentHere'
    <3>1. 1..S \subseteq 1..Len(sent')
      BY <1>1
    <3> QED
      BY <1>1, <1>2, <3>1
  <2>3. n \in SentHere'
    <3>1. S + 1 \in 1..Len(sent')
      BY <1>1
    <3> QED
      BY <1>1, <1>2, <3>1
  <2> QED
    BY <2>1, <2>2, <2>3
<1>4. \A m \in Reports, k \in ConnIds : OnWire(m, k)' <=> OnWire(m, k) \/ (m = n /\ k = conn)
  <2> SUFFICES ASSUME NEW m \in Reports, NEW k \in ConnIds
               PROVE  OnWire(m, k)' <=> OnWire(m, k) \/ (m = n /\ k = conn)
    OBVIOUS
  <2>1. CASE k # conn
    BY <1>1, <2>1 DEF OnWire
  <2>2. CASE k = conn
    <3>1. OnWire(m, conn)' <=> \E i \in 1..L + 1 : wire'[conn][i] = m
      BY <1>1 DEF OnWire
    <3>2. OnWire(m, conn) <=> \E i \in 1..L : wire[conn][i] = m
      BY DEF OnWire, L
    <3> QED
      BY <1>1, <2>2, <3>1, <3>2
  <2> QED
    BY <2>1, <2>2
<1>5. \A m : Touched(m)' = Touched(m)
  BY DEF Touched, Handles
<1>6. Known'
  <2>1. \A m \in Reports, k \in ConnIds : OnWire(m, k)' =>
        (k < conn' /\ m \in before') \/ (k = conn' /\ m \in SentHere')
    BY <1>1, <1>3, <1>4 DEF IInv, Known
  <2>2. \A m \in Reports : Touched(m)' => m \in before' \cup SentHere'
    BY <1>3, <1>5 DEF IInv, Known
  <2>3. SentHere' \cap before' \subseteq again'
    BY <1>3 DEF IInv, Known
  <2> QED
    BY <2>1, <2>2, <2>3 DEF Known
<1>7. ASSUME NEW m \in Business, m \notin again' PROVE Once(m)'
  <2>1. m \in Reports /\ Once(m)
    BY <1>7 DEF IInv
  <2>2. Single(m)'
    BY <2>1 DEF Once, Single, Handles
  <2>3. CASE m # n
    <3>0. \A k \in ConnIds : 1..Len(wire[k]) \subseteq 1..Len(wire'[k])
      BY <1>1 DEF L
    <3>1. \A k \in ConnIds : \A i \in 1..Len(wire'[k]) : wire'[k][i] = m =>
              i \in 1..Len(wire[k]) /\ wire[k][i] = m
      BY <1>1, <2>3 DEF L
    <3>2. \A k \in ConnIds : \A i \in 1..Len(wire[k]) : wire'[k][i] = wire[k][i]
      BY <1>1 DEF L
    <3>3. Ignored(m)'
      <4> SUFFICES ASSUME NEW k \in ConnIds, NEW i \in 1..Len(wire'[k]), wire'[k][i] = m,
                          closed[k] = FALSE, Touched(m)
                   PROVE  /\ last[k] = m
                          /\ \A j \in 1..i : wire'[k][j] \in Business => wire'[k][j] = m
        BY <1>5 DEF Ignored
      <4>1. i \in 1..Len(wire[k]) /\ wire[k][i] = m
        BY <3>1
      <4>2. last[k] = m /\ \A j \in 1..i : wire[k][j] \in Business => wire[k][j] = m
        BY <2>1, <4>1 DEF Once, Ignored
      <4>3. \A j \in 1..i : wire'[k][j] = wire[k][j]
        BY <1>1, <3>2, <4>1
      <4> QED
        BY <4>2, <4>3
    <3>4. Together(m)'
      <4> SUFFICES ASSUME NEW k \in ConnIds, NEW i \in 1..Len(wire'[k]), NEW j \in 1..Len(wire'[k]),
                          wire'[k][i] = m, wire'[k][j] = m,
                          NEW h \in i..j, wire'[k][h] \in Business
                   PROVE  wire'[k][h] = m
        BY DEF Together
      <4>1. /\ i \in 1..Len(wire[k]) /\ wire[k][i] = m
            /\ j \in 1..Len(wire[k]) /\ wire[k][j] = m
        BY <3>1
      <4>2. h \in 1..Len(wire[k]) /\ wire'[k][h] = wire[k][h]
        BY <1>1, <3>2, <4>1
      <4> QED
        BY <2>1, <4>1, <4>2 DEF Once, Together
    <3>5. OneConn(m)'
      BY <1>4, <2>1, <2>3 DEF Once, OneConn
    <3>6. AtEnd(m)'
      <4> SUFFICES ASSUME (m \in SentHere)', IsLastSent(m)' PROVE AtEnd(m)'
        BY DEF AtEnd
      <4>1. n \notin Business /\ IsLastSent(m) /\ m \in SentHere
        BY <1>1, <1>2, <1>3, <2>3
      <4>2. \A j \in 1..Len(wire'[conn]) : wire'[conn][j] \in Business =>
                j \in 1..L /\ wire[conn][j] \in Business /\ wire'[conn][j] = wire[conn][j]
        BY <1>1, <4>1
      <4> QED
        <5>1. AtEnd(m)
          BY <2>1 DEF Once
        <5>2. \A i, j \in 1..Len(wire'[conn]) :
                  i < j /\ wire'[conn][i] = m /\ wire'[conn][j] \in Business => wire'[conn][j] = m
          BY <1>1, <3>1, <4>1, <4>2, <5>1 DEF AtEnd, L
        <5>3. closed[conn] = FALSE /\ Touched(m) =>
                  /\ last[conn] = m
                  /\ \A j \in 1..Len(wire'[conn]) : wire'[conn][j] \in Business => wire'[conn][j] = m
          BY <4>1, <4>2, <5>1 DEF AtEnd, L
        <5> QED
          BY <1>1, <1>5, <5>2, <5>3 DEF AtEnd
    <3> QED
      BY <2>2, <3>3, <3>4, <3>5, <3>6 DEF Once
  <2>4. CASE m = n /\ n \notin SentHere
    <3>1. n \notin before /\ ~Touched(n) /\ \A k \in ConnIds : ~OnWire(n, k)
      BY <1>7, <2>1, <2>4 DEF IInv, Known
    <3>2. \A k \in ConnIds : \A i \in 1..Len(wire'[k]) : wire'[k][i] = n => k = conn /\ i = L + 1
      <4> SUFFICES ASSUME NEW k \in ConnIds, NEW i \in 1..Len(wire'[k]), wire'[k][i] = n
                   PROVE  k = conn /\ i = L + 1
        OBVIOUS
      <4>1. k = conn
        BY <1>1, <3>1 DEF OnWire
      <4>2. i \notin 1..L
        BY <1>1, <3>1, <4>1 DEF OnWire, L
      <4> QED
        BY <1>1, <4>1, <4>2
    <3>3. Ignored(m)'
      BY <1>5, <2>4, <3>1 DEF Ignored
    <3>4. Together(m)'
      BY <1>1, <2>4, <3>2 DEF Together
    <3>5. OneConn(m)'
      BY <1>4, <2>1, <2>4, <3>1 DEF OneConn
    <3>6. AtEnd(m)'
      BY <1>1, <1>5, <2>4, <3>1, <3>2 DEF AtEnd
    <3> QED
      BY <2>2, <3>3, <3>4, <3>5, <3>6 DEF Once
  <2>5. CASE m = n /\ n \in SentHere
    <3>1. IsLastSent(n) /\ n \notin before /\ AtEnd(n)
      BY <1>7, <2>1, <2>5 DEF IInv, Known, Once
    <3>2. \A i, j \in 1..L :
              i < j /\ wire[conn][i] = n /\ wire[conn][j] \in Business => wire[conn][j] = n
      BY <2>5, <3>1 DEF AtEnd, L
    <3>3. closed[conn] = FALSE /\ Touched(n) =>
            /\ last[conn] = n
            /\ \A j \in 1..L : wire[conn][j] \in Business => wire[conn][j] = n
      BY <2>5, <3>1 DEF AtEnd, L
    <3>4. \A k \in ConnIds : OnWire(n, k) => k = conn
      BY <2>1, <3>1 DEF IInv, Known
    <3>5. \A k \in ConnIds : \A i \in 1..Len(wire'[k]) : wire'[k][i] = n => k = conn
      BY <1>1, <3>4 DEF OnWire
    <3>6. Ignored(m)'
      BY <1>1, <1>5, <2>5, <3>3, <3>5 DEF Ignored
    <3>7. Together(m)'
      <4> SUFFICES ASSUME NEW i \in 1..L + 1, NEW j \in 1..L + 1,
                          wire'[conn][i] = n, wire'[conn][j] = n,
                          NEW h \in i..j, wire'[conn][h] \in Business
                   PROVE  wire'[conn][h] = n
        BY <1>1, <2>5, <3>5 DEF Together
      <4>1. CASE h = i \/ h = j
        BY <4>1
      <4>2. CASE h # i /\ h # j
        <5>1. i \in 1..L /\ h \in 1..L /\ i < h
          BY <1>1, <4>2
        <5> QED
          BY <1>1, <3>2, <5>1
      <4> QED
        BY <4>1, <4>2
    <3>8. OneConn(m)'
      BY <1>4, <2>1, <2>5, <3>4 DEF OneConn
    <3>9. AtEnd(m)'
      <4>1. ASSUME NEW i \in 1..L + 1, NEW j \in 1..L + 1,
                   i < j, wire'[conn][i] = n, wire'[conn][j] \in Business
            PROVE  wire'[conn][j] = n
        <5>1. CASE j = L + 1
          BY <1>1, <5>1
        <5>2. CASE j # L + 1
          <6>1. i \in 1..L /\ j \in 1..L
            BY <1>1, <4>1, <5>2
          <6> QED
            BY <1>1, <3>2, <4>1, <6>1
        <5> QED
          BY <5>1, <5>2
      <4>2. closed[conn] = FALSE /\ Touched(n) =>
              /\ last[conn] = n
              /\ \A j \in 1..L + 1 : wire'[conn][j] \in Business => wire'[conn][j] = n
        BY <1>1, <3>3
      <4> QED
        BY <1>1, <1>5, <2>5, <4>1, <4>2 DEF AtEnd
    <3> QED
      BY <2>2, <3>6, <3>7, <3>8, <3>9 DEF Once
  <2> QED
    BY <2>3, <2>4, <2>5
<1> QED
  BY <1>6, <1>7


\* What the next report of connection k leaves on the way.
LEMMA TakeShifts ==
    ASSUME TypeInv, NEW k \in ConnIds, TakeNext(k)
    PROVE  /\ \A h \in ConnIds : Len(wire[h]) \in Nat /\ Len(wire'[h]) \in Nat
           /\ \A h \in ConnIds \ {k} : wire'[h] = wire[h]
           /\ \A i \in 1..Len(wire'[k]) : i + 1 \in 1..Len(wire[k]) /\ wire'[k][i] = wire[k][i + 1]
           /\ 1 \in 1..Len(wire[k]) /\ wire[k][1] = Head(wire[k])
<1>1. \A h \in ConnIds : Len(wire[h]) \in Nat
  BY DEF TypeInv
<1>2. /\ Len(wire[k]) \in Nat \ {0} /\ Len(wire'[k]) = Len(wire[k]) - 1
      /\ Head(wire[k]) = wire[k][1]
      /\ \A i \in 1..Len(wire[k]) - 1 : wire'[k][i] = wire[k][i + 1]
      /\ \A h \in ConnIds \ {k} : wire'[h] = wire[h]
  BY TakeEffect
<1>3. \A h \in ConnIds : Len(wire'[h]) \in Nat
  BY <1>1, <1>2
<1>4. \A i \in 1..Len(wire'[k]) : i + 1 \in 1..Len(wire[k]) /\ wire'[k][i] = wire[k][i + 1]
  BY <1>2
<1> QED
  BY <1>1, <1>2, <1>3, <1>4

\* What the center knows of the reports of a connection stays true of those left.
LEMMA TakeKnown ==
    ASSUME IInv, NEW k \in ConnIds, TakeNext(k),
           UNCHANGED <<conn, sent, before, again>>,
           \A m \in Reports : Touched(m)' => Touched(m) \/ m = Head(wire[k])
    PROVE  Known'
<1>1. \A m \in Reports, h \in ConnIds : OnWire(m, h)' => OnWire(m, h)
  <2> SUFFICES ASSUME NEW m \in Reports, NEW h \in ConnIds, OnWire(m, h)' PROVE OnWire(m, h)
    OBVIOUS
  <2>1. TypeInv
    BY DEF IInv
  <2>2. PICK i \in 1..Len(wire'[h]) : wire'[h][i] = m
    BY DEF OnWire
  <2>3. CASE h = k
    <3>1. i + 1 \in 1..Len(wire[k]) /\ wire[k][i + 1] = m
      BY <2>1, <2>2, <2>3, TakeShifts
    <3> QED
      BY <2>3, <3>1 DEF OnWire
  <2>4. CASE h # k
    <3>1. wire'[h] = wire[h]
      BY <2>1, <2>4, TakeShifts
    <3> QED
      BY <2>2, <3>1 DEF OnWire
  <2> QED
    BY <2>3, <2>4
<1>2. SentHere' = SentHere
  BY DEF SentHere
<1>3. Head(wire[k]) \in Reports /\ OnWire(Head(wire[k]), k)
  <2>1. TypeInv
    BY DEF IInv
  <2> QED
    BY <2>1, TakeEffect, TakeShifts DEF OnWire
<1>4. \A m \in Reports, h \in ConnIds : OnWire(m, h)' =>
        (h < conn' /\ m \in before') \/ (h = conn' /\ m \in SentHere')
  BY <1>1, <1>2 DEF IInv, Known
<1>5. \A m \in Reports : Touched(m)' => m \in before' \cup SentHere'
  BY <1>2, <1>3 DEF IInv, Known
<1>6. SentHere' \cap before' \subseteq again'
  BY <1>2 DEF IInv, Known
<1> QED
  BY <1>4, <1>5, <1>6 DEF Known

\* Repetitions of a report stay next to each other.
LEMMA TakeKeepsTogether ==
    ASSUME IInv, NEW k \in ConnIds, TakeNext(k), NEW m \in Business, Together(m), OneConn(m)
    PROVE  Together(m)' /\ OneConn(m)'
<1>1. TypeInv
  BY DEF IInv
<1>2. Together(m)'
  <2> SUFFICES ASSUME NEW h \in ConnIds, NEW i \in 1..Len(wire'[h]), NEW j \in 1..Len(wire'[h]),
                      wire'[h][i] = m, wire'[h][j] = m,
                      NEW p \in i..j, wire'[h][p] \in Business
               PROVE  wire'[h][p] = m
    BY DEF Together
  <2>1. CASE h # k
    <3>1. wire'[h] = wire[h]
      BY <1>1, <2>1, TakeShifts
    <3> QED
      BY <3>1 DEF Together
  <2>2. CASE h = k
    <3>1. p \in 1..Len(wire'[k]) /\ p + 1 \in i + 1..j + 1
      BY <1>1, <2>2, TakeShifts
    <3>2. /\ i + 1 \in 1..Len(wire[k]) /\ wire[k][i + 1] = m
          /\ j + 1 \in 1..Len(wire[k]) /\ wire[k][j + 1] = m
          /\ wire[k][p + 1] = wire'[k][p]
      BY <1>1, <2>2, <3>1, TakeShifts
    <3> QED
      BY <2>2, <3>1, <3>2 DEF Together
  <2> QED
    BY <2>1, <2>2
<1>3. \A h \in ConnIds : OnWire(m, h)' => OnWire(m, h)
  <2> SUFFICES ASSUME NEW h \in ConnIds, OnWire(m, h)' PROVE OnWire(m, h)
    OBVIOUS
  <2> QED
    BY <1>1, TakeShifts DEF OnWire
<1>4. OneConn(m)'
  BY <1>3 DEF OneConn
<1> QED
  BY <1>2, <1>4

\* A repetition that the center ignores is stored already.
LEMMA IgnoreKeeps ==
    ASSUME IInv, NEW k \in ConnIds, Ignore(k), TypeInv'
    PROVE  IInv'
<1>1. /\ TakeNext(k) /\ TypeInv
      /\ Duplicate(k, Head(wire[k]))
      /\ acked' = acked \cup {Head(wire[k])}
      /\ UNCHANGED <<conn, sent, last, closed, handling, stored, before, again>>
  BY DEF IInv, Ignore, Acknowledge, terminal, center
<1>2. /\ \A m : Touched(m)' = Touched(m) /\ Full(m)' = Full(m) /\ Handles(m)' = Handles(m)
      /\ \A m : Single(m) => Single(m)'
  BY <1>1 DEF Touched, Full, Handles, Single
<1>3. Stored'
  <2>1. closed[k] = FALSE /\ handling = None
    BY <1>1, TakeEffect
  <2>2. Head(wire[k]) = last[k]
    BY <1>1 DEF Duplicate
  <2>3. Head(wire[k]) # Initial => Full(Head(wire[k]))
    BY <2>1, <2>2 DEF IInv, Stored, Handles
  <2> QED
    BY <1>1, <1>2, <2>3 DEF IInv, Stored
<1>4. Known'
  BY <1>1, <1>2, TakeKnown
<1>5. ASSUME NEW m \in Business, m \notin again' PROVE Once(m)'
  <2>1. Once(m)
    BY <1>1, <1>5 DEF IInv
  <2>2. Single(m)' /\ Together(m)' /\ OneConn(m)'
    BY <1>1, <1>2, <2>1, TakeKeepsTogether DEF Once
  <2>3. Ignored(m)'
    <3> SUFFICES ASSUME NEW h \in ConnIds, NEW i \in 1..Len(wire'[h]),
                        wire'[h][i] = m, closed[h] = FALSE, Touched(m)
                 PROVE  /\ last[h] = m
                        /\ \A j \in 1..i : wire'[h][j] \in Business => wire'[h][j] = m
      BY <1>1, <1>2 DEF Ignored
    <3>1. CASE h # k
      <4>1. wire'[h] = wire[h]
        BY <1>1, <3>1, TakeShifts
      <4> QED
        BY <2>1, <4>1 DEF Once, Ignored
    <3>2. CASE h = k
      <4>1. i + 1 \in 1..Len(wire[k]) /\ wire[k][i + 1] = m
        BY <1>1, <3>2, TakeShifts
      <4>2. last[k] = m /\ \A j \in 1..i + 1 : wire[k][j] \in Business => wire[k][j] = m
        BY <2>1, <3>2, <4>1 DEF Once, Ignored
      <4>3. \A j \in 1..i : j + 1 \in 1..i + 1 /\ wire'[k][j] = wire[k][j + 1]
        <5>1. \A j \in 1..i : j \in 1..Len(wire'[k]) /\ j + 1 \in 1..i + 1
          BY <1>1, <3>2, TakeShifts
        <5> QED
          BY <1>1, <5>1, TakeShifts
      <4> QED
        BY <3>2, <4>2, <4>3
    <3> QED
      BY <3>1, <3>2
  <2>4. AtEnd(m)'
    <3> SUFFICES ASSUME m \in SentHere, IsLastSent(m) PROVE AtEnd(m)'
      BY <1>1 DEF AtEnd, SentHere, IsLastSent
    <3>1. /\ \A i, j \in 1..Len(wire[conn]) :
              i < j /\ wire[conn][i] = m /\ wire[conn][j] \in Business => wire[conn][j] = m
          /\ closed[conn] = FALSE /\ Touched(m) =>
              /\ last[conn] = m
              /\ \A j \in 1..Len(wire[conn]) : wire[conn][j] \in Business => wire[conn][j] = m
      BY <2>1 DEF Once, AtEnd
    <3>2. conn \in ConnIds
      BY <1>1 DEF TypeInv
    <3>3. CASE conn # k
      <4>1. wire'[conn] = wire[conn]
        BY <1>1, <3>2, <3>3, TakeShifts
      <4> QED
        BY <1>1, <1>2, <3>1, <4>1 DEF AtEnd
    <3>4. CASE conn = k
      <4>1. \A i \in 1..Len(wire'[k]) : i \in Nat /\ i + 1 \in 1..Len(wire[k]) /\ wire'[k][i] = wire[k][i + 1]
        BY <1>1, TakeShifts
      <4>2. \A i, j \in 1..Len(wire'[k]) :
              i < j /\ wire'[k][i] = m /\ wire'[k][j] \in Business => wire'[k][j] = m
        <5> SUFFICES ASSUME NEW i \in 1..Len(wire'[k]), NEW j \in 1..Len(wire'[k]),
                            i < j, wire'[k][i] = m, wire'[k][j] \in Business
                     PROVE  wire'[k][j] = m
          OBVIOUS
        <5>1. /\ i + 1 \in 1..Len(wire[k]) /\ j + 1 \in 1..Len(wire[k]) /\ i + 1 < j + 1
              /\ wire[k][i + 1] = m /\ wire[k][j + 1] = wire'[k][j]
          BY <4>1
        <5> QED
          BY <3>1, <3>4, <5>1
      <4> QED
        BY <1>1, <1>2, <3>1, <3>4, <4>1, <4>2 DEF AtEnd
    <3> QED
      BY <3>3, <3>4
  <2> QED
    BY <2>2, <2>3, <2>4 DEF Once
<1> QED
  BY <1>3, <1>4, <1>5 DEF IInv

\* A report that is handled now was not stored on this connection.
LEMMA BeginKeeps ==
    ASSUME IInv, NEW k \in ConnIds, Begin(k), TypeInv'
    PROVE  IInv'
<1> DEFINE n == Head(wire[k])
<1>1. /\ TakeNext(k) /\ TypeInv
      /\ n \in Reports /\ wire[k][1] = n /\ 1 \in 1..Len(wire[k])
      /\ ~(n \in Business /\ n = last[k])
      /\ last' = IF n \in Business THEN [last EXCEPT ![k] = n] ELSE last
      /\ handling = None /\ handling' # None
      /\ handling'.conn = k /\ handling'.report = n /\ handling'.done = 0
      /\ closed[k] = FALSE
      /\ UNCHANGED <<conn, sent, closed, stored, acked, before, again>>
  <2>1. TypeInv /\ TakeNext(k)
    BY DEF IInv, Begin
  <2>2. n \in Reports /\ wire[k][1] = n /\ 1 \in 1..Len(wire[k]) /\ handling = None /\ closed[k] = FALSE
    BY <2>1, TakeEffect, TakeShifts
  <2> QED
    BY <2>1, <2>2 DEF Begin, Duplicate, terminal, history
<1> HIDE DEF n
<1>2. /\ \A m : Full(m)' = Full(m)
      /\ \A m : Handles(m)' <=> m = n
      /\ \A m : Touched(m) <=> \E i \in 1..Rows[m] : stored[m][i] # 0
      /\ \A m : Touched(m)' => Touched(m) \/ m = n
  BY <1>1 DEF Full, Handles, Touched
<1>3. /\ \A h \in ConnIds : last'[h] = IF h = k /\ n \in Business THEN n ELSE last[h]
  BY <1>1 DEF TypeInv
<1>4. Stored'
  <2>1. handling'.done <= Rows[n] /\ 1..handling'.done = {}
    BY <1>1
  <2>2. \A h \in ConnIds : closed[h] = FALSE /\ last'[h] # Initial =>
            Full(last'[h]) \/ (last'[h] = n /\ h = k)
    BY <1>1, <1>3 DEF IInv, Stored, Handles
  <2> QED
    BY <1>1, <1>2, <2>1, <2>2 DEF IInv, Stored
<1>5. Known'
  BY <1>1, <1>2, TakeKnown DEF n
<1>6. ASSUME NEW m \in Business, m \notin again' PROVE Once(m)'
  <2>1. Once(m) /\ m \in Reports
    BY <1>1, <1>6 DEF IInv
  <2>2. Together(m)' /\ OneConn(m)'
    BY <1>1, <2>1, TakeKeepsTogether DEF Once
  <2>3. m = n => ~Touched(n)
    BY <1>1, <2>1 DEF Once, Ignored
  <2>4. Single(m)'
    <3>1. m = n => \A i \in 1..Rows[n] : stored[n][i] = 0
      BY <1>2, <2>3
    <3> QED
      BY <1>1, <1>2, <2>1, <3>1 DEF Once, Single
  <2>5. Ignored(m)'
    <3> SUFFICES ASSUME NEW h \in ConnIds, NEW i \in 1..Len(wire'[h]),
                        wire'[h][i] = m, closed[h] = FALSE, Touched(m)'
                 PROVE  /\ last'[h] = m
                        /\ \A j \in 1..i : wire'[h][j] \in Business => wire'[h][j] = m
      BY <1>1 DEF Ignored
    <3>1. CASE h # k
      <4>1. wire'[h] = wire[h] /\ last'[h] = last[h]
        BY <1>1, <1>3, <3>1, TakeShifts
      <4>2. m # n
        <5>1. OnWire(m, h) /\ OnWire(n, k)
          BY <1>1, <4>1 DEF OnWire
        <5> QED
          BY <2>1, <3>1, <5>1 DEF Once, OneConn
      <4>3. Touched(m)
        BY <1>2, <4>2
      <4> QED
        BY <2>1, <4>1, <4>3 DEF Once, Ignored
    <3>2. CASE h = k
      <4>1. i + 1 \in 1..Len(wire[k]) /\ wire[k][i + 1] = m
        BY <1>1, <3>2, TakeShifts
      <4>2. \A j \in 1..i : j + 1 \in 1..i + 1 /\ wire'[k][j] = wire[k][j + 1]
        <5>1. \A j \in 1..i : j \in 1..Len(wire'[k]) /\ j + 1 \in 1..i + 1
          BY <1>1, <3>2, TakeShifts
        <5> QED
          BY <1>1, <5>1, TakeShifts
      <4>3. CASE m = n
        <5>1. \A j \in 1..i + 1 : wire[k][j] \in Business => wire[k][j] = m
          BY <1>1, <2>1, <4>1, <4>3 DEF Once, Together
        <5> QED
          BY <1>3, <3>2, <4>2, <4>3, <5>1
      <4>4. CASE m # n
        <5>1. last[k] = m /\ \A j \in 1..i + 1 : wire[k][j] \in Business => wire[k][j] = m
          BY <1>2, <2>1, <3>2, <4>1, <4>4 DEF Once, Ignored
        <5>2. n \notin Business
          <6>1. 1 \in 1..i + 1
            BY <1>1, <3>2, TakeShifts
          <6> QED
            BY <1>1, <4>4, <5>1, <6>1
        <5> QED
          BY <1>3, <3>2, <4>2, <5>1, <5>2
      <4> QED
        BY <4>3, <4>4
    <3> QED
      BY <3>1, <3>2
  <2>6. AtEnd(m)'
    <3> SUFFICES ASSUME m \in SentHere, IsLastSent(m) PROVE AtEnd(m)'
      BY <1>1 DEF AtEnd, SentHere, IsLastSent
    <3>1. /\ \A i, j \in 1..Len(wire[conn]) :
              i < j /\ wire[conn][i] = m /\ wire[conn][j] \in Business => wire[conn][j] = m
          /\ closed[conn] = FALSE /\ Touched(m) =>
              /\ last[conn] = m
              /\ \A j \in 1..Len(wire[conn]) : wire[conn][j] \in Business => wire[conn][j] = m
      BY <2>1 DEF Once, AtEnd
    <3>2. conn \in ConnIds
      BY <1>1 DEF TypeInv
    <3>3. CASE conn # k
      <4>1. wire'[conn] = wire[conn] /\ last'[conn] = last[conn]
        BY <1>1, <1>3, <3>2, <3>3, TakeShifts
      <4>2. m # n
        <5>1. m = n => OnWire(m, k)
          BY <1>1 DEF OnWire
        <5>2. m \notin before
          BY <1>1, <1>6 DEF IInv, Known
        <5> QED
          BY <2>1, <3>3, <5>1, <5>2 DEF IInv, Known
      <4>3. Touched(m)' => Touched(m)
        BY <1>2, <4>2
      <4>4. \A i, j \in 1..Len(wire'[conn]) :
              i < j /\ wire'[conn][i] = m /\ wire'[conn][j] \in Business => wire'[conn][j] = m
        BY <3>1, <4>1
      <4>5. closed[conn] = FALSE /\ Touched(m)' =>
              /\ last'[conn] = m
              /\ \A j \in 1..Len(wire'[conn]) : wire'[conn][j] \in Business => wire'[conn][j] = m
        BY <3>1, <4>1, <4>3
      <4> QED
        BY <1>1, <4>4, <4>5 DEF AtEnd
    <3>4. CASE conn = k
      <4>1. \A i \in 1..Len(wire'[k]) : i \in Nat /\ i + 1 \in 1..Len(wire[k]) /\ wire'[k][i] = wire[k][i + 1]
        BY <1>1, TakeShifts
      <4>2. \A i, j \in 1..Len(wire'[k]) :
              i < j /\ wire'[k][i] = m /\ wire'[k][j] \in Business => wire'[k][j] = m
        <5> SUFFICES ASSUME NEW i \in 1..Len(wire'[k]), NEW j \in 1..Len(wire'[k]),
                            i < j, wire'[k][i] = m, wire'[k][j] \in Business
                     PROVE  wire'[k][j] = m
          OBVIOUS
        <5>1. /\ i + 1 \in 1..Len(wire[k]) /\ j + 1 \in 1..Len(wire[k]) /\ i + 1 < j + 1
              /\ wire[k][i + 1] = m /\ wire[k][j + 1] = wire'[k][j]
          BY <4>1
        <5> QED
          BY <3>1, <3>4, <5>1
      <4>3. CASE m = n
        <5>1. \A j \in 1..Len(wire'[k]) : wire'[k][j] \in Business => wire'[k][j] = m
          <6> SUFFICES ASSUME NEW j \in 1..Len(wire'[k]), wire'[k][j] \in Business PROVE wire'[k][j] = m
            OBVIOUS
          <6>1. j + 1 \in 1..Len(wire[k]) /\ 1 < j + 1 /\ wire'[k][j] = wire[k][j + 1]
            BY <4>1
          <6> QED
            BY <1>1, <3>1, <3>4, <4>3, <6>1
        <5> QED
          BY <1>1, <1>3, <3>4, <4>2, <4>3, <5>1 DEF AtEnd
      <4>4. CASE m # n
        <5>1. Touched(m)' => Touched(m)
          BY <1>2, <4>4
        <5>2. Touched(m) => n \notin Business
          BY <1>1, <3>1, <3>4, <4>4
        <5>3. closed[k] = FALSE /\ Touched(m)' =>
              /\ last'[k] = m
              /\ \A j \in 1..Len(wire'[k]) : wire'[k][j] \in Business => wire'[k][j] = m
          BY <1>3, <3>1, <3>2, <3>4, <4>1, <5>1, <5>2
        <5> QED
          BY <1>1, <3>4, <4>2, <5>3 DEF AtEnd
      <4> QED
        BY <4>3, <4>4
    <3> QED
      BY <3>3, <3>4
  <2> QED
    BY <2>2, <2>4, <2>5, <2>6 DEF Once
<1> QED
  BY <1>4, <1>5, <1>6 DEF IInv

\* One row more is stored.
LEMMA StoreKeeps ==
    ASSUME IInv, Store, TypeInv'
    PROVE  IInv'
<1>0. PICK n \in Reports, d \in Nat :
          n = handling.report /\ d = handling.done /\ handling # None /\ handling \in Handlings
  BY DEF IInv, TypeInv, Store, Handlings
<1>1. /\ handling # None /\ n \in Reports /\ d \in Nat /\ d < Rows[n] /\ d + 1 \in 1..Rows[n]
      /\ stored[n] \in [1..Rows[n] -> Nat]
      /\ stored'[n] = [stored[n] EXCEPT ![d + 1] = @ + 1]
      /\ \A m \in Reports \ {n} : stored'[m] = stored[m]
      /\ handling' # None /\ handling'.report = n /\ handling'.conn = handling.conn
      /\ handling'.done = d + 1
      /\ UNCHANGED <<conn, sent, wire, last, closed, acked, before, again>>
  <2>1. handling # None /\ handling \in Handlings /\ d < Rows[n]
    BY <1>0 DEF Store
  <2>2. Rows[n] \in Nat
    OBVIOUS
  <2>3. d + 1 \in 1..Rows[n]
    BY <2>1, <2>2
  <2>4. /\ stored[n] \in [1..Rows[n] -> Nat]
        /\ stored'[n] = [stored[n] EXCEPT ![d + 1] = @ + 1]
        /\ \A m \in Reports \ {n} : stored'[m] = stored[m]
    BY <1>0 DEF IInv, TypeInv, Store
  <2>5. /\ handling' = [handling EXCEPT !.done = @ + 1]
        /\ handling' \in Handlings
    BY <1>0 DEF Store, Handlings
  <2>6. handling' # None /\ handling'.report = n /\ handling'.conn = handling.conn /\ handling'.done = d + 1
    BY <1>0, <2>5 DEF Handlings
  <2> QED
    BY <2>1, <2>2, <2>3, <2>4, <2>6 DEF Store, terminal, history
<1>2. /\ \A m : Handles(m)' = Handles(m)
      /\ \A m : Handles(m) <=> m = n
  BY <1>0, <1>1 DEF Handles
<1>3. \A i \in 1..Rows[n] : /\ stored[n][i] \in Nat
                            /\ stored'[n][i] = IF i = d + 1 THEN stored[n][i] + 1 ELSE stored[n][i]
  BY <1>1
<1>4. \A m \in Reports : Full(m) => Full(m)'
  <2>1. Full(n) => Full(n)'
    BY <1>3 DEF Full
  <2>2. \A m \in Reports \ {n} : Full(m)' = Full(m)
    BY <1>1 DEF Full
  <2> QED
    BY <2>1, <2>2
<1>5. \A m \in Reports : Touched(m)' => Touched(m)
  BY <1>1, <1>2 DEF Touched
<1>6. Stored'
  <2>1. d + 1 <= Rows[n] /\ \A i \in 1..d + 1 : stored'[n][i] >= 1
    <3>1. \A i \in 1..d : stored[n][i] >= 1
      BY <1>0 DEF IInv, Stored
    <3> QED
      BY <1>1, <1>3, <3>1
  <2>2. ASSUME NEW k \in ConnIds, closed[k] = FALSE, last[k] # Initial
        PROVE  Full(last[k])' \/ (Handles(last[k])' /\ handling'.conn = k)
    <3>1. PICK r \in Reports : r = last[k]
      BY <2>2 DEF IInv, TypeInv
    <3>2. Full(r) \/ (Handles(r) /\ handling.conn = k)
      BY <2>2, <3>1 DEF IInv, Stored
    <3>3. Full(r)' \/ (Handles(r)' /\ handling'.conn = k)
      BY <1>1, <1>2, <1>4, <3>2
    <3> QED
      BY <1>1, <3>1, <3>3 DEF Full, Handles
  <2>3. \A m \in acked : m # Initial => Full(m)'
    BY <1>4 DEF IInv, TypeInv, Stored
  <2> QED
    BY <1>1, <2>1, <2>2, <2>3 DEF Stored
<1>7. Known'
  BY <1>1, <1>5 DEF IInv, Known, OnWire, SentHere
<1>8. ASSUME NEW m \in Business, m \notin again' PROVE Once(m)'
  <2>1. Once(m) /\ m \in Reports
    BY <1>1, <1>8 DEF IInv
  <2>2. Single(m)'
    <3>1. CASE m = n
      <4>1. \A i \in 1..Rows[n] : stored[n][i] <= 1 /\ (i > d => stored[n][i] = 0)
        BY <1>0, <1>2, <2>1, <3>1 DEF Once, Single
      <4>2. \A i \in 1..Rows[n] : stored'[n][i] <= 1 /\ (i > d + 1 => stored'[n][i] = 0)
        BY <1>1, <1>3, <4>1
      <4> QED
        BY <1>1, <3>1, <4>2 DEF Single
    <3>2. CASE m # n
      BY <1>1, <1>2, <2>1, <3>2 DEF Once, Single
    <3> QED
      BY <3>1, <3>2
  <2>3. Together(m)' /\ OneConn(m)'
    BY <1>1, <2>1 DEF Once, Together, OneConn, OnWire
  <2>4. Ignored(m)'
    BY <1>1, <1>5, <2>1 DEF Once, Ignored
  <2>5. AtEnd(m)'
    BY <1>1, <1>5, <2>1 DEF Once, AtEnd, SentHere, IsLastSent
  <2> QED
    BY <2>2, <2>3, <2>4, <2>5 DEF Once
<1> QED
  BY <1>6, <1>7, <1>8 DEF IInv

\* What does not change what is stored, except that a report is not handled any more.
LEMMA HandledKeeps ==
    ASSUME IInv, TypeInv', UNCHANGED <<conn, sent, wire, last, stored, before, again>>,
           \A k \in ConnIds : closed'[k] = FALSE => closed[k] = FALSE,
           handling' = None
    PROVE  Known' /\ \A m \in Business : m \notin again' => Once(m)'
<1>1. \A m : Touched(m)' => Touched(m)
  BY DEF Touched, Handles
<1>2. Known'
  BY <1>1 DEF IInv, Known, OnWire, SentHere
<1>3. ASSUME NEW m \in Business, m \notin again' PROVE Once(m)'
  <2>1. Once(m) /\ conn \in ConnIds
    BY <1>3 DEF IInv, TypeInv
  <2>2. Single(m)' /\ Together(m)' /\ OneConn(m)'
    BY <2>1 DEF Once, Single, Together, OneConn, OnWire, Handles
  <2>3. Ignored(m)'
    BY <1>1, <2>1 DEF Once, Ignored
  <2>4. AtEnd(m)'
    BY <1>1, <2>1 DEF Once, AtEnd, SentHere, IsLastSent
  <2> QED
    BY <2>2, <2>3, <2>4 DEF Once
<1> QED
  BY <1>2, <1>3

\* All rows are stored, and the report is acknowledged.
LEMMA ReturnKeeps ==
    ASSUME IInv, Return, TypeInv'
    PROVE  IInv'
<1>1. PICK n \in Reports : /\ n = handling.report /\ handling # None
                           /\ handling.done = Rows[n]
                           /\ acked' = acked \cup {n}
  BY DEF IInv, TypeInv, Handlings, Return, Acknowledge
<1>2. handling' = None /\ UNCHANGED <<conn, sent, wire, last, closed, stored, before, again>>
  BY DEF Return, terminal
<1>3. Full(n)
  BY <1>1 DEF IInv, Stored, Full
<1>4. Stored'
  <2>1. \A k \in ConnIds : closed[k] = FALSE /\ last[k] # Initial => Full(last[k])
    BY <1>1, <1>3 DEF IInv, Stored, Handles
  <2>2. \A m \in acked' : m # Initial => Full(m)
    BY <1>1, <1>3 DEF IInv, Stored
  <2> QED
    BY <1>2, <2>1, <2>2 DEF Stored, Full
<1> QED
  BY <1>2, <1>4, HandledKeeps DEF IInv

\* The rows stored so far stay; the connection is closed.
LEMMA ThrowKeeps ==
    ASSUME IInv, Throw, TypeInv'
    PROVE  IInv'
<1>1. /\ handling # None /\ handling' = None
      /\ UNCHANGED <<conn, sent, wire, last, stored, acked, before, again>>
      /\ closed' = [closed EXCEPT ![handling.conn] = TRUE]
  BY DEF Throw, terminal, history
<1>2. \A k \in ConnIds : closed'[k] = FALSE => closed[k] = FALSE /\ k # handling.conn
  BY <1>1 DEF IInv, TypeInv
<1>3. Stored'
  <2>1. \A k \in ConnIds : closed'[k] = FALSE /\ last[k] # Initial => Full(last[k])
    BY <1>2 DEF IInv, Stored
  <2> QED
    BY <1>1, <2>1 DEF IInv, Stored, Full
<1> QED
  BY <1>1, <1>2, <1>3, HandledKeeps DEF IInv

\* On a new connection nothing is on the way.
LEMMA ReconnectKeeps ==
    ASSUME IInv, Reconnect, TypeInv'
    PROVE  IInv'
<1>1. PICK p \in 0..Len(wire[conn]) : wire' = [wire EXCEPT ![conn] = SubSeq(@, 1, p)]
  BY DEF Reconnect
<1>2. /\ conn \in ConnIds /\ conn' = conn + 1 /\ conn \in Nat /\ conn' \in ConnIds
      /\ before' = before \cup SentHere
      /\ sent' = <<>> /\ SentHere' = {}
      /\ UNCHANGED <<last, closed, handling, stored, acked, again>>
  BY DEF IInv, TypeInv, Reconnect, ConnIds, SentHere, center
<1>3. /\ \A k \in ConnIds : Len(wire[k]) \in Nat /\ Len(wire'[k]) \in Nat /\ Len(wire'[k]) <= Len(wire[k])
      /\ \A k \in ConnIds : \A i \in 1..Len(wire'[k]) : wire'[k][i] = wire[k][i]
  <2>1. wire[conn] \in Seq(Reports) /\ \A k \in ConnIds : Len(wire[k]) \in Nat
    BY <1>2 DEF IInv, TypeInv
  <2>2. Len(SubSeq(wire[conn], 1, p)) = p /\ \A i \in 1..p : SubSeq(wire[conn], 1, p)[i] = wire[conn][i]
    BY <2>1
  <2>3. \A k \in ConnIds : wire'[k] = IF k = conn THEN SubSeq(wire[conn], 1, p) ELSE wire[k]
    BY <1>1 DEF IInv, TypeInv
  <2>4. p \in Nat /\ p <= Len(wire[conn])
    BY <1>2, <2>1
  <2>5. ASSUME NEW k \in ConnIds
        PROVE  /\ Len(wire[k]) \in Nat /\ Len(wire'[k]) \in Nat /\ Len(wire'[k]) <= Len(wire[k])
               /\ \A i \in 1..Len(wire'[k]) : wire'[k][i] = wire[k][i]
    <3>1. CASE k = conn
      BY <2>1, <2>2, <2>3, <2>4, <3>1
    <3>2. CASE k # conn
      BY <2>1, <2>3, <3>2
    <3> QED
      BY <3>1, <3>2
  <2> QED
    BY <2>5
<1>4. \A k \in ConnIds : \A i \in 1..Len(wire'[k]) : i \in 1..Len(wire[k]) /\ 1..i \subseteq 1..Len(wire'[k])
  BY <1>3
<1>5. \A m \in Reports, k \in ConnIds : OnWire(m, k)' => OnWire(m, k)
  BY <1>3, <1>4 DEF OnWire
<1>6. \A m : Touched(m)' = Touched(m)
  BY <1>2 DEF Touched, Handles
<1>7. Stored'
  BY <1>2 DEF IInv, Stored, Full, Handles
<1>8. Known'
  <2>1. \A m \in Reports, k \in ConnIds : OnWire(m, k)' => k < conn' /\ m \in before'
    <3> SUFFICES ASSUME NEW m \in Reports, NEW k \in ConnIds, OnWire(m, k)'
                 PROVE  k < conn' /\ m \in before'
      OBVIOUS
    <3>1. (k < conn /\ m \in before) \/ (k = conn /\ m \in SentHere)
      BY <1>5 DEF IInv, Known
    <3>2. k \in Nat
      BY DEF ConnIds
    <3> QED
      BY <1>2, <3>1, <3>2
  <2>2. \A m \in Reports : Touched(m)' => m \in before'
    BY <1>2, <1>6 DEF IInv, Known
  <2> QED
    BY <1>2, <2>1, <2>2 DEF Known
<1>9. ASSUME NEW m \in Business, m \notin again' PROVE Once(m)'
  <2>1. Once(m) /\ m \in Reports
    BY <1>2, <1>9 DEF IInv
  <2>2. Single(m)'
    BY <1>2, <2>1 DEF Once, Single, Handles
  <2>3. Ignored(m)'
    <3> SUFFICES ASSUME NEW k \in ConnIds, NEW i \in 1..Len(wire'[k]),
                        wire'[k][i] = m, closed[k] = FALSE, Touched(m)
                 PROVE  /\ last[k] = m
                        /\ \A j \in 1..i : wire'[k][j] \in Business => wire'[k][j] = m
      BY <1>2, <1>6 DEF Ignored
    <3> QED
      <4>1. i \in 1..Len(wire[k]) /\ wire[k][i] = m
        BY <1>3, <1>4
      <4>2. last[k] = m /\ \A j \in 1..i : wire[k][j] \in Business => wire[k][j] = m
        BY <2>1, <4>1 DEF Once, Ignored
      <4>3. \A j \in 1..i : wire'[k][j] = wire[k][j]
        BY <1>3, <1>4
      <4> QED
        BY <4>2, <4>3
  <2>4. Together(m)'
    <3> SUFFICES ASSUME NEW k \in ConnIds, NEW i \in 1..Len(wire'[k]), NEW j \in 1..Len(wire'[k]),
                        wire'[k][i] = m, wire'[k][j] = m,
                        NEW h \in i..j, wire'[k][h] \in Business
                 PROVE  wire'[k][h] = m
      BY DEF Together
    <3>1. h \in 1..Len(wire'[k])
      BY <1>3
    <3> QED
      <4>1. /\ i \in 1..Len(wire[k]) /\ wire[k][i] = m
            /\ j \in 1..Len(wire[k]) /\ wire[k][j] = m
            /\ wire[k][h] = wire'[k][h]
        BY <1>3, <1>4, <3>1
      <4> QED
        BY <2>1, <4>1 DEF Once, Together
  <2>5. OneConn(m)' /\ AtEnd(m)'
    BY <1>2, <1>5, <2>1 DEF Once, OneConn, AtEnd
  <2> QED
    BY <2>2, <2>3, <2>4, <2>5 DEF Once
<1> QED
  BY <1>7, <1>8, <1>9 DEF IInv

\* A report is sent for the first time, or again.
LEMMA SendKeeps ==
    ASSUME IInv, NEW n \in Reports, Send(n) \/ Resend(n), TypeInv'
    PROVE  IInv'
<1>1. /\ Write(n)
      /\ UNCHANGED <<conn, last, closed, handling, stored, before, acked>>
      /\ again \subseteq again'
      /\ \/ n \notin SentHere /\ (n \in before => n \in again')
         \/ n \in SentHere /\ (n \notin again' => IsLastSent(n))
  BY DEF Send, Resend, center
<1>2. Stored'
  BY <1>1 DEF IInv, Stored, Full, Handles
<1> QED
  BY <1>1, <1>2, WriteKeeps DEF IInv

\* An acknowledgement that comes changes nothing at the center.
LEMMA AckKeeps ==
    ASSUME IInv, TypeInv',
           UNCHANGED <<conn, sent, wire, last, closed, handling, stored, acked, before, again>>
    PROVE  IInv'
<1>1. Stored'
  BY DEF IInv, Stored, Full, Handles
<1>2. Known'
  BY DEF IInv, Known, OnWire, Touched, Handles, SentHere
<1>3. ASSUME NEW m \in Business, m \notin again' PROVE Once(m)'
  <2>1. Once(m)
    BY <1>3 DEF IInv
  <2>2. Single(m)' /\ Ignored(m)' /\ Together(m)' /\ OneConn(m)'
    BY <2>1 DEF Once, Single, Ignored, Together, OneConn, OnWire, Touched, Handles
  <2>3. AtEnd(m)'
    BY <2>1 DEF Once, AtEnd, Touched, Handles, SentHere, IsLastSent
  <2> QED
    BY <2>2, <2>3 DEF Once
<1> QED
  BY <1>1, <1>2, <1>3 DEF IInv

\* No step leaves the shape of the state.
LEMMA TypeStep == TypeInv /\ [Next]_vars => TypeInv'
<1> SUFFICES ASSUME TypeInv, [Next]_vars PROVE TypeInv'
  OBVIOUS
<1>1. ASSUME NEW n \in Reports, Send(n) \/ Resend(n) PROVE TypeInv'
  <2>1. Write(n) /\ UNCHANGED <<todo, conn, center, acks, acked>>
    BY <1>1 DEF Send, Resend
  <2>2. wire' \in [ConnIds -> Seq(Reports)] /\ sent' \in Seq(Reports)
    BY <2>1, WriteEffect
  <2> QED
    BY <2>1, <2>2 DEF TypeInv, center
<1>2. CASE ReceiveAck
  BY <1>2 DEF TypeInv, ReceiveAck, center, history
<1>3. CASE Reconnect
  <2>1. PICK p \in 0..Len(wire[conn]) : wire' = [wire EXCEPT ![conn] = SubSeq(@, 1, p)]
    BY <1>3 DEF Reconnect
  <2>2. SubSeq(wire[conn], 1, p) \in Seq(Reports)
    BY DEF TypeInv
  <2> QED
    BY <1>3, <2>1, <2>2 DEF TypeInv, Reconnect, ConnIds, center
<1>4. ASSUME NEW k \in ConnIds, Ignore(k) PROVE TypeInv'
  <2>1. wire' \in [ConnIds -> Seq(Reports)] /\ Head(wire[k]) \in Reports
    BY <1>4, TakeEffect DEF Ignore
  <2> QED
    BY <1>4, <2>1 DEF TypeInv, Ignore, Acknowledge, terminal, center
<1>5. ASSUME NEW k \in ConnIds, Begin(k) PROVE TypeInv'
  <2>1. wire' \in [ConnIds -> Seq(Reports)] /\ Head(wire[k]) \in Reports
    BY <1>5, TakeEffect DEF Begin
  <2>2. handling' \in Handlings
    BY <1>5, <2>1 DEF Begin, Handlings
  <2> QED
    BY <1>5, <2>1, <2>2 DEF TypeInv, Begin, terminal, history
<1>6. CASE Store
  <2>1. PICK n \in Reports, d \in Nat :
          n = handling.report /\ d = handling.done /\ handling \in Handlings
    BY <1>6 DEF TypeInv, Store, Handlings
  <2>2. d + 1 \in 1..Rows[n]
    BY <1>6, <2>1 DEF Store
  <2>3. handling' \in Handlings
    BY <1>6, <2>1 DEF Store, Handlings
  <2>4. /\ DOMAIN stored' = Reports
        /\ \A m \in Reports : stored'[m] = IF m = n THEN [stored[n] EXCEPT ![d + 1] = @ + 1] ELSE stored[m]
    BY <1>6, <2>1 DEF TypeInv, Store
  <2>5. \A m \in Reports : stored'[m] \in [1..Rows[m] -> Nat]
    <3>1. stored[n] \in [1..Rows[n] -> Nat]
      BY DEF TypeInv
    <3>2. [stored[n] EXCEPT ![d + 1] = @ + 1] \in [1..Rows[n] -> Nat]
      BY <2>2, <3>1
    <3> QED
      BY <2>4, <3>2 DEF TypeInv
  <2> QED
    BY <1>6, <2>3, <2>4, <2>5 DEF TypeInv, Store, terminal, history
<1>7. CASE Return
  <2>1. handling.report \in Reports
    BY <1>7 DEF TypeInv, Return, Handlings
  <2> QED
    BY <1>7, <2>1 DEF TypeInv, Return, Acknowledge, terminal
<1>8. CASE Throw
  BY <1>8 DEF TypeInv, Throw, terminal, history
<1>9. CASE UNCHANGED vars
  BY <1>9 DEF TypeInv, vars, terminal, center, history
<1> QED
  BY <1>1, <1>2, <1>3, <1>4, <1>5, <1>6, <1>7, <1>8, <1>9 DEF Next, CenterGoesOn

\* One case for each action of Next.
LEMMA StepIInv == IInv /\ [Next]_vars => IInv'
<1> SUFFICES ASSUME IInv, [Next]_vars PROVE IInv'
  OBVIOUS
<1>1. TypeInv'
  BY TypeStep DEF IInv
<1>2. ASSUME NEW n \in Reports, Send(n) \/ Resend(n) PROVE IInv'
  BY <1>1, <1>2, SendKeeps
<1>3. CASE ReceiveAck \/ UNCHANGED vars
  BY <1>1, <1>3, AckKeeps DEF ReceiveAck, vars, terminal, center, history
<1>4. CASE Reconnect
  BY <1>1, <1>4, ReconnectKeeps
<1>5. CASE CenterGoesOn
  BY <1>1, <1>5, IgnoreKeeps, BeginKeeps, StoreKeeps, ReturnKeeps, ThrowKeeps DEF CenterGoesOn
<1> QED
  BY <1>2, <1>3, <1>4, <1>5 DEF Next

\* However reports are resent, connections lost and handlers interrupted, what is
\* acknowledged is stored, and stored once where the center can tell.
THEOREM StoredRightHolds == Spec => []StoredRight
<1>1. IInv => StoredRight
  <2> SUFFICES ASSUME IInv, NEW n \in Reports, NEW i \in 1..Rows[n]
               PROVE  /\ n \in acked /\ n # Initial => stored[n][i] >= 1
                      /\ n \in Business \ again => stored[n][i] <= 1
    BY DEF StoredRight
  <2>1. n \in acked /\ n # Initial => stored[n][i] >= 1
    BY DEF IInv, Stored, Full
  <2>2. n \in Business \ again => stored[n][i] <= 1
    BY DEF IInv, Once, Single
  <2> QED
    BY <2>1, <2>2
<1> QED
  BY <1>1, InitIInv, StepIInv, PTL DEF Spec

=============================================================================
