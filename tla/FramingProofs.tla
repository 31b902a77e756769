---------------------------- MODULE FramingProofs ----------------------------
(***************************************************************************)
(* What handle_request makes of a stream of bytes, proved with TLAPS for   *)
(* headers and messages of every length, any number of requests, and every *)
(* way to cut the stream into calls: Framing implements MessageStream.     *)
(*                                                                         *)
(*   Shape     types                                                       *)
(*   Reading   what header and read_buf hold of the present request        *)
(*   Stream    which bytes are still unread, and where they are            *)
(*                                                                         *)
(* The stream is the concatenation of all requests, which is a recursion   *)
(* over them.  Stream says the same without one: there is a function that  *)
(* gives the position at which each request starts.                        *)
(***************************************************************************)
EXTENDS Framing, SequenceTheorems, TLAPS

-----------------------------------------------------------------------------
(***************************************************************************)
(* The operators of Framing.                                               *)
(***************************************************************************)

\* Bytes is a sequence of bytes of one request.
LEMMA BytesProperties ==
  ASSUME NEW m \in 1 .. MaxRequests, NEW first \in Nat, NEW last \in Nat,
         first <= last + 1
  PROVE  /\ Bytes(m, first, last) \in Seq(AllBytes)
         /\ Len(Bytes(m, first, last)) = last - first + 1
         /\ \A i \in 1 .. last - first + 1 :
              Bytes(m, first, last)[i] = <<m, first + i - 1>>
<1> DEFINE n == last - first + 1
<1>1. n \in Nat
  OBVIOUS
<1>2. Bytes(m, first, last) \in [1 .. n -> AllBytes]
  BY <1>1 DEF Bytes, AllBytes
<1>3. Bytes(m, first, last) \in Seq(AllBytes)
  BY <1>1, <1>2, SeqDef
<1>4. DOMAIN Bytes(m, first, last) = 1 .. n
  BY DEF Bytes
<1>5. Len(Bytes(m, first, last)) = n
  BY <1>1, <1>3, <1>4, LenProperties
<1> QED
  BY <1>3, <1>5 DEF Bytes

\* bufferevent_read takes the first bytes and leaves the others.
LEMMA ReadProperties ==
  ASSUME NEW S, NEW s \in Seq(S), NEW k \in Nat
  PROVE  /\ Read(s, k) \in Seq(S)
         /\ Len(Read(s, k)) = IF k < Len(s) THEN k ELSE Len(s)
         /\ \A i \in 1 .. Len(Read(s, k)) : Read(s, k)[i] = s[i]
         /\ Left(s, k) \in Seq(S)
         /\ Len(Left(s, k)) = IF k < Len(s) THEN Len(s) - k ELSE 0
         /\ \A i \in 1 .. Len(Left(s, k)) : Left(s, k)[i] = s[k + i]
<1> DEFINE n == IF k < Len(s) THEN k ELSE Len(s)
<1>1. Len(s) \in Nat /\ n \in 0 .. Len(s) /\ \A i \in 1 .. Len(s) : s[i] \in S
  BY LenProperties, ElementOfSeq
<1>2. /\ SubSeq(s, 1, n) \in Seq(S)
      /\ Len(SubSeq(s, 1, n)) = n
      /\ \A i \in 1 .. n : SubSeq(s, 1, n)[i] = s[i]
  BY <1>1, SubSeqProperties, \A i \in 1 .. n : s[i] \in S
<1>3. /\ SubSeq(s, k + 1, Len(s)) \in Seq(S)
      /\ Len(SubSeq(s, k + 1, Len(s))) =
           IF k + 1 <= Len(s) THEN Len(s) - k ELSE 0
      /\ \A i \in 1 .. Len(s) - k :
           SubSeq(s, k + 1, Len(s))[i] = s[k + i]
  BY <1>1, SubSeqProperties, k + 1 \in Int,
     \A i \in k + 1 .. Len(s) : s[i] \in S
<1>4. Read(s, k) = SubSeq(s, 1, n) /\ Left(s, k) = SubSeq(s, k + 1, Len(s))
  BY DEF Read, Left
<1> QED
  BY <1>1, <1>2, <1>3, <1>4

-----------------------------------------------------------------------------
(***************************************************************************)
(* The invariant.                                                          *)
(***************************************************************************)

\* The request that handle_request is at, how many bytes of it were read,
\* and the bytes that were not.
Cur == Len(parsed) + 1
Offset ==
  IF stat = "response" THEN 0
  ELSE IF reading = "header" THEN Len(header) ELSE HeaderLen + Len(body)
Unread == buffer \o wire

Shape ==
  /\ lens \in Seq(Lengths) /\ Len(lens) <= MaxRequests
  /\ answered \in Nat
  /\ wire \in Seq(AllBytes) /\ buffer \in Seq(AllBytes)
  /\ open \in BOOLEAN
  /\ stat \in {"request", "response"} /\ reading \in {"header", "message"}
  /\ header \in Seq(AllBytes)
  /\ need \in 0 .. MaxMessage
  /\ body \in Seq(AllBytes)
  /\ parsed \in Seq(Seq(AllBytes))

\* header and read_buf hold the first bytes of the present request.
Reading ==
  /\ Len(parsed) <= Len(lens)
  /\ answered + (IF stat = "response" THEN 1 ELSE 0) = Len(parsed)
  /\ reading = "header" =>
       stat = "request" /\ Len(header) < HeaderLen /\ body = <<>>
  /\ reading = "message" => Len(header) = HeaderLen
  /\ stat = "response" => body = <<>>
  /\ reading = "message" /\ stat = "request" =>
       /\ Len(parsed) < Len(lens)
       /\ need = lens[Cur] /\ Len(body) < need
  /\ stat = "request" =>
       /\ \A i \in 1 .. Len(header) : header[i] = <<Cur, i>>
       /\ \A i \in 1 .. Len(body) : body[i] = <<Cur, HeaderLen + i>>

\* The m-th request begins behind the unread byte start[m], which is
\* negative when bytes of it were read; the last one ends with the wire.
Starts(start) ==
  /\ start \in [Nat -> Int]
  /\ start[Cur] = -Offset
  /\ \A m \in 1 .. Len(lens) : start[m + 1] = start[m] + HeaderLen + lens[m]
  /\ \A m \in 1 .. Len(lens) + 1 : start[m] <= start[Len(lens) + 1]
  /\ start[Len(lens) + 1] = Len(Unread)
  /\ \A m \in 1 .. Len(lens) : \A i \in 1 .. HeaderLen + lens[m] :
       start[m] + i >= 1 => Unread[start[m] + i] = <<m, i>>

Stream == open => \E start \in [Nat -> Int] : Starts(start)

IInv == Shape /\ Reading /\ Stream

-----------------------------------------------------------------------------
(***************************************************************************)
(* What a call of handle_request finds.                                    *)
(***************************************************************************)

\* The unread bytes go on where handle_request stopped reading, up to the
\* end of the present request at least.
LEMMA Ahead ==
  ASSUME IInv, open, Len(Unread) > 0
  PROVE  /\ Cur \in 1 .. Len(lens)
         /\ lens[Cur] \in Nat
         /\ HeaderLen + lens[Cur] - Offset <= Len(Unread)
         /\ \A k \in 1 .. HeaderLen + lens[Cur] - Offset :
              Unread[k] = <<Cur, Offset + k>>
<1> DEFINE L == Len(lens)
           c == Cur
           o == Offset
           w == Len(Unread)
           len == lens[Cur]
<1>1. PICK start \in [Nat -> Int] : Starts(start)
  BY DEF IInv, Stream
<1>2. L \in Nat /\ w \in Nat /\ \A m \in 1 .. L : lens[m] \in Nat
  <2>1. Unread \in Seq(AllBytes)
    BY ConcatProperties DEF IInv, Shape, Unread
  <2> QED
    BY <2>1, LenProperties, ElementOfSeq, FramingAssumption DEF IInv, Shape
<1>3. o \in Nat /\ HeaderLen \in Nat
  <2>1. Len(header) \in Nat /\ Len(body) \in Nat
    BY LenProperties DEF IInv, Shape
  <2> QED
    BY <2>1, FramingAssumption DEF Offset
<1>4. /\ start[c] = -o /\ start[L + 1] = w
      /\ \A m \in 1 .. L : start[m + 1] = start[m] + HeaderLen + lens[m]
      /\ \A m \in 1 .. L + 1 : start[m] <= start[L + 1]
      /\ \A m \in 1 .. L : \A i \in 1 .. HeaderLen + lens[m] :
           start[m] + i >= 1 => Unread[start[m] + i] = <<m, i>>
  BY <1>1 DEF Starts
<1>5. c \in 1 .. L + 1
  <2>1. Len(parsed) \in Nat
    BY LenProperties DEF IInv, Shape
  <2> QED
    BY <1>2, <2>1 DEF IInv, Reading, Cur
<1> HIDE DEF L, c, o, w
<1>6. c # L + 1
  BY <1>2, <1>3, <1>4 DEF w
<1>7. c \in 1 .. L /\ c + 1 \in 1 .. L + 1
  BY <1>2, <1>5, <1>6
<1>8. len \in Nat
  BY <1>2, <1>7 DEF c
<1>9. start[c + 1] <= w
  BY <1>4, <1>7
<1>10. start[c + 1] = -o + HeaderLen + len
  BY <1>4, <1>7 DEF c
<1> HIDE DEF len
<1>11. HeaderLen + len - o <= w
  BY <1>2, <1>3, <1>8, <1>9, <1>10
<1>12. ASSUME NEW k \in 1 .. HeaderLen + len - o
       PROVE  Unread[k] = <<c, o + k>>
  <2>1. o + k \in 1 .. HeaderLen + len /\ -o + (o + k) = k /\ k >= 1
    BY <1>3, <1>8
  <2>2. start[c] + (o + k) >= 1 => Unread[start[c] + (o + k)] = <<c, o + k>>
    BY <1>4, <1>7, <2>1 DEF len, c
  <2> QED
    BY <1>4, <2>1, <2>2
<1> QED
  BY <1>7, <1>8, <1>11, <1>12 DEF L, c, o, w, len

\* A call finds what was left and what arrives.
LEMMA FoundProperties ==
  ASSUME Shape, NEW n \in 1 .. Len(wire)
  PROVE  /\ Found(n) \in Seq(AllBytes)
         /\ Len(Found(n)) \in Nat \ {0}
         /\ Left(wire, n) \in Seq(AllBytes)
<1> DEFINE q == Read(wire, n)
<1>1. /\ buffer \in Seq(AllBytes) /\ Len(buffer) \in Nat
      /\ wire \in Seq(AllBytes) /\ Len(wire) \in Nat
  BY LenProperties DEF Shape
<1>2. n \in Nat /\ n >= 1 /\ n <= Len(wire)
  BY <1>1
<1>3. /\ q \in Seq(AllBytes) /\ Len(q) = IF n < Len(wire) THEN n ELSE Len(wire)
      /\ Left(wire, n) \in Seq(AllBytes)
  BY <1>1, <1>2, ReadProperties
<1> HIDE DEF q
<1>4. buffer \o q \in Seq(AllBytes) /\ Len(buffer \o q) = Len(buffer) + Len(q)
  <2>1. q \in Seq(AllBytes)
    BY <1>3
  <2> QED
    BY <1>1, <2>1, ConcatProperties
<1>5. Len(buffer \o q) \in Nat \ {0}
  BY <1>1, <1>2, <1>3, <1>4
<1> QED
  BY <1>3, <1>4, <1>5 DEF Found, q

\* A call finds the first unread bytes; those it leaves are the others.
LEMMA Taken ==
  ASSUME Shape, NEW n \in 1 .. Len(wire), NEW r \in 0 .. Len(Found(n))
  PROVE  /\ Found(n) \in Seq(AllBytes)
         /\ Len(Found(n)) = Len(buffer) + n
         /\ Len(Unread) \in Nat /\ Len(Found(n)) <= Len(Unread)
         /\ \A k \in 1 .. Len(Found(n)) : Found(n)[k] = Unread[k]
         /\ Len(Left(Found(n), r) \o Left(wire, n)) = Len(Unread) - r
         /\ \A k \in 1 .. Len(Unread) - r :
              (Left(Found(n), r) \o Left(wire, n))[k] = Unread[k + r]
<1> DEFINE S == AllBytes
           q == Read(wire, n)
           f == Found(n)
           a == Left(f, r)
           b == Left(wire, n)
           u == Unread
<1>1. buffer \in Seq(S) /\ wire \in Seq(S)
  BY DEF Shape
<1>2. Len(buffer) \in Nat /\ Len(wire) \in Nat /\ n \in Nat /\ n <= Len(wire)
  BY <1>1, LenProperties
<1> HIDE DEF S
<1>3. /\ q \in Seq(S) /\ Len(q) = IF n < Len(wire) THEN n ELSE Len(wire)
      /\ \A i \in 1 .. Len(q) : q[i] = wire[i]
      /\ b \in Seq(S)
      /\ Len(b) = IF n < Len(wire) THEN Len(wire) - n ELSE 0
      /\ \A i \in 1 .. Len(b) : b[i] = wire[n + i]
  BY <1>1, <1>2, ReadProperties
<1> HIDE DEF q, b
<1>4. Len(q) = n /\ Len(b) = Len(wire) - n
  BY <1>2, <1>3
<1>5. /\ f \in Seq(S) /\ Len(f) = Len(buffer) + Len(q)
      /\ \A i \in 1 .. Len(buffer) + Len(q) :
           f[i] = IF i <= Len(buffer) THEN buffer[i] ELSE q[i - Len(buffer)]
  <2>1. q \in Seq(S) /\ f = buffer \o q
    BY <1>3 DEF Found, q
  <2> HIDE DEF f
  <2> QED
    BY <1>1, <2>1, ConcatProperties
<1>6. /\ Len(u) = Len(buffer) + Len(wire)
      /\ \A i \in 1 .. Len(buffer) + Len(wire) :
           u[i] = IF i <= Len(buffer) THEN buffer[i] ELSE wire[i - Len(buffer)]
  BY <1>1, ConcatProperties DEF Unread
<1>7. r \in Nat /\ r <= Len(f) /\ Len(f) \in Nat
  BY <1>2, <1>4, <1>5
<1> HIDE DEF f, u
<1>8. /\ a \in Seq(S) /\ Len(a) = IF r < Len(f) THEN Len(f) - r ELSE 0
      /\ \A i \in 1 .. Len(a) : a[i] = f[r + i]
  BY <1>5, <1>7, ReadProperties
<1> HIDE DEF a
<1>9. Len(a) = Len(f) - r
  BY <1>7, <1>8
<1>10. /\ Len(a \o b) = Len(a) + Len(b)
       /\ \A i \in 1 .. Len(a) + Len(b) :
            (a \o b)[i] = IF i <= Len(a) THEN a[i] ELSE b[i - Len(a)]
  <2>1. a \in Seq(S) /\ b \in Seq(S)
    BY <1>3, <1>8
  <2> QED
    BY <2>1, ConcatProperties
<1>11. ASSUME NEW k \in 1 .. Len(f)
       PROVE  f[k] = u[k]
  <2>1. /\ k \in 1 .. Len(buffer) + Len(q)
        /\ k \in 1 .. Len(buffer) + Len(wire)
        /\ ~(k <= Len(buffer)) => k - Len(buffer) \in 1 .. Len(q)
    BY <1>2, <1>4, <1>5
  <2> QED
    BY <1>3, <1>5, <1>6, <2>1
<1>12. ASSUME NEW k \in 1 .. Len(u) - r
       PROVE  (a \o b)[k] = u[k + r]
  <2>1. /\ k \in 1 .. Len(a) + Len(b)
        /\ k + r \in 1 .. Len(buffer) + Len(wire)
    BY <1>2, <1>4, <1>5, <1>6, <1>7, <1>9
  <2>2. CASE k <= Len(a)
    <3>1. k \in 1 .. Len(a) /\ r + k \in 1 .. Len(f) /\ k + r = r + k
      BY <2>1, <2>2, <1>7, <1>9
    <3>2. (a \o b)[k] = f[r + k]
      BY <1>8, <1>10, <2>1, <2>2, <3>1
    <3> QED
      BY <1>11, <3>1, <3>2
  <2>3. CASE ~(k <= Len(a))
    <3>1. /\ k - Len(a) \in 1 .. Len(b)
          /\ n + (k - Len(a)) = k + r - Len(buffer)
          /\ ~(k + r <= Len(buffer))
      BY <2>1, <2>3, <1>2, <1>4, <1>5, <1>7, <1>9
    <3>2. (a \o b)[k] = wire[n + (k - Len(a))]
      BY <1>3, <1>10, <2>1, <2>3, <3>1
    <3>3. u[k + r] = wire[k + r - Len(buffer)]
      BY <1>6, <2>1, <3>1
    <3> QED
      BY <3>1, <3>2, <3>3
  <2> QED
    BY <2>2, <2>3
<1>13. /\ Len(a \o b) = Len(u) - r /\ Len(u) \in Nat /\ Len(f) <= Len(u)
       /\ Len(f) = Len(buffer) + n
  BY <1>2, <1>4, <1>5, <1>6, <1>7, <1>9, <1>10
<1> QED
  BY <1>5, <1>11, <1>12, <1>13 DEF S, f, u, a, b

\* The next r bytes are read; they are bytes of the present request, and it
\* may end with them.
Moves(r) ==
  /\ lens' = lens
  /\ r <= Len(Unread) /\ Len(Unread') = Len(Unread) - r
  /\ \A k \in 1 .. Len(Unread) - r : Unread'[k] = Unread[k + r]
  /\ \/ Cur' = Cur /\ Offset' = Offset + r
     \/ /\ Cur' = Cur + 1 /\ Offset' = 0
        /\ Cur <= Len(lens) /\ r = HeaderLen + lens[Cur] - Offset

\* All requests are then r bytes nearer.
LEMMA StreamMoves ==
  ASSUME IInv, open, NEW r \in Nat, Moves(r)
  PROVE  Stream'
<1> DEFINE L == Len(lens)
           c == Cur
           d == Cur'
           o == Offset
           e == Offset'
           w == Len(Unread)
           u == Unread
           v == Unread'
<1>1. PICK start \in [Nat -> Int] : Starts(start)
  BY DEF IInv, Stream
<1>2. L \in Nat /\ w \in Nat /\ \A m \in 1 .. L : lens[m] \in Nat
  <2>1. Unread \in Seq(AllBytes)
    BY ConcatProperties DEF IInv, Shape, Unread
  <2> QED
    BY <2>1, LenProperties, ElementOfSeq, FramingAssumption DEF IInv, Shape
<1>3. o \in Nat /\ HeaderLen \in Nat
  <2>1. Len(header) \in Nat /\ Len(body) \in Nat
    BY LenProperties DEF IInv, Shape
  <2> QED
    BY <2>1, FramingAssumption DEF Offset
<1>4. /\ start[c] = -o /\ start[L + 1] = w
      /\ \A m \in 1 .. L : start[m + 1] = start[m] + HeaderLen + lens[m]
      /\ \A m \in 1 .. L + 1 : start[m] <= start[L + 1]
      /\ \A m \in 1 .. L : \A i \in 1 .. HeaderLen + lens[m] :
           start[m] + i >= 1 => u[start[m] + i] = <<m, i>>
  BY <1>1 DEF Starts
<1>5. c \in 1 .. L + 1
  <2>1. Len(parsed) \in Nat
    BY LenProperties DEF IInv, Shape
  <2> QED
    BY <1>2, <2>1 DEF IInv, Reading, Cur
<1>6. /\ Len(v) = w - r
      /\ \A k \in 1 .. w - r : v[k] = u[k + r]
      /\ \/ d = c /\ e = o + r
         \/ d = c + 1 /\ e = 0 /\ c <= L /\ r = HeaderLen + lens[c] - o
      /\ r <= w
  BY DEF Moves
<1> DEFINE next == [m \in Nat |-> start[m] - r]
<1>7. next \in [Nat -> Int] /\ \A m \in Nat : next[m] = start[m] - r
  OBVIOUS
<1> HIDE DEF L, c, d, o, e, w, u, v, next
<1>8. next[d] = -e
  <2>1. CASE d = c /\ e = o + r
    BY <2>1, <1>2, <1>3, <1>4, <1>5, <1>7
  <2>2. CASE d = c + 1 /\ e = 0 /\ c <= L /\ r = HeaderLen + lens[c] - o
    <3>1. c \in 1 .. L /\ c + 1 \in Nat
      BY <2>2, <1>2, <1>5
    <3>2. start[c + 1] = -o + HeaderLen + lens[c] /\ lens[c] \in Nat
      BY <3>1, <1>2, <1>4
    <3>3. next[c + 1] = start[c + 1] - r
      BY <3>1, <1>7
    <3> QED
      BY <2>2, <3>2, <3>3, <1>3
  <2> QED
    BY <2>1, <2>2, <1>6
<1>9. next[L + 1] = Len(v)
  BY <1>2, <1>4, <1>6, <1>7
<1>10. \A m \in 1 .. L : next[m + 1] = next[m] + HeaderLen + lens[m]
  <2> SUFFICES ASSUME NEW m \in 1 .. L
               PROVE  next[m + 1] = next[m] + HeaderLen + lens[m]
    OBVIOUS
  <2>1. m \in Nat /\ m + 1 \in Nat /\ lens[m] \in Nat
    BY <1>2
  <2>2. start[m] \in Int /\ start[m + 1] = start[m] + HeaderLen + lens[m]
    BY <2>1, <1>4
  <2> QED
    BY <2>1, <2>2, <1>3, <1>7
<1>11. \A m \in 1 .. L + 1 : next[m] <= next[L + 1]
  <2> SUFFICES ASSUME NEW m \in 1 .. L + 1
               PROVE  next[m] <= next[L + 1]
    OBVIOUS
  <2>1. m \in Nat /\ L + 1 \in Nat /\ start[m] \in Int /\ start[L + 1] \in Int
    BY <1>2
  <2> QED
    BY <2>1, <1>4, <1>7
<1>12. ASSUME NEW m \in 1 .. L, NEW i \in 1 .. HeaderLen + lens[m],
              next[m] + i >= 1
       PROVE  v[next[m] + i] = <<m, i>>
  <2>1. m \in Nat /\ m + 1 \in 1 .. L + 1 /\ lens[m] \in Nat
    BY <1>2
  <2>2. start[m] \in Int /\ next[m] = start[m] - r
    BY <2>1, <1>7
  <2>3. start[m] + HeaderLen + lens[m] <= w
    BY <2>1, <1>4
  <2>4. /\ start[m] + i >= 1
        /\ next[m] + i \in 1 .. w - r
        /\ (next[m] + i) + r = start[m] + i
    BY <1>12, <2>1, <2>2, <2>3, <1>2, <1>3
  <2>5. u[start[m] + i] = <<m, i>>
    BY <2>4, <1>4
  <2> QED
    BY <2>4, <2>5, <1>6
<1>13. Starts(next)'
  <2>1. lens' = lens /\ L' = L
    BY DEF L, Moves
  <2> QED
    BY <2>1, <1>7, <1>8, <1>9, <1>10, <1>11, <1>12
    DEF Starts, L, c, d, o, e, w, u, v
<1> QED
  BY <1>7, <1>13 DEF Stream

\* A call reads the header of the present request as far as it goes.
LEMMA HeaderRead ==
  ASSUME IInv, open, stat = "request", NEW n \in 1 .. Len(wire)
  PROVE  /\ Cur \in 1 .. Len(lens) /\ Asked \in Nat
         /\ HeaderWith(n) \in Seq(AllBytes) /\ Behind(n) \in Seq(AllBytes)
         /\ Len(HeaderWith(n)) <= HeaderLen
         /\ \A i \in 1 .. Len(HeaderWith(n)) : HeaderWith(n)[i] = <<Cur, i>>
         /\ Len(HeaderWith(n)) < HeaderLen =>
              /\ reading = "header"
              /\ Len(HeaderWith(n)) = Len(header) + Len(Found(n))
         /\ Len(HeaderWith(n)) = HeaderLen =>
              /\ Asked <= Len(Found(n))
              /\ Len(Behind(n)) = Len(Found(n)) - Asked
              /\ \A j \in 1 .. Len(Behind(n)) :
                   Behind(n)[j] = Found(n)[Asked + j]
<1> DEFINE S == AllBytes
           f == Found(n)
           q == Read(f, Asked)
           h == HeaderWith(n)
           b == Behind(n)
           c == Cur
           u == Unread
           len == lens[Cur]
           a == Asked
           o == Offset
           hd == header
<1>1. /\ f \in Seq(S) /\ Len(f) \in Nat /\ Len(f) > 0
      /\ Len(u) > 0 /\ Len(f) <= Len(u)
      /\ \A k \in 1 .. Len(f) : f[k] = u[k]
  <2>1. Shape /\ f \in Seq(S) /\ Len(f) \in Nat \ {0}
    BY FoundProperties DEF IInv
  <2>2. 0 \in 0 .. Len(f)
    BY <2>1
  <2>3. /\ Len(u) \in Nat /\ Len(f) <= Len(u)
        /\ \A k \in 1 .. Len(f) : f[k] = u[k]
    BY <2>1, <2>2, Taken
  <2> HIDE DEF f, u
  <2> QED
    BY <2>1, <2>3
<1>2. /\ c \in 1 .. Len(lens) /\ len \in Nat
      /\ \A k \in 1 .. HeaderLen + len - o : u[k] = <<c, o + k>>
  BY <1>1, Ahead
<1>3. /\ hd \in Seq(S) /\ Len(hd) \in Nat /\ Len(hd) <= HeaderLen
      /\ \A i \in 1 .. Len(hd) : hd[i] = <<c, i>>
      /\ HeaderLen \in Nat
  <2>1. hd \in Seq(S) /\ Len(hd) \in Nat
    BY LenProperties DEF IInv, Shape
  <2>2. \A i \in 1 .. Len(hd) : hd[i] = <<c, i>>
    BY DEF IInv, Reading
  <2>3. Len(hd) <= HeaderLen
    BY <2>1, FramingAssumption DEF IInv, Shape, Reading
  <2> QED
    BY <2>1, <2>2, <2>3, FramingAssumption
<1>4. a = HeaderLen - Len(hd)
  BY <1>3 DEF IInv, Shape, Reading, Asked
<1>5. a = 0 \/ o = Len(hd)
  BY DEF Asked, Offset
<1>6. a # 0 => reading = "header"
  BY DEF Asked
<1>7. h = hd \o q /\ b = Left(f, a)
  BY DEF HeaderWith, Behind
<1> HIDE DEF S, f, u, c, len, a, o, hd
<1>8. a \in Nat
  BY <1>3, <1>4
<1>9. /\ q \in Seq(S) /\ Len(q) = IF a < Len(f) THEN a ELSE Len(f)
      /\ \A i \in 1 .. Len(q) : q[i] = f[i]
      /\ Left(f, a) \in Seq(S)
      /\ Len(Left(f, a)) = IF a < Len(f) THEN Len(f) - a ELSE 0
      /\ \A i \in 1 .. Len(Left(f, a)) : Left(f, a)[i] = f[a + i]
  BY <1>1, <1>8, ReadProperties DEF a
<1> HIDE DEF q, h, b
<1>10. /\ h \in Seq(S) /\ Len(h) = Len(hd) + Len(q)
       /\ \A i \in 1 .. Len(hd) + Len(q) :
            h[i] = IF i <= Len(hd) THEN hd[i] ELSE q[i - Len(hd)]
  <2>1. q \in Seq(S)
    BY <1>9
  <2> QED
    BY <1>3, <1>7, <2>1, ConcatProperties
<1>11. Len(h) <= HeaderLen
  BY <1>1, <1>3, <1>4, <1>8, <1>9, <1>10
<1>12. ASSUME NEW i \in 1 .. Len(h)
       PROVE  h[i] = <<c, i>>
  <2>1. i \in 1 .. Len(hd) + Len(q)
    BY <1>10
  <2>2. CASE i <= Len(hd)
    <3>1. i \in 1 .. Len(hd)
      BY <2>1, <2>2, <1>3
    <3> QED
      BY <1>3, <1>10, <2>1, <2>2, <3>1
  <2>3. CASE ~(i <= Len(hd))
    <3> DEFINE k == i - Len(hd)
    <3>1. k \in 1 .. Len(q) /\ k \in 1 .. a /\ k \in 1 .. Len(f)
      BY <2>1, <2>3, <1>1, <1>3, <1>8, <1>9
    <3>2. o = Len(hd) /\ a = HeaderLen - o
      BY <3>1, <1>4, <1>5
    <3>3. k \in 1 .. HeaderLen + len - o /\ o + k = i
      BY <3>1, <3>2, <1>2, <1>3
    <3>4. u[k] = <<c, i>>
      BY <3>3, <1>2
    <3>5. h[i] = q[k]
      BY <2>1, <2>3, <1>10
    <3> QED
      BY <3>1, <3>4, <3>5, <1>1, <1>9
  <2> QED
    BY <2>2, <2>3
<1>13. Len(h) < HeaderLen =>
         reading = "header" /\ Len(h) = Len(hd) + Len(f)
  BY <1>1, <1>3, <1>4, <1>6, <1>8, <1>9, <1>10
<1>14. Len(h) = HeaderLen => a <= Len(f) /\ Len(Left(f, a)) = Len(f) - a
  <2>1. Len(h) = HeaderLen => a <= Len(f)
    BY <1>1, <1>3, <1>4, <1>8, <1>9, <1>10
  <2>2. a <= Len(f) => Len(Left(f, a)) = Len(f) - a
    BY <1>1, <1>8, <1>9
  <2> QED
    BY <2>1, <2>2
<1> QED
  BY <1>2, <1>7, <1>8, <1>9, <1>10, <1>11, <1>12, <1>13, <1>14
  DEF S, f, h, b, c, a, hd

\* Ten bytes taken for a header are the header of the present request.
LEMMA HeaderWhole ==
  ASSUME IInv, open, stat = "request", NEW n \in 1 .. Len(wire),
         Len(HeaderWith(n)) = HeaderLen
  PROVE  /\ HeaderWith(n)[1][1] = Cur
         /\ IsGood(HeaderWith(n)) <=> lens[Cur] \in 1 .. MaxMessage
<1> DEFINE h == HeaderWith(n)
           b == Bytes(Cur, 1, HeaderLen)
           c == Cur
<1>1. /\ c \in 1 .. Len(lens) /\ h \in Seq(AllBytes) /\ Len(h) = HeaderLen
      /\ \A i \in 1 .. Len(h) : h[i] = <<c, i>>
  BY HeaderRead
<1>2. HeaderLen \in Nat /\ 1 \in 1 .. HeaderLen
  BY FramingAssumption
<1>3. c \in 1 .. MaxRequests
  <2>1. Len(lens) \in Nat /\ Len(lens) <= MaxRequests
    BY LenProperties DEF IInv, Shape
  <2> HIDE DEF c
  <2> QED
    BY <1>1, <2>1, FramingAssumption
<1>4. /\ b \in Seq(AllBytes) /\ Len(b) = HeaderLen - 1 + 1
      /\ \A i \in 1 .. HeaderLen - 1 + 1 : b[i] = <<c, 1 + i - 1>>
  <2>1. 1 \in Nat /\ HeaderLen \in Nat /\ 1 <= HeaderLen + 1
    BY <1>2
  <2> HIDE DEF c
  <2> QED
    BY <1>3, <2>1, BytesProperties DEF c
<1> HIDE DEF h, b, c
<1>5. Len(b) = HeaderLen /\ \A i \in 1 .. HeaderLen : b[i] = <<c, i>>
  BY <1>2, <1>4
<1>6. h = b
  <2>1. Len(h) = Len(b) /\ \A i \in 1 .. Len(h) : h[i] = b[i]
    BY <1>1, <1>5
  <2> QED
    BY <1>1, <1>4, <2>1, SeqEqual
<1>7. h[1][1] = c
  BY <1>1, <1>2
<1> QED
  BY <1>6, <1>7 DEF h, b, c, IsGood

\* What is known of the message when the header is there.
LEMMA MessageRead ==
  ASSUME IInv, open, NEW n \in 1 .. Len(wire), HasHeader(n)
  PROVE  /\ Announced(n) = lens[Cur] /\ lens[Cur] \in 1 .. MaxMessage
         /\ Kept \in Seq(AllBytes) /\ Missing(n) \in Nat \ {0}
         /\ Len(Kept) + Missing(n) = lens[Cur]
         /\ \A i \in 1 .. Len(Kept) : Kept[i] = <<Cur, HeaderLen + i>>
         /\ Offset + Asked = HeaderLen + Len(Kept)
         /\ Offset \in Nat
         /\ \A j \in 1 .. Len(Behind(n)) : j <= Missing(n) =>
              Behind(n)[j] = <<Cur, HeaderLen + (Len(Kept) + j)>>
<1> DEFINE f == Found(n)
           b == Behind(n)
           c == Cur
           u == Unread
           len == lens[Cur]
           a == Asked
           o == Offset
           k == Len(Kept)
           m == Missing(n)
<1>1. stat = "request" /\ Len(HeaderWith(n)) = HeaderLen
  BY DEF HasHeader
<1>2. /\ c \in 1 .. Len(lens) /\ a \in Nat /\ b \in Seq(AllBytes)
      /\ a <= Len(f) /\ Len(b) = Len(f) - a
      /\ \A j \in 1 .. Len(b) : b[j] = f[a + j]
  BY <1>1, HeaderRead
<1>3. /\ Len(u) \in Nat /\ Len(f) <= Len(u) /\ Len(f) \in Nat /\ Len(f) > 0
      /\ \A i \in 1 .. Len(f) : f[i] = u[i]
  <2>1. Shape /\ Len(f) \in Nat \ {0}
    BY FoundProperties DEF IInv
  <2>2. 0 \in 0 .. Len(f)
    BY <2>1
  <2>3. /\ Len(u) \in Nat /\ Len(f) <= Len(u)
        /\ \A i \in 1 .. Len(f) : f[i] = u[i]
    BY <2>1, <2>2, Taken
  <2> HIDE DEF f, u
  <2> QED
    BY <2>1, <2>3
<1>4. \A i \in 1 .. HeaderLen + len - o : u[i] = <<c, o + i>>
  <2>1. Len(u) > 0
    <3> HIDE DEF u, f
    <3> QED
      BY <1>3
  <2> QED
    BY <2>1, Ahead
<1>5. HeaderLen \in Nat /\ MaxMessage \in Nat
  BY FramingAssumption
<1>6. /\ Announced(n) = len /\ len \in 1 .. MaxMessage
      /\ Kept \in Seq(AllBytes) /\ k < len /\ k \in Nat
      /\ o + a = HeaderLen + k /\ o \in Nat
  <2>1. CASE reading = "header"
    <3>1. Kept = <<>> /\ Kept \in Seq(AllBytes) /\ k = 0
      BY <2>1, EmptySeq DEF Kept
    <3>2. IsGood(HeaderWith(n)) /\ Announced(n) = lens[HeaderWith(n)[1][1]]
      BY <2>1 DEF HasHeader, Announced
    <3>3. Announced(n) = len /\ len \in 1 .. MaxMessage
      BY <1>1, <3>2, HeaderWhole
    <3>4. o = Len(header) /\ a = HeaderLen - Len(header)
      BY <1>1, <2>1 DEF Offset, Asked
    <3>5. Len(header) \in Nat
      BY LenProperties DEF IInv, Shape
    <3> HIDE DEF k, o, a, len
    <3> QED
      BY <3>1, <3>3, <3>4, <3>5, <1>5
  <2>2. CASE reading = "message"
    <3>1. /\ Announced(n) = need /\ Kept = body
          /\ a = 0 /\ o = HeaderLen + Len(body)
      BY <1>1, <2>2 DEF Announced, Kept, Asked, Offset
    <3>2. need = len /\ Len(body) < need
      BY <1>1, <2>2 DEF IInv, Reading
    <3>3. /\ body \in Seq(AllBytes) /\ Len(body) \in Nat
          /\ need \in 0 .. MaxMessage
      BY LenProperties DEF IInv, Shape
    <3> HIDE DEF o, a, len
    <3> QED
      BY <3>1, <3>2, <3>3, <1>5
  <2> QED
    BY <2>1, <2>2 DEF IInv, Shape
<1>7. \A i \in 1 .. Len(Kept) : Kept[i] = <<c, HeaderLen + i>>
  <2>1. CASE reading = "header"
    BY <2>1, EmptySeq DEF Kept
  <2>2. CASE reading = "message"
    <3>1. Kept = body
      BY <2>2 DEF Kept
    <3> QED
      BY <3>1, <1>1 DEF IInv, Reading
  <2> QED
    BY <2>1, <2>2 DEF IInv, Shape
<1>8. m = len - k
  BY <1>6 DEF Missing
<1> HIDE DEF f, b, c, u, len, a, o, k, m
<1>9. m \in Nat \ {0} /\ k + m = len
  BY <1>5, <1>6, <1>8
<1>10. ASSUME NEW j \in 1 .. Len(b), j <= m
       PROVE  b[j] = <<c, HeaderLen + (k + j)>>
  <2>1. /\ a + j \in 1 .. Len(f) /\ j \in 1 .. Len(b)
        /\ a + j \in 1 .. HeaderLen + len - o
        /\ o + (a + j) = HeaderLen + (k + j)
    BY <1>10, <1>2, <1>3, <1>5, <1>6, <1>9
  <2>2. b[j] = u[a + j]
    BY <2>1, <1>2, <1>3
  <2>3. u[a + j] = <<c, o + (a + j)>>
    BY <2>1, <1>4
  <2> QED
    BY <2>1, <2>2, <2>3
<1> QED
  BY <1>6, <1>7, <1>9, <1>10 DEF b, c, len, a, o, k, m

\* A part of the message goes behind the part that is there.
LEMMA MessagePart ==
  ASSUME IInv, open, NEW n \in 1 .. Len(wire), HasHeader(n),
         Len(Behind(n)) < Missing(n)
  PROVE  /\ Kept \o Behind(n) \in Seq(AllBytes)
         /\ Len(Kept \o Behind(n)) = Len(Kept) + Len(Behind(n))
         /\ Len(Kept \o Behind(n)) < lens[Cur]
         /\ \A i \in 1 .. Len(Kept \o Behind(n)) :
              (Kept \o Behind(n))[i] = <<Cur, HeaderLen + i>>
<1> DEFINE b == Behind(n)
           c == Cur
           len == lens[Cur]
           k == Kept
           m == Missing(n)
           w == k \o b
<1>1. stat = "request" /\ Len(HeaderWith(n)) = HeaderLen
  BY DEF HasHeader
<1>2. b \in Seq(AllBytes)
  BY <1>1, HeaderRead
<1>3. /\ k \in Seq(AllBytes) /\ m \in Nat \ {0} /\ Len(k) + m = len
      /\ \A i \in 1 .. Len(k) : k[i] = <<c, HeaderLen + i>>
      /\ \A j \in 1 .. Len(b) :
           j <= m => b[j] = <<c, HeaderLen + (Len(k) + j)>>
  BY MessageRead
<1>4. Len(b) < m
  OBVIOUS
<1> HIDE DEF b, c, len, k, m
<1>5. /\ w \in Seq(AllBytes) /\ Len(w) = Len(k) + Len(b)
      /\ \A i \in 1 .. Len(k) + Len(b) :
           w[i] = IF i <= Len(k) THEN k[i] ELSE b[i - Len(k)]
  BY <1>2, <1>3, ConcatProperties
<1>6. Len(k) \in Nat /\ Len(b) \in Nat
  BY <1>2, <1>3, LenProperties
<1> HIDE DEF w
<1>7. Len(w) < len
  BY <1>3, <1>4, <1>5, <1>6
<1>8. ASSUME NEW i \in 1 .. Len(w)
      PROVE  w[i] = <<c, HeaderLen + i>>
  <2>1. i \in 1 .. Len(k) + Len(b)
    BY <1>5
  <2>2. CASE i <= Len(k)
    <3>1. i \in 1 .. Len(k)
      BY <2>1, <2>2, <1>6
    <3> QED
      BY <3>1, <2>1, <2>2, <1>3, <1>5
  <2>3. CASE ~(i <= Len(k))
    <3>1. /\ i - Len(k) \in 1 .. Len(b) /\ i - Len(k) <= m
          /\ Len(k) + (i - Len(k)) = i
      BY <2>1, <2>3, <1>3, <1>4, <1>6
    <3>2. w[i] = b[i - Len(k)]
      BY <2>1, <2>3, <1>5
    <3>3. b[i - Len(k)] = <<c, HeaderLen + (Len(k) + (i - Len(k)))>>
      BY <3>1, <1>3
    <3> QED
      BY <3>1, <3>2, <3>3
  <2> QED
    BY <2>2, <2>3
<1> QED
  BY <1>5, <1>7, <1>8 DEF b, c, len, k, w

\* With the last byte, read_buf holds the body that the client sent.
LEMMA MessageWhole ==
  ASSUME IInv, open, NEW n \in 1 .. Len(wire), HasHeader(n),
         Len(Behind(n)) >= Missing(n)
  PROVE  /\ Kept \o Read(Behind(n), Missing(n)) = BodyOf(Cur, lens[Cur])
         /\ BodyOf(Cur, lens[Cur]) \in Seq(AllBytes)
<1> DEFINE b == Behind(n)
           c == Cur
           len == lens[Cur]
           k == Kept
           m == Missing(n)
           q == Read(b, m)
           w == k \o q
           v == BodyOf(c, len)
<1>1. stat = "request" /\ Len(HeaderWith(n)) = HeaderLen
  BY DEF HasHeader
<1>2. b \in Seq(AllBytes) /\ c \in 1 .. Len(lens)
  BY <1>1, HeaderRead
<1>3. /\ k \in Seq(AllBytes) /\ m \in Nat \ {0} /\ Len(k) + m = len
      /\ \A i \in 1 .. Len(k) : k[i] = <<c, HeaderLen + i>>
      /\ \A j \in 1 .. Len(b) :
           j <= m => b[j] = <<c, HeaderLen + (Len(k) + j)>>
  BY MessageRead
<1>4. Len(b) >= m
  OBVIOUS
<1>5. c \in 1 .. MaxRequests
  <2>1. Len(lens) \in Nat /\ Len(lens) <= MaxRequests
    BY LenProperties DEF IInv, Shape
  <2> HIDE DEF c
  <2> QED
    BY <1>2, <2>1, FramingAssumption
<1> HIDE DEF b, c, len, k, m
<1>6. /\ Len(k) \in Nat /\ Len(b) \in Nat /\ m \in Nat /\ len \in Nat
      /\ HeaderLen \in Nat
  BY <1>2, <1>3, LenProperties, FramingAssumption
<1>7. /\ q \in Seq(AllBytes) /\ Len(q) = IF m < Len(b) THEN m ELSE Len(b)
      /\ \A i \in 1 .. Len(q) : q[i] = b[i]
  BY <1>2, <1>6, ReadProperties
<1> HIDE DEF q
<1>8. Len(q) = m
  BY <1>4, <1>6, <1>7
<1>9. /\ w \in Seq(AllBytes) /\ Len(w) = Len(k) + Len(q)
      /\ \A i \in 1 .. Len(k) + Len(q) :
           w[i] = IF i <= Len(k) THEN k[i] ELSE q[i - Len(k)]
  <2>1. q \in Seq(AllBytes)
    BY <1>7
  <2> QED
    BY <1>3, <2>1, ConcatProperties
<1> HIDE DEF w
<1>10. /\ v \in Seq(AllBytes) /\ Len(v) = len
       /\ \A i \in 1 .. len : v[i] = <<c, HeaderLen + i>>
  <2> DEFINE first == HeaderLen + 1
             last == HeaderLen + len
  <2>1. first \in Nat /\ last \in Nat /\ first <= last + 1
    BY <1>6
  <2>2. v = Bytes(c, first, last)
    BY DEF BodyOf
  <2> HIDE DEF v, first, last
  <2>3. /\ v \in Seq(AllBytes) /\ Len(v) = last - first + 1
        /\ \A i \in 1 .. last - first + 1 : v[i] = <<c, first + i - 1>>
    BY <1>5, <2>1, <2>2, BytesProperties
  <2>4. last - first + 1 = len
    BY <1>6 DEF first, last
  <2>5. \A i \in 1 .. len : first + i - 1 = HeaderLen + i
    BY <1>6 DEF first
  <2> QED
    BY <2>3, <2>4, <2>5
<1> HIDE DEF v
<1>11. ASSUME NEW i \in 1 .. Len(w)
       PROVE  w[i] = v[i]
  <2>1. i \in 1 .. Len(k) + Len(q) /\ i \in 1 .. len
    BY <1>3, <1>8, <1>9
  <2>2. w[i] = <<c, HeaderLen + i>>
    <3>1. CASE i <= Len(k)
      <4>1. i \in 1 .. Len(k)
        BY <2>1, <3>1, <1>6
      <4> QED
        BY <4>1, <2>1, <3>1, <1>3, <1>9
    <3>2. CASE ~(i <= Len(k))
      <4>1. /\ i - Len(k) \in 1 .. Len(b) /\ i - Len(k) \in 1 .. Len(q)
            /\ i - Len(k) <= m /\ Len(k) + (i - Len(k)) = i
        BY <2>1, <3>2, <1>4, <1>6, <1>8
      <4>2. w[i] = q[i - Len(k)]
        BY <2>1, <3>2, <1>9
      <4>3. b[i - Len(k)] = <<c, HeaderLen + (Len(k) + (i - Len(k)))>>
        BY <4>1, <1>3
      <4> QED
        BY <4>1, <4>2, <4>3, <1>7
    <3> QED
      BY <3>1, <3>2
  <2> QED
    BY <2>1, <2>2, <1>10
<1>12. w = v
  <2>1. Len(w) = Len(v)
    BY <1>3, <1>8, <1>9, <1>10
  <2> QED
    BY <2>1, <1>9, <1>10, <1>11, SeqEqual
<1> QED
  BY <1>10, <1>12 DEF b, c, len, k, m, q, w, v

\* Bytes left twice are left once.
LEMMA LeftProperties ==
  ASSUME NEW S, NEW s \in Seq(S)
  PROVE  /\ Left(s, 0) = s
         /\ Left(s, Len(s)) = <<>>
         /\ \A j \in 0 .. Len(s) : \A k \in 0 .. Len(s) - j :
              Left(Left(s, j), k) = Left(s, j + k)
<1>1. Len(s) \in Nat /\ 0 \in Nat
  BY LenProperties
<1>2. Left(s, 0) = s
  <2> DEFINE t == Left(s, 0)
  <2>1. /\ t \in Seq(S) /\ Len(t) = IF 0 < Len(s) THEN Len(s) - 0 ELSE 0
        /\ \A i \in 1 .. Len(t) : t[i] = s[0 + i]
    BY <1>1, ReadProperties
  <2> HIDE DEF t
  <2>2. Len(t) = Len(s) /\ \A i \in 1 .. Len(t) : t[i] = s[i]
    BY <1>1, <2>1
  <2>3. t = s
    BY <2>1, <2>2, SeqEqual
  <2> QED
    BY <2>3 DEF t
<1>3. Left(s, Len(s)) = <<>>
  <2>1. Len(s) + 1 \in Int /\ Len(s) \in Int /\ Len(s) < Len(s) + 1
    BY <1>1
  <2> QED
    BY <2>1, SubSeqEmpty DEF Left
<1>4. ASSUME NEW j \in 0 .. Len(s), NEW k \in 0 .. Len(s) - j
      PROVE  Left(Left(s, j), k) = Left(s, j + k)
  <2> DEFINE t == Left(s, j)
             u == Left(t, k)
             v == Left(s, j + k)
  <2>1. j \in Nat /\ k \in Nat /\ j + k \in Nat /\ j + k <= Len(s)
    BY <1>1
  <2>2. /\ t \in Seq(S) /\ Len(t) = IF j < Len(s) THEN Len(s) - j ELSE 0
        /\ \A i \in 1 .. Len(t) : t[i] = s[j + i]
    BY <2>1, ReadProperties
  <2>3. /\ v \in Seq(S)
        /\ Len(v) = IF j + k < Len(s) THEN Len(s) - (j + k) ELSE 0
        /\ \A i \in 1 .. Len(v) : v[i] = s[(j + k) + i]
    BY <2>1, ReadProperties
  <2> HIDE DEF t, v
  <2>4. /\ u \in Seq(S) /\ Len(u) = IF k < Len(t) THEN Len(t) - k ELSE 0
        /\ \A i \in 1 .. Len(u) : u[i] = t[k + i]
    BY <2>1, <2>2, ReadProperties
  <2> HIDE DEF u
  <2>5. Len(u) = Len(v)
    <3> DEFINE ls == Len(s)
               lt == Len(t)
    <3>1. /\ ls \in Nat /\ j \in Nat /\ k \in Nat /\ j + k <= ls
          /\ lt = IF j < ls THEN ls - j ELSE 0
      BY <1>1, <2>1, <2>2
    <3>2. /\ Len(u) = IF k < lt THEN lt - k ELSE 0
          /\ Len(v) = IF j + k < ls THEN ls - (j + k) ELSE 0
      BY <2>3, <2>4
    <3> HIDE DEF ls, lt
    <3> QED
      BY <3>1, <3>2
  <2>6. ASSUME NEW i \in 1 .. Len(u)
        PROVE  u[i] = v[i]
    <3>1. k + i \in 1 .. Len(t) /\ j + (k + i) = (j + k) + i
      BY <1>1, <2>1, <2>2, <2>4
    <3> QED
      BY <3>1, <2>2, <2>3, <2>4, <2>5
  <2>7. u = v
    BY <2>3, <2>4, <2>5, <2>6, SeqEqual
  <2> QED
    BY <2>7 DEF t, u, v
<1> QED
  BY <1>2, <1>3, <1>4

-----------------------------------------------------------------------------
(***************************************************************************)
(* The invariant holds at first and is kept by every step.                 *)
(***************************************************************************)

LEMMA Initially ==
  ASSUME Init
  PROVE  IInv
<1>1. /\ Len(<<>>) = 0 /\ <<>> \in Seq(AllBytes) /\ <<>> \in Seq(Lengths)
      /\ <<>> \in Seq(Seq(AllBytes))
  BY EmptySeq
<1>2. Shape
  BY <1>1, FramingAssumption DEF Init, Shape
<1>3. Reading
  BY <1>1, FramingAssumption DEF Init, Reading
<1> DEFINE start == [m \in Nat |-> 0]
<1>4. start \in [Nat -> Int] /\ start[1] = 0
  OBVIOUS
<1> HIDE DEF start
<1>5. Starts(start)
  <2>1. Unread = <<>>
    BY <1>1, ConcatEmptySeq DEF Init, Unread
  <2>2. Cur = 1 /\ Offset = 0 /\ Len(lens) = 0 /\ Len(Unread) = 0
    BY <1>1, <2>1 DEF Init, Cur, Offset
  <2>3. /\ start[Cur] = -Offset /\ start[Len(lens) + 1] = Len(Unread)
        /\ \A m \in 1 .. Len(lens) + 1 : start[m] <= start[Len(lens) + 1]
    BY <1>4, <2>2
  <2>4. \A m \in 1 .. Len(lens) : FALSE
    BY <2>2
  <2> QED
    BY <1>4, <2>3, <2>4 DEF Starts
<1>6. Stream
  BY <1>4, <1>5 DEF Stream
<1> QED
  BY <1>2, <1>3, <1>6 DEF IInv

\* A call of handle_request that takes r bytes moves the stream by r.
LEMMA CallMoves ==
  ASSUME IInv, open, NEW n \in 1 .. Len(wire), NEW r \in 0 .. Len(Found(n)),
         Arrives(n), buffer' = Left(Found(n), r),
         \/ Cur' = Cur /\ Offset' = Offset + r
         \/ /\ Cur' = Cur + 1 /\ Offset' = 0
            /\ Cur <= Len(lens) /\ r = HeaderLen + lens[Cur] - Offset
  PROVE  Stream'
<1>1. Unread' = Left(Found(n), r) \o Left(wire, n)
  BY DEF Unread, Arrives
<1>2. /\ Len(Found(n)) \in Nat
      /\ Len(Unread) \in Nat /\ Len(Found(n)) <= Len(Unread)
      /\ Len(Left(Found(n), r) \o Left(wire, n)) = Len(Unread) - r
      /\ \A k \in 1 .. Len(Unread) - r :
           (Left(Found(n), r) \o Left(wire, n))[k] = Unread[k + r]
  BY Taken, FoundProperties DEF IInv
<1>3. r \in Nat /\ r <= Len(Unread)
  BY <1>2
<1>4. Moves(r)
  BY <1>1, <1>2, <1>3 DEF Moves, Arrives
<1> QED
  BY <1>3, <1>4, StreamMoves

\* A request sent goes behind all others.
LEMMA StreamGrows ==
  ASSUME IInv, NEW len \in Lengths, Send(len)
  PROVE  Stream'
<1> DEFINE L == Len(lens)
           c == Cur
           o == Offset
           u == Unread
           w == Len(Unread)
           v == Unread'
           p == L + 1
           size == HeaderLen + len
           b == Bytes(p, 1, size)
           ls == lens'
<1>1. /\ L \in Nat /\ \A m \in 1 .. L : lens[m] \in Nat
      /\ c \in 1 .. L + 1 /\ HeaderLen \in Nat /\ len \in Nat /\ o \in Nat
      /\ p \in 1 .. MaxRequests
  <2>1. /\ L \in Nat /\ Len(parsed) \in Nat
        /\ \A m \in 1 .. L : lens[m] \in Nat
    BY LenProperties, ElementOfSeq, FramingAssumption DEF IInv, Shape
  <2>2. Len(header) \in Nat /\ Len(body) \in Nat
    BY LenProperties DEF IInv, Shape
  <2>3. L < MaxRequests
    BY DEF Send
  <2> QED
    BY <2>1, <2>2, <2>3, FramingAssumption
    DEF IInv, Reading, Cur, Offset
<1>2. /\ Len(ls) = L + 1 /\ ls[L + 1] = len
      /\ \A m \in 1 .. L : ls[m] = lens[m]
  <2>1. lens \in Seq(Lengths)
    BY DEF IInv, Shape
  <2> QED
    BY <2>1, AppendProperties DEF Send
<1>3. /\ u \in Seq(AllBytes) /\ buffer \in Seq(AllBytes)
      /\ wire \in Seq(AllBytes) /\ Len(u) \in Nat
  BY ConcatProperties, LenProperties DEF IInv, Shape, Unread
<1>4. /\ b \in Seq(AllBytes) /\ Len(b) = size
      /\ \A i \in 1 .. size : b[i] = <<p, i>>
  <2>1. 1 \in Nat /\ size \in Nat /\ 1 <= size + 1
    BY <1>1
  <2>2. size - 1 + 1 = size /\ \A i \in 1 .. size : 1 + i - 1 = i
    BY <1>1
  <2> HIDE DEF p, size
  <2>3. /\ b \in Seq(AllBytes) /\ Len(b) = size - 1 + 1
        /\ \A i \in 1 .. size - 1 + 1 : b[i] = <<p, 1 + i - 1>>
    BY <1>1, <2>1, BytesProperties
  <2> QED
    BY <2>2, <2>3
<1>5. v = u \o b
  <2> DEFINE x == buffer
             y == wire
             S == AllBytes
  <2>1. v = x \o (y \o b) /\ u = x \o y
    BY DEF Send, Unread
  <2>2. x \in Seq(S) /\ y \in Seq(S) /\ b \in Seq(S)
    BY <1>3, <1>4
  <2> HIDE DEF x, y, S, b, u, v
  <2>3. (x \o y) \o b = x \o (y \o b)
    BY <2>2, ConcatAssociative
  <2> QED
    BY <2>1, <2>3
<1>6. PICK start \in [Nat -> Int] : Starts(start)
  BY DEF IInv, Stream, Send
<1>7. c = Cur' /\ o = Offset'
  BY DEF Send, session, Cur, Offset
<1> HIDE DEF u, b, size, v
<1>8. /\ Len(v) = w + size
      /\ \A k \in 1 .. w + size : v[k] = IF k <= w THEN u[k] ELSE b[k - w]
  BY <1>3, <1>4, <1>5, ConcatProperties DEF u
<1>9. /\ start[c] = -o /\ start[L + 1] = w
      /\ \A m \in 1 .. L : start[m + 1] = start[m] + HeaderLen + lens[m]
      /\ \A m \in 1 .. L + 1 : start[m] <= start[L + 1]
      /\ \A m \in 1 .. L : \A i \in 1 .. HeaderLen + lens[m] :
           start[m] + i >= 1 => u[start[m] + i] = <<m, i>>
  BY <1>6 DEF Starts, u
<1>10. w \in Nat
  BY <1>3 DEF u
<1>11. PICK next \in [Nat -> Int] :
         /\ next[L + 2] = w + HeaderLen + len
         /\ \A m \in 1 .. L + 1 : next[m] = start[m]
  <2> DEFINE f == [start EXCEPT ![L + 2] = w + HeaderLen + len]
  <2>1. L + 2 \in Nat /\ w + HeaderLen + len \in Int
    BY <1>1, <1>10
  <2>2. \A m \in 1 .. L + 1 : m \in Nat /\ m # L + 2
    BY <1>1
  <2> HIDE DEF L, w
  <2>3. /\ f \in [Nat -> Int] /\ f[L + 2] = w + HeaderLen + len
        /\ \A m \in 1 .. L + 1 : f[m] = start[m]
    BY <2>1, <2>2
  <2> QED
    BY <2>3
<1> HIDE DEF L, c, o, w, p, ls
<1>12. next[c] = -o /\ next[L + 2] = Len(v) /\ next[L + 1] = w
  BY <1>1, <1>8, <1>9, <1>10, <1>11 DEF size
<1>13. ASSUME NEW m \in 1 .. L + 1
       PROVE  next[m + 1] = next[m] + HeaderLen + ls[m]
  <2>1. CASE m = L + 1
    <3>1. m + 1 = L + 2
      BY <2>1, <1>1
    <3> QED
      BY <2>1, <3>1, <1>2, <1>11, <1>12 DEF L
  <2>2. CASE m # L + 1
    <3>1. m \in 1 .. L /\ m + 1 \in 1 .. L + 1
      BY <2>2, <1>1
    <3> QED
      BY <3>1, <1>2, <1>9, <1>11
  <2> QED
    BY <2>1, <2>2
<1>14. ASSUME NEW m \in 1 .. L + 2
       PROVE  next[m] <= next[L + 2]
  <2>1. CASE m = L + 2
    <3>1. next[L + 2] \in Int
      BY <1>1, <1>10, <1>11
    <3> QED
      BY <2>1, <3>1
  <2>2. CASE m # L + 2
    <3>1. m \in 1 .. L + 1 /\ m \in Nat
      BY <2>2, <1>1
    <3>2. start[m] \in Int /\ start[m] <= w /\ next[m] = start[m]
      BY <3>1, <1>9, <1>11
    <3> QED
      BY <3>2, <1>1, <1>10, <1>11
  <2> QED
    BY <2>1, <2>2
<1>15. ASSUME NEW m \in 1 .. L + 1, NEW i \in 1 .. HeaderLen + ls[m],
              next[m] + i >= 1
       PROVE  v[next[m] + i] = <<m, i>>
  <2>1. CASE m = L + 1
    <3>1. next[m] = w /\ ls[m] = len /\ m = p
      BY <2>1, <1>2, <1>12 DEF L, p
    <3>2. /\ i \in 1 .. size /\ w + i \in 1 .. w + size
          /\ ~(w + i <= w) /\ (w + i) - w = i
      BY <3>1, <1>1, <1>10 DEF size
    <3>3. v[w + i] = b[i]
      BY <3>2, <1>8
    <3> QED
      BY <3>1, <3>2, <3>3, <1>4
  <2>2. CASE m # L + 1
    <3>1. m \in 1 .. L /\ m \in 1 .. L + 1 /\ m + 1 \in 1 .. L + 1 /\ m \in Nat
      BY <2>2, <1>1
    <3>2. ls[m] = lens[m] /\ lens[m] \in Nat /\ next[m] = start[m]
      BY <3>1, <1>1, <1>2, <1>11
    <3>3. start[m] \in Int /\ start[m] + HeaderLen + lens[m] <= w
      BY <3>1, <1>9
    <3>4. start[m] + i \in 1 .. w /\ start[m] + i \in 1 .. w + size
      BY <1>15, <3>2, <3>3, <1>1, <1>10 DEF size
    <3>5. v[start[m] + i] = u[start[m] + i]
      <4> DEFINE k == start[m] + i
      <4>1. k \in 1 .. w + size /\ k <= w
        BY <3>4, <1>10
      <4> HIDE DEF k
      <4>2. v[k] = u[k]
        BY <4>1, <1>8
      <4> QED
        BY <4>2 DEF k
    <3>6. u[start[m] + i] = <<m, i>>
      BY <1>15, <3>1, <3>2, <1>9
    <3> QED
      BY <3>2, <3>5, <3>6
  <2> QED
    BY <2>1, <2>2
<1>16. Starts(next)'
  <2>1. Len(ls) + 1 = L + 2 /\ Len(ls) = L + 1
    BY <1>1, <1>2 DEF L
  <2> QED
    BY <2>1, <1>7, <1>11, <1>12, <1>13, <1>14, <1>15
    DEF Starts, c, o, v, ls
<1> QED
  BY <1>11, <1>16 DEF Stream

LEMMA ShapeStep ==
  ASSUME IInv, [Next]_vars
  PROVE  Shape'
<1>1. CASE UNCHANGED vars
  BY <1>1 DEF IInv, Shape, vars, session
<1>2. ASSUME NEW len \in Lengths, Send(len)
      PROVE  Shape'
  <2> DEFINE m == Len(lens) + 1
             b == Bytes(m, 1, HeaderLen + len)
  <2>1. Len(lens) \in Nat /\ m \in 1 .. MaxRequests
    BY <1>2, LenProperties, FramingAssumption DEF IInv, Shape, Send
  <2>2. lens' \in Seq(Lengths) /\ Len(lens') <= MaxRequests
    <3>1. lens \in Seq(Lengths)
      BY DEF IInv, Shape
    <3>2. Append(lens, len) \in Seq(Lengths) /\ Len(Append(lens, len)) = m
      BY <3>1, AppendProperties
    <3> QED
      BY <1>2, <2>1, <3>2, FramingAssumption DEF Send
  <2>3. b \in Seq(AllBytes)
    <3>1. 1 \in Nat /\ HeaderLen + len \in Nat /\ 1 <= HeaderLen + len + 1
      BY FramingAssumption
    <3> HIDE DEF m
    <3> QED
      BY <2>1, <3>1, BytesProperties
  <2>4. wire' \in Seq(AllBytes)
    <3> HIDE DEF b
    <3> QED
      BY <1>2, <2>3, ConcatProperties DEF IInv, Shape, Send, b
  <2> QED
    BY <1>2, <2>2, <2>4 DEF IInv, Shape, Send, session
<1>3. ASSUME Close
      PROVE  Shape'
  BY <1>3, EmptySeq DEF IInv, Shape, Close, session
<1>4. ASSUME NEW n \in 1 .. Len(wire), Arrives(n)
      PROVE  wire' \in Seq(AllBytes) /\ Found(n) \in Seq(AllBytes)
  BY <1>4, FoundProperties DEF IInv, Arrives
<1>5. ASSUME NEW n \in 1 .. Len(wire), HandleWrongState(n)
      PROVE  Shape'
  <2>1. Arrives(n)
    BY <1>5 DEF HandleWrongState
  <2> QED
    BY <1>4, <1>5, <2>1
    DEF HandleWrongState, Arrives, IInv, Shape, session
<1>6. ASSUME NEW n \in 1 .. Len(wire), HandlePartOfHeader(n)
      PROVE  Shape'
  <2>1. Arrives(n) /\ HeaderWith(n) \in Seq(AllBytes) /\ <<>> \in Seq(AllBytes)
    BY <1>6, HeaderRead, EmptySeq DEF HandlePartOfHeader, Arrives
  <2>2. wire' \in Seq(AllBytes)
    BY <2>1, <1>4
  <2> QED
    BY <1>6, <2>1, <2>2 DEF HandlePartOfHeader, Arrives, IInv, Shape
<1>7. ASSUME NEW n \in 1 .. Len(wire), Arrives(n), HasHeader(n)
      PROVE  /\ header' \in Seq(AllBytes) /\ need' \in 0 .. MaxMessage
             /\ reading' \in {"header", "message"}
             /\ Behind(n) \in Seq(AllBytes) /\ Missing(n) \in Nat
  <2>1. HeaderWith(n) \in Seq(AllBytes) /\ Behind(n) \in Seq(AllBytes)
    BY <1>7, HeaderRead DEF HasHeader, Arrives
  <2>2. Announced(n) \in 1 .. MaxMessage /\ Missing(n) \in Nat \ {0}
    BY <1>7, MessageRead DEF Arrives
  <2>3. Announced(n) \in 0 .. MaxMessage
    BY <2>2, FramingAssumption
  <2> QED
    BY <1>7, <2>1, <2>2, <2>3 DEF HasHeader
<1>8. ASSUME NEW n \in 1 .. Len(wire), HandlePartOfBody(n)
      PROVE  Shape'
  <2>1. Arrives(n) /\ HasHeader(n) /\ open /\ Len(Behind(n)) < Missing(n)
    BY <1>8 DEF HandlePartOfBody, Arrives
  <2>2. body' \in Seq(AllBytes)
    BY <1>8, <2>1, MessagePart DEF HandlePartOfBody
  <2>3. wire' \in Seq(AllBytes) /\ <<>> \in Seq(AllBytes)
    BY <2>1, <1>4, EmptySeq
  <2> QED
    BY <1>7, <1>8, <2>1, <2>2, <2>3
    DEF HandlePartOfBody, Arrives, IInv, Shape
<1>9. ASSUME NEW n \in 1 .. Len(wire), HandleWhole(n)
      PROVE  Shape'
  <2>1. Arrives(n) /\ HasHeader(n) /\ open /\ Len(Behind(n)) >= Missing(n)
    BY <1>9 DEF HandleWhole, Arrives
  <2>2. Kept \o Read(Behind(n), Missing(n)) \in Seq(AllBytes)
    BY <2>1, MessageWhole
  <2>3. parsed' \in Seq(Seq(AllBytes))
    BY <1>9, <2>2, AppendProperties DEF HandleWhole, IInv, Shape
  <2>4. buffer' \in Seq(AllBytes)
    BY <1>7, <1>9, <2>1, ReadProperties DEF HandleWhole
  <2>5. wire' \in Seq(AllBytes) /\ <<>> \in Seq(AllBytes)
    BY <2>1, <1>4, EmptySeq
  <2> QED
    BY <1>7, <1>9, <2>1, <2>3, <2>4, <2>5
    DEF HandleWhole, Arrives, IInv, Shape
<1>10. CASE Respond
  <2>1. answered + 1 \in Nat /\ <<>> \in Seq(AllBytes) /\ 0 \in 0 .. MaxMessage
    BY EmptySeq, FramingAssumption DEF IInv, Shape
  <2> QED
    BY <1>10, <2>1 DEF Respond, IInv, Shape
<1> QED
  BY <1>1, <1>2, <1>3, <1>5, <1>6, <1>8, <1>9, <1>10
  DEF Next, HangUp, HandleRequest, HandleBadHeader

LEMMA ReadingStep ==
  ASSUME IInv, [Next]_vars
  PROVE  Reading'
<1>1. /\ Len(lens) \in Nat /\ Len(parsed) \in Nat /\ Len(body) \in Nat
      /\ lens \in Seq(Lengths) /\ answered \in Nat
      /\ stat \in {"request", "response"} /\ reading \in {"header", "message"}
  BY LenProperties DEF IInv, Shape
<1>2. ASSUME UNCHANGED <<lens, answered, session, parsed>>
      PROVE  Reading'
  BY <1>2 DEF IInv, Reading, session, Cur
<1>3. ASSUME NEW len \in Lengths, Send(len)
      PROVE  Reading'
  <2>1. /\ Len(lens') = Len(lens) + 1
        /\ \A i \in 1 .. Len(lens) : lens'[i] = lens[i]
    BY <1>1, <1>3, AppendProperties DEF Send
  <2>2. Len(parsed) < Len(lens) => Cur \in 1 .. Len(lens)
    BY <1>1 DEF Cur
  <2>3. Cur' = Cur
    BY <1>3 DEF Send, Cur
  <2>4. UNCHANGED <<answered, stat, reading, header, need, body, parsed>>
    BY <1>3 DEF Send, session
  <2>5. /\ Len(parsed) <= Len(lens')
        /\ Len(parsed) < Len(lens) =>
             Len(parsed) < Len(lens') /\ lens'[Cur] = lens[Cur]
    BY <1>1, <2>1, <2>2 DEF IInv, Reading
  <2> HIDE DEF Cur
  <2> QED
    BY <2>3, <2>4, <2>5 DEF IInv, Reading
<1>4. ASSUME NEW n \in 1 .. Len(wire), HandlePartOfHeader(n)
      PROVE  Reading'
  <2>1. open /\ stat = "request" /\ Len(HeaderWith(n)) < HeaderLen
    BY <1>4 DEF HandlePartOfHeader, Arrives
  <2>2. /\ reading = "header"
        /\ \A i \in 1 .. Len(HeaderWith(n)) : HeaderWith(n)[i] = <<Cur, i>>
    BY <2>1, HeaderRead
  <2>3. /\ header' = HeaderWith(n) /\ Cur' = Cur
        /\ UNCHANGED <<lens, answered, stat, reading, need, body, parsed>>
    BY <1>4 DEF HandlePartOfHeader, Arrives, Cur
  <2>4. body = <<>> /\ Len(body) = 0 /\ 1 .. Len(body) = {}
    BY <2>2, EmptySeq DEF IInv, Reading
  <2> HIDE DEF Cur
  <2> QED
    BY <2>1, <2>2, <2>3, <2>4 DEF IInv, Reading
<1>5. ASSUME NEW n \in 1 .. Len(wire), Arrives(n), HasHeader(n)
      PROVE  /\ stat = "request" /\ reading' = "message"
             /\ Len(header') = HeaderLen /\ Len(parsed) < Len(lens)
             /\ \A i \in 1 .. Len(header') : header'[i] = <<Cur, i>>
             /\ need' = lens[Cur]
  <2>1. /\ open /\ stat = "request" /\ Len(HeaderWith(n)) = HeaderLen
        /\ reading' = "message" /\ header' = HeaderWith(n)
        /\ need' = Announced(n)
    BY <1>5 DEF Arrives, HasHeader
  <2>2. /\ Cur \in 1 .. Len(lens)
        /\ \A i \in 1 .. Len(HeaderWith(n)) : HeaderWith(n)[i] = <<Cur, i>>
    BY <2>1, HeaderRead
  <2>3. Announced(n) = lens[Cur]
    BY <1>5, <2>1, MessageRead
  <2>4. Len(parsed) < Len(lens)
    BY <1>1, <2>2 DEF Cur
  <2> QED
    BY <2>1, <2>2, <2>3, <2>4
<1>6. ASSUME NEW n \in 1 .. Len(wire), HandlePartOfBody(n)
      PROVE  Reading'
  <2>1. /\ Arrives(n) /\ HasHeader(n) /\ open /\ Len(Behind(n)) < Missing(n)
        /\ body' = Kept \o Behind(n) /\ Cur' = Cur
        /\ UNCHANGED <<lens, answered, stat, parsed>>
    BY <1>6 DEF HandlePartOfBody, Arrives, Cur
  <2>2. /\ Len(body') < lens[Cur]
        /\ \A i \in 1 .. Len(body') : body'[i] = <<Cur, HeaderLen + i>>
    BY <2>1, MessagePart
  <2>3. /\ stat = "request" /\ reading' = "message"
        /\ Len(header') = HeaderLen /\ Len(parsed) < Len(lens)
        /\ \A i \in 1 .. Len(header') : header'[i] = <<Cur, i>>
        /\ need' = lens[Cur]
    BY <1>5, <2>1
  <2> HIDE DEF Cur
  <2> QED
    BY <2>1, <2>2, <2>3 DEF IInv, Reading
<1>7. ASSUME NEW n \in 1 .. Len(wire), HandleWhole(n)
      PROVE  Reading'
  <2>1. /\ Arrives(n) /\ HasHeader(n) /\ open /\ Len(Behind(n)) >= Missing(n)
        /\ parsed' = Append(parsed, Kept \o Read(Behind(n), Missing(n)))
        /\ stat' = "response" /\ body' = <<>>
        /\ UNCHANGED <<lens, answered>>
    BY <1>7 DEF HandleWhole, Arrives
  <2>2. Kept \o Read(Behind(n), Missing(n)) \in Seq(AllBytes)
    BY <2>1, MessageWhole
  <2>3. Len(parsed') = Len(parsed) + 1
    <3>1. parsed \in Seq(Seq(AllBytes))
      BY DEF IInv, Shape
    <3> QED
      BY <2>1, <2>2, <3>1, AppendProperties
  <2>4. /\ stat = "request" /\ reading' = "message"
        /\ Len(header') = HeaderLen /\ Len(parsed) < Len(lens)
    BY <1>5, <2>1
  <2>5. /\ answered + 0 = Len(parsed)
        /\ answered + 1 = Len(parsed') /\ Len(parsed') <= Len(lens)
    BY <1>1, <2>3, <2>4 DEF IInv, Reading
  <2> QED
    BY <2>1, <2>4, <2>5 DEF Reading
<1>8. CASE Respond
  <2>1. /\ stat = "response" /\ answered' = answered + 1
        /\ stat' = "request" /\ reading' = "header"
        /\ header' = <<>> /\ body' = <<>>
        /\ UNCHANGED <<lens, parsed>>
    BY <1>8 DEF Respond
  <2>2. answered' + 0 = Len(parsed) /\ Len(parsed) <= Len(lens)
    BY <1>1, <2>1 DEF IInv, Reading
  <2>3. /\ Len(header') < HeaderLen /\ 1 .. Len(header') = {}
        /\ 1 .. Len(body') = {}
    BY <2>1, EmptySeq, FramingAssumption
  <2> QED
    BY <2>1, <2>2, <2>3 DEF Reading
<1> QED
  BY <1>2, <1>3, <1>4, <1>6, <1>7, <1>8
  DEF Next, HangUp, HandleRequest, HandleBadHeader, HandleWrongState, Arrives,
      Close, vars

LEMMA StreamStep ==
  ASSUME IInv, [Next]_vars
  PROVE  Stream'
<1>1. CASE UNCHANGED vars
  <2>1. UNCHANGED <<Cur, Offset, Unread, lens, open>>
    BY <1>1 DEF vars, session, Cur, Offset, Unread
  <2> QED
    BY <2>1 DEF IInv, Stream, Starts
<1>2. ASSUME Close
      PROVE  Stream'
  BY <1>2 DEF Close, Stream
<1>3. ASSUME NEW n \in 1 .. Len(wire), HandleWrongState(n)
      PROVE  Stream'
  <2> DEFINE f == Found(n)
  <2>1. f \in Seq(AllBytes) /\ 0 \in 0 .. Len(f)
    <3>1. f \in Seq(AllBytes) /\ Len(f) \in Nat
      BY FoundProperties DEF IInv
    <3> HIDE DEF f
    <3> QED
      BY <3>1
  <2>2. buffer' = Left(f, 0)
    BY <1>3, <2>1, LeftProperties DEF HandleWrongState
  <2>3. Offset \in Nat
    BY LenProperties, FramingAssumption DEF IInv, Shape, Offset
  <2>4. Cur' = Cur /\ Offset' = Offset + 0
    BY <1>3, <2>3 DEF HandleWrongState, Cur, Offset, session
  <2> QED
    BY <1>3, <2>1, <2>2, <2>4, CallMoves DEF HandleWrongState, Arrives
<1>4. ASSUME NEW n \in 1 .. Len(wire), HandlePartOfHeader(n)
      PROVE  Stream'
  <2> DEFINE f == Found(n)
  <2>1. /\ f \in Seq(AllBytes) /\ Len(f) \in 0 .. Len(f)
        /\ Left(f, Len(f)) = <<>>
    <3>1. f \in Seq(AllBytes) /\ Len(f) \in Nat
      BY FoundProperties DEF IInv
    <3> HIDE DEF f
    <3> QED
      BY <3>1, LeftProperties
  <2>2. open /\ stat = "request" /\ Len(HeaderWith(n)) < HeaderLen
    BY <1>4 DEF HandlePartOfHeader, Arrives
  <2>3. reading = "header" /\ Len(HeaderWith(n)) = Len(header) + Len(f)
    BY <2>2, HeaderRead
  <2>4. Offset = Len(header) /\ Offset' = Len(header) + Len(f) /\ Cur' = Cur
    BY <1>4, <2>2, <2>3 DEF HandlePartOfHeader, Offset, Cur, Arrives
  <2> QED
    BY <1>4, <2>1, <2>2, <2>4, CallMoves DEF HandlePartOfHeader
<1>5. ASSUME NEW n \in 1 .. Len(wire), HandlePartOfBody(n)
      PROVE  Stream'
  <2> DEFINE f == Found(n)
             a == Asked
             o == Offset
             k == Len(Kept)
             b == Len(Behind(n))
  <2>1. /\ f \in Seq(AllBytes) /\ Len(f) \in 0 .. Len(f) /\ Len(f) \in Nat
        /\ Left(f, Len(f)) = <<>>
    <3>1. f \in Seq(AllBytes) /\ Len(f) \in Nat
      BY FoundProperties DEF IInv
    <3> HIDE DEF f
    <3> QED
      BY <3>1, LeftProperties
  <2>2. /\ Arrives(n) /\ HasHeader(n) /\ open
        /\ b < Missing(n)
        /\ body' = Kept \o Behind(n) /\ buffer' = <<>>
    BY <1>5 DEF HandlePartOfBody, Arrives
  <2>3. stat = "request" /\ Len(HeaderWith(n)) = HeaderLen
    BY <2>2 DEF HasHeader
  <2>4. a \in Nat /\ a <= Len(f) /\ b = Len(f) - a
    BY <2>2, <2>3, HeaderRead
  <2>5. o + a = HeaderLen + k /\ o \in Nat /\ Kept \in Seq(AllBytes)
    BY <2>2, MessageRead
  <2>6. Len(body') = k + b
    BY <2>2, MessagePart
  <2>7. Offset' = HeaderLen + (k + b) /\ Cur' = Cur
    BY <1>5, <2>2, <2>3, <2>6 DEF HandlePartOfBody, HasHeader, Offset, Cur
  <2>8. k \in Nat /\ HeaderLen \in Nat
    BY <2>5, LenProperties, FramingAssumption
  <2> HIDE DEF f, a, o, k, b
  <2>9. HeaderLen + (k + b) = o + Len(f)
    BY <2>1, <2>4, <2>5, <2>8
  <2> QED
    BY <2>1, <2>2, <2>7, <2>9, CallMoves DEF f, o
<1>6. ASSUME NEW n \in 1 .. Len(wire), HandleWhole(n)
      PROVE  Stream'
  <2> DEFINE f == Found(n)
             a == Asked
             o == Offset
             k == Len(Kept)
             b == Len(Behind(n))
             m == Missing(n)
             r == a + m
             len == lens[Cur]
  <2>1. f \in Seq(AllBytes) /\ Len(f) \in Nat
    BY FoundProperties DEF IInv
  <2>2. /\ Arrives(n) /\ HasHeader(n) /\ open /\ b >= m
        /\ parsed' = Append(parsed, Kept \o Read(Behind(n), m))
        /\ buffer' = Left(Behind(n), m) /\ stat' = "response"
    BY <1>6 DEF HandleWhole, Arrives
  <2>3. stat = "request" /\ Len(HeaderWith(n)) = HeaderLen
    BY <2>2 DEF HasHeader
  <2>4. a \in Nat /\ a <= Len(f) /\ b = Len(f) - a /\ Cur \in 1 .. Len(lens)
    BY <2>2, <2>3, HeaderRead
  <2>5. /\ o + a = HeaderLen + k /\ o \in Nat /\ m \in Nat \ {0}
        /\ Kept \in Seq(AllBytes) /\ k + m = len
        /\ len \in 1 .. MaxMessage
    BY <2>2, MessageRead
  <2>6. Offset' = 0
    BY <2>2 DEF Offset
  <2>7. Cur' = Cur + 1 /\ Cur <= Len(lens)
    <3>1. Kept \o Read(Behind(n), m) \in Seq(AllBytes)
      BY <2>2, MessageWhole
    <3>2. parsed \in Seq(Seq(AllBytes)) /\ Len(lens) \in Nat
      BY LenProperties DEF IInv, Shape
    <3>3. Len(parsed') = Len(parsed) + 1
      BY <2>2, <3>1, <3>2, AppendProperties
    <3> QED
      BY <2>4, <3>2, <3>3 DEF Cur
  <2>8. k \in Nat /\ HeaderLen \in Nat /\ MaxMessage \in Nat
    BY <2>5, LenProperties, FramingAssumption
  <2>9. Behind(n) = Left(f, a)
    BY DEF Behind
  <2> HIDE DEF f, a, o, k, b, m, len
  <2>10. r \in 0 .. Len(f) /\ r = HeaderLen + len - o
    BY <2>1, <2>2, <2>4, <2>5, <2>8
  <2>11. Left(Behind(n), m) = Left(f, r)
    <3>1. a \in 0 .. Len(f) /\ m \in 0 .. Len(f) - a
      BY <2>1, <2>2, <2>4, <2>5
    <3> QED
      BY <2>1, <2>9, <3>1, LeftProperties
  <2> HIDE DEF r
  <2> QED
    BY <2>2, <2>6, <2>7, <2>10, <2>11, CallMoves DEF f, o, len
<1>7. ASSUME Respond
      PROVE  Stream'
  <2>1. Len(<<>>) = 0
    BY EmptySeq
  <2>2. Cur' = Cur /\ Offset' = Offset /\ Unread' = Unread
    BY <1>7, <2>1 DEF Respond, Cur, Offset, Unread
  <2>3. lens' = lens /\ open' = open
    BY <1>7 DEF Respond
  <2> QED
    BY <2>2, <2>3 DEF IInv, Stream, Starts
<1> QED
  BY <1>1, <1>2, <1>3, <1>4, <1>5, <1>6, <1>7, StreamGrows
  DEF Next, HangUp, HandleRequest, HandleBadHeader

THEOREM Invariance == Spec => []IInv
<1>1. Init => IInv
  BY Initially
<1>2. IInv /\ [Next]_vars => IInv'
  BY ShapeStep, ReadingStep, StreamStep DEF IInv
<1> QED
  BY <1>1, <1>2, PTL DEF Spec

-----------------------------------------------------------------------------
(***************************************************************************)
(* The theorems.                                                           *)
(***************************************************************************)

(***************************************************************************)
(* The arrays header and read_buf never hold more than they are allocated  *)
(* for, whatever the client sends and however it arrives                   *)
(* (NetworkInterface.cpp:152-236).                                         *)
(***************************************************************************)
THEOREM TypeCorrect == Spec => []TypeOK
<1>1. IInv => TypeOK
  <2> SUFFICES ASSUME IInv
               PROVE  TypeOK
    OBVIOUS
  <2>1. /\ Len(header) \in Nat /\ Len(body) \in Nat /\ Len(parsed) \in Nat
        /\ answered \in Nat /\ need \in Nat /\ HeaderLen \in Nat
    BY LenProperties, FramingAssumption DEF IInv, Shape
  <2>2. Len(header) <= HeaderLen
    BY <2>1 DEF IInv, Shape, Reading
  <2>3. Len(body) <= need
    <3>1. body = <<>> => Len(body) = 0
      BY EmptySeq
    <3> QED
      BY <2>1, <3>1 DEF IInv, Shape, Reading
  <2>4. answered \in 0 .. Len(parsed)
    BY <2>1 DEF IInv, Reading
  <2> QED
    BY <2>2, <2>3, <2>4 DEF IInv, Shape, TypeOK
<1> QED
  BY <1>1, Invariance, PTL

(***************************************************************************)
(* However the bytes are cut into calls of handle_request, parseEvent is   *)
(* given the bodies that the client sent, whole, in order and one at a     *)
(* time: every step of Framing is a step of MessageStream or none of its   *)
(* business (NetworkInterface.cpp:152-236, 284-301).                       *)
(***************************************************************************)
THEOREM Implementation == Spec => ImplementsMessageStream
<1>1. Init => MS!Init
  BY DEF Init, MS!Init
<1>2. IInv /\ [Next]_vars => [MS!Next]_MS!vars
  <2> SUFFICES ASSUME IInv, [Next]_vars
               PROVE  [MS!Next]_MS!vars
    OBVIOUS
  <2>1. CASE UNCHANGED vars
    BY <2>1 DEF vars, session, MS!vars
  <2>2. ASSUME NEW len \in Lengths, Send(len)
        PROVE  MS!Send
    BY <2>2 DEF Send, session, MS!Send
  <2>3. ASSUME open, Close
        PROVE  MS!HangUp
    BY <2>3 DEF Close, session, MS!HangUp
  <2>4. ASSUME NEW n \in 1 .. Len(wire),
               \/ HandleWrongState(n)
               \/ HandlePartOfHeader(n)
               \/ HandlePartOfBody(n)
        PROVE  UNCHANGED MS!vars
    BY <2>4
    DEF HandleWrongState, HandlePartOfHeader, HandlePartOfBody, Arrives,
        session, MS!vars
  <2>5. ASSUME NEW n \in 1 .. Len(wire), HandleWhole(n)
        PROVE  MS!Deliver
    <3>1. /\ Arrives(n) /\ HasHeader(n) /\ open /\ stat = "request"
          /\ Len(Behind(n)) >= Missing(n)
          /\ parsed' = Append(parsed, Kept \o Read(Behind(n), Missing(n)))
          /\ stat' = "response" /\ UNCHANGED <<lens, open>>
      BY <2>5 DEF HandleWhole, HasHeader, Arrives
    <3>2. Len(HeaderWith(n)) = HeaderLen
      BY <3>1 DEF HasHeader
    <3>3. Cur \in 1 .. Len(lens)
      BY <3>1, <3>2, HeaderRead
    <3>4. lens[Cur] \in 1 .. MaxMessage
      BY <3>1, MessageRead
    <3>5. parsed' = Append(parsed, BodyOf(Cur, lens[Cur]))
      BY <3>1, MessageWhole
    <3>6. Cur <= Len(lens) /\ Cur = MS!Following
      BY <3>3 DEF Cur, MS!Following
    <3> HIDE DEF Cur
    <3> QED
      BY <3>1, <3>4, <3>5, <3>6 DEF MS!Deliver, MS!Good
  <2>6. ASSUME Respond
        PROVE  MS!Answer
    BY <2>6 DEF Respond, MS!Answer
  <2> QED
    BY <2>1, <2>2, <2>3, <2>4, <2>5, <2>6
    DEF Next, HangUp, HandleRequest, HandleBadHeader, MS!Next
<1> QED
  BY <1>1, <1>2, Invariance, PTL DEF Spec, MS!Spec, ImplementsMessageStream

(***************************************************************************)
(* handle_request closes a connection on its own only for a request whose  *)
(* announced length is out of bounds; it never loses track of where a      *)
(* header begins (NetworkInterface.cpp:163-183).                           *)
(***************************************************************************)
THEOREM RejectionCorrect == Spec => RejectsOnlyBadLengths
<1> DEFINE P == HandleRequest /\ ~open' =>
                  Len(parsed) < Len(lens) /\ ~MS!Good(lens[Len(parsed) + 1])
<1>1. ASSUME IInv, NEW n \in 1 .. Len(wire), HandleBadHeader(n)
      PROVE  Len(parsed) < Len(lens) /\ ~MS!Good(lens[Cur])
  <2>1. /\ open /\ stat = "request" /\ Len(HeaderWith(n)) = HeaderLen
        /\ ~IsGood(HeaderWith(n))
    BY <1>1 DEF HandleBadHeader
  <2>2. Cur \in 1 .. Len(lens)
    BY <1>1, <2>1, HeaderRead
  <2>3. ~(lens[Cur] \in 1 .. MaxMessage)
    BY <1>1, <2>1, HeaderWhole
  <2>4. Len(parsed) < Len(lens)
    BY <1>1, <2>2, LenProperties DEF Cur, IInv, Shape
  <2> QED
    BY <2>3, <2>4 DEF MS!Good
<1>2. ASSUME IInv, [Next]_vars
      PROVE  [P]_vars
  <2> SUFFICES ASSUME HandleRequest, ~open'
               PROVE  Len(parsed) < Len(lens) /\ ~MS!Good(lens[Cur])
    BY DEF Cur
  <2>1. PICK n \in 1 .. Len(wire) : HandleBadHeader(n)
    BY DEF HandleRequest, HandleWrongState, HandlePartOfHeader,
           HandlePartOfBody, HandleWhole, Arrives
  <2> QED
    BY <1>1, <1>2, <2>1
<1>3. IInv /\ [Next]_vars => [P]_vars
  BY <1>2
<1> QED
  BY <1>3, Invariance, PTL DEF Spec, RejectsOnlyBadLengths
=============================================================================
