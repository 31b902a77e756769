--------------------------- MODULE BikeServerProofs ---------------------------
(***************************************************************************)
(* Who is answered, proved with TLAPS for any number of connections,       *)
(* addresses, workers and requests, and for every order in which the       *)
(* workers, the clients and the main thread take their steps.              *)
(*                                                                         *)
(*   TypeOK    types                                                       *)
(*   Links     sessions and open connections belong together               *)
(*   Places    a request is in one place, from the client to its answer    *)
(*   Session   what the session of a connection has read and waits for     *)
(*   Owned     which session the address in an event leads to              *)
(*   Answered  in which order responses were written                       *)
(*   Confined  to whom a response is written that is not his               *)
(*                                                                         *)
(* A response may be written through the address of a session that ended,  *)
(* to whoever has that address now.  Undisturbed says that this did not    *)
(* happen to a connection; much of Session and Owned, and all of Answered, *)
(* is said under it, while Links, Places and the rest hold regardless.     *)
(***************************************************************************)
EXTENDS BikeServer, SequenceTheorems, FiniteSetTheorems, TLAPS

-----------------------------------------------------------------------------
(***************************************************************************)
(* The invariant.                                                          *)
(***************************************************************************)

\* The bytes of c that handle_request has not read, and how many it has,
\* counting a header or a body as one.
Unread(c) == input[c] \o wire[c]
Consumed(c) == 2 * asked[c] - Len(Unread(c))

\* The session has a header and not yet its body.
MidMessage(s) == sess[s].stat = "request" /\ sess[s].read = "message"

\* A queue names a request, and names none twice.
Names(q, r) == \E i \in 1 .. Len(q) : q[i] = r
Distinct(q) == \A i, j \in 1 .. Len(q) : q[i] = q[j] => i = j

Queued(r) == Names(pending, r)
Running(r) == \E w \in Workers : running[w] = r
Waiting(r) == Names(responses, r)
Written(r) == \E c \in Conns : \E i \in 1 .. Len(sent[c]) : sent[c][i] = r

Links ==
  /\ \A s \in Live : sess[s].conn \in Conns /\ link[sess[s].conn] = "open"
  /\ \A s, t \in Live : sess[s].conn = sess[t].conn => s = t
  /\ \A c \in Conns :
       /\ link[c] = "open" => \E s \in Live : sess[s].conn = c
       /\ link[c] = "new" => asked[c] = 0 /\ sent[c] = <<>>
       /\ link[c] # "open" => wire[c] = <<>> /\ input[c] = <<>>

\* A request is at its client, in the pool's queue, at a worker, in the
\* response queue or written, and only one of them; a queue names it once.
OnePlace(r) ==
  /\ r \in fresh => ~Queued(r) /\ ~Running(r) /\ ~Waiting(r) /\ ~Written(r)
  /\ Queued(r) => ~Running(r) /\ ~Waiting(r) /\ ~Written(r)
  /\ Running(r) => ~Waiting(r) /\ ~Written(r)
  /\ Waiting(r) => ~Written(r)
  /\ r \notin fresh => r[2] <= asked[r[1]]

Places ==
  /\ \A r \in Requests : OnePlace(r)
  /\ Distinct(pending) /\ Distinct(responses)
  /\ \A v, w \in Workers : running[v] = running[w] => running[v] = None \/ v = w
  /\ \A c, d \in Conns :
       \A i \in 1 .. Len(sent[c]), j \in 1 .. Len(sent[d]) :
         sent[c][i] = sent[d][j] => c = d /\ i = j

\* The unread bytes are the last bytes of the requests sent, in order, and
\* the pool was given only requests whose last byte was read.
Stream(c) ==
  /\ Len(Unread(c)) <= 2 * asked[c]
  /\ \A n \in 1 .. asked[c] :
       /\ 2 * n - 1 > Consumed(c) =>
            Unread(c)[2 * n - 1 - Consumed(c)] = Header(<<c, n>>)
       /\ 2 * n > Consumed(c) =>
            Unread(c)[2 * n - Consumed(c)] = Body(<<c, n>>)
  /\ \A n \in 1 .. MaxRequests : <<c, n>> \notin fresh => 2 * n <= Consumed(c)

\* The session stops between a header and its body exactly when its state
\* says so; a stray response may make it forget a header it has read.
Position(s, c) ==
  /\ MidMessage(s) => \E n \in 1 .. asked[c] : Consumed(c) = 2 * n - 1
  /\ ~MidMessage(s) /\ Undisturbed(c) =>
       \E n \in 0 .. asked[c] : Consumed(c) = 2 * n

\* A session that waits does so for the last request the pool was given.
Awaits(s, c) ==
  Undisturbed(c) /\ sess[s].stat = "response" =>
    /\ sess[s].req \in Requests /\ sess[s].req \notin fresh
    /\ sess[s].req[1] = c
    /\ \A i \in 1 .. Len(sent[c]) : sent[c][i][2] < sess[s].req[2]

\* A client that waits for its answers has one request under way.
Outstanding(s, c) ==
  Undisturbed(c) /\ c \notin Pipeliners =>
    /\ Len(Unread(c)) <= 2
    /\ sess[s].stat = "response" => Unread(c) = <<>>
    /\ sess[s].stat = "request" => input[c] = <<>>

Session(s, c) ==
  Stream(c) /\ Position(s, c) /\ Awaits(s, c) /\ Outstanding(s, c)

Sessioned ==
  \A s \in Live : \A c \in Conns : sess[s].conn = c => Session(s, c)

Owned ==
  \A r \in InFlight : link[r[1]] = "open" =>
    /\ args[r] \in Live /\ sess[args[r]].conn = r[1]
    /\ Undisturbed(r[1]) =>
         /\ sess[args[r]].stat = "response" /\ sess[args[r]].read = "message"
         /\ sess[args[r]].req = r

Answered ==
  \A c \in Conns : Undisturbed(c) =>
    /\ \A i \in 1 .. Len(sent[c]) : i <= sent[c][i][2]
    /\ \A i, j \in 1 .. Len(sent[c]) :
         i < j => sent[c][i][2] < sent[c][j][2]

\* A response is written to another than the one who asked only when the one
\* who asked has ended, which is for good.
Confined ==
  \A c \in Conns : \A i \in 1 .. Len(sent[c]) :
    sent[c][i][1] # c => link[sent[c][i][1]] = "closed"

IInv ==
  /\ TypeOK /\ Links /\ Places
  /\ Sessioned /\ Owned /\ Answered /\ Confined

-----------------------------------------------------------------------------
(***************************************************************************)
(* Sessions and connections.                                               *)
(***************************************************************************)

\* SlotOf finds the session of an open connection.
LEMMA SlotProperties ==
  ASSUME Links, NEW c \in Conns, link[c] = "open"
  PROVE  /\ SlotOf(c) \in Live /\ SlotOf(c) \in Slots
         /\ sess[SlotOf(c)].conn = c
<1>1. \E s \in Live : sess[s].conn = c
  BY DEF Links
<1> QED
  BY <1>1 DEF SlotOf, Live

\* A session is live when it has a connection.
LEMMA LiveProperties ==
  ASSUME TypeOK, Links, NEW s \in Slots
  PROVE  s \in Live <=> sess[s].conn # None
<1>1. s \in Live => sess[s].conn # None
  BY ServerAssumption DEF Links
<1>2. s \notin Live => sess[s].conn = None
  BY DEF Live, Freed
<1> QED
  BY <1>1, <1>2

\* A session that nothing happens to, and what its connection sees.
Untouched(s, c) ==
  /\ sess'[s] = sess[s]
  /\ asked'[c] = asked[c] /\ sent'[c] = sent[c] /\ input'[c] = input[c]
  /\ Unread(c)' = Unread(c)
  /\ \A n \in 1 .. MaxRequests : <<c, n>> \in fresh' <=> <<c, n>> \in fresh

LEMMA UntouchedSession ==
  ASSUME TypeOK, NEW s \in Slots, NEW c \in Conns, Session(s, c),
         Untouched(s, c)
  PROVE  Session(s, c)'
<1>1. /\ sess'[s] = sess[s] /\ asked'[c] = asked[c] /\ sent'[c] = sent[c]
      /\ input'[c] = input[c] /\ Unread(c)' = Unread(c)
      /\ \A n \in 1 .. MaxRequests : <<c, n>> \in fresh' <=> <<c, n>> \in fresh
  BY DEF Untouched
<1>2. Consumed(c)' = Consumed(c) /\ Undisturbed(c)' = Undisturbed(c)
  BY <1>1 DEF Consumed, Undisturbed
<1>3. MidMessage(s)' = MidMessage(s)
  BY <1>1 DEF MidMessage
<1>4. Stream(c)'
  BY <1>1, <1>2 DEF Session, Stream
<1>5. Position(s, c)'
  BY <1>1, <1>2, <1>3 DEF Session, Position
<1>6. Awaits(s, c)'
  <2> SUFFICES ASSUME Undisturbed(c), sess[s].stat = "response"
               PROVE  /\ sess[s].req \in Requests /\ sess[s].req \notin fresh'
                      /\ sess[s].req[1] = c
                      /\ \A i \in 1 .. Len(sent[c]) :
                           sent[c][i][2] < sess[s].req[2]
    BY <1>1, <1>2 DEF Awaits
  <2>1. /\ sess[s].req \in Requests /\ sess[s].req \notin fresh
        /\ sess[s].req[1] = c
        /\ \A i \in 1 .. Len(sent[c]) : sent[c][i][2] < sess[s].req[2]
    BY DEF Session, Awaits
  <2>2. /\ sess[s].req = <<c, sess[s].req[2]>>
        /\ sess[s].req[2] \in 1 .. MaxRequests
    BY <2>1 DEF Requests
  <2> QED
    BY <1>1, <2>1, <2>2
<1>7. Outstanding(s, c)'
  BY <1>1, <1>2 DEF Session, Outstanding
<1> QED
  BY <1>4, <1>5, <1>6, <1>7 DEF Session

-----------------------------------------------------------------------------
(***************************************************************************)
(* What handle_request finds, takes and leaves.                            *)
(***************************************************************************)

\* A call finds the first unread bytes, at least one of them.
LEMMA BufferProperties ==
  ASSUME TypeOK, NEW c \in Conns, NEW n \in 1 .. Len(wire[c])
  PROVE  /\ Buffer(c, n) \in Seq(Tokens) /\ Unread(c) \in Seq(Tokens)
         /\ Len(Buffer(c, n)) \in Nat /\ Len(Unread(c)) \in Nat
         /\ Len(Buffer(c, n)) >= 1 /\ Len(Buffer(c, n)) <= Len(Unread(c))
         /\ \A i \in 1 .. Len(Buffer(c, n)) : Buffer(c, n)[i] = Unread(c)[i]
<1> DEFINE x == input[c]
           y == wire[c]
           q == SubSeq(wire[c], 1, n)
           f == Buffer(c, n)
           u == Unread(c)
<1>1. x \in Seq(Tokens) /\ y \in Seq(Tokens) /\ Len(x) \in Nat /\ Len(y) \in Nat
  BY LenProperties DEF TypeOK
<1>2. n \in Nat /\ n >= 1 /\ n <= Len(y)
  <2> HIDE DEF x
  <2> QED
    BY <1>1
<1>3. f = x \o q /\ u = x \o y
  BY DEF Buffer, Unread
<1>4. \A i \in 1 .. n : y[i] \in Tokens
  <2> HIDE DEF y
  <2> QED
    BY <1>1, <1>2, ElementOfSeq
<1>5. /\ q \in Seq(Tokens) /\ Len(q) = IF 1 <= n THEN n - 1 + 1 ELSE 0
      /\ \A i \in 1 .. n - 1 + 1 : q[i] = y[1 + i - 1]
  <2> HIDE DEF y
  <2>1. n \in Int /\ 1 \in Int
    BY <1>2
  <2> QED
    BY <1>4, <2>1, SubSeqProperties DEF y
<1> HIDE DEF x, y, q, f, u
<1>6. Len(q) = n /\ \A i \in 1 .. n : q[i] = y[i]
  BY <1>2, <1>5
<1>7. /\ f \in Seq(Tokens) /\ Len(f) = Len(x) + Len(q)
      /\ \A i \in 1 .. Len(x) + Len(q) :
           f[i] = IF i <= Len(x) THEN x[i] ELSE q[i - Len(x)]
  <2>1. q \in Seq(Tokens)
    BY <1>5
  <2> QED
    BY <1>1, <1>3, <2>1, ConcatProperties
<1>8. /\ u \in Seq(Tokens) /\ Len(u) = Len(x) + Len(y)
      /\ \A i \in 1 .. Len(x) + Len(y) :
           u[i] = IF i <= Len(x) THEN x[i] ELSE y[i - Len(x)]
  BY <1>1, <1>3, ConcatProperties
<1>9. ASSUME NEW i \in 1 .. Len(f)
      PROVE  f[i] = u[i]
  <2>1. /\ i \in 1 .. Len(x) + Len(q) /\ i \in 1 .. Len(x) + Len(y)
        /\ ~(i <= Len(x)) => i - Len(x) \in 1 .. n
    BY <1>1, <1>2, <1>6, <1>7
  <2> QED
    BY <1>6, <1>7, <1>8, <2>1
<1>10. Len(f) \in Nat /\ Len(u) \in Nat /\ Len(f) >= 1 /\ Len(f) <= Len(u)
  BY <1>1, <1>2, <1>6, <1>7, <1>8
<1> QED
  BY <1>7, <1>8, <1>9, <1>10 DEF f, u

\* The call takes j of those bytes: what stays unread are the others.
Takes(c, j) ==
  /\ j <= Len(Unread(c)) /\ Len(Unread(c)') = Len(Unread(c)) - j
  /\ \A i \in 1 .. Len(Unread(c)) - j : Unread(c)'[i] = Unread(c)[i + j]
  /\ \A d \in Conns \ {c} :
       Unread(d)' = Unread(d) /\ input'[d] = input[d] /\ wire'[d] = wire[d]

\* What is left of f behind its first j bytes.
Behind(rest, f, j) ==
  /\ Len(rest) = Len(f) - j
  /\ \A i \in 1 .. Len(rest) : rest[i] = f[i + j]

LEMMA LeavesProperties ==
  ASSUME TypeOK, NEW c \in Conns, NEW n \in 1 .. Len(wire[c]),
         NEW j \in 0 .. Len(Buffer(c, n)), NEW rest \in Seq(Tokens),
         Behind(rest, Buffer(c, n), j), Leaves(c, n, rest)
  PROVE  /\ Takes(c, j)
         /\ input'[c] = rest
         /\ wire' \in [Conns -> Seq(Tokens)] /\ input' \in [Conns -> Seq(Tokens)]
<1> DEFINE x == input[c]
           y == wire[c]
           z == SubSeq(wire[c], n + 1, Len(wire[c]))
           f == Buffer(c, n)
           u == Unread(c)
           v == rest \o z
<1>1. x \in Seq(Tokens) /\ y \in Seq(Tokens) /\ Len(x) \in Nat /\ Len(y) \in Nat
  BY LenProperties DEF TypeOK
<1>2. n \in Nat /\ n >= 1 /\ n <= Len(y)
  <2> HIDE DEF x
  <2> QED
    BY <1>1
<1>3. /\ Len(f) \in Nat /\ Len(u) \in Nat /\ Len(f) <= Len(u)
      /\ \A i \in 1 .. Len(f) : f[i] = u[i]
  BY BufferProperties
<1>4. Len(f) = Len(x) + n
  <2> DEFINE q == SubSeq(y, 1, n)
  <2>1. q \in Seq(Tokens) /\ Len(q) = n
    <3> HIDE DEF y
    <3>1. n \in Int /\ 1 \in Int /\ \A i \in 1 .. n : y[i] \in Tokens
      BY <1>1, <1>2, ElementOfSeq
    <3>2. q \in Seq(Tokens) /\ Len(q) = IF 1 <= n THEN n - 1 + 1 ELSE 0
      BY <3>1, SubSeqProperties
    <3> QED
      BY <1>2, <3>2
  <2>2. f = x \o q
    BY DEF Buffer
  <2> HIDE DEF x, q, f
  <2> QED
    BY <1>1, <2>1, <2>2, ConcatProperties
<1>5. /\ z \in Seq(Tokens) /\ Len(z) = Len(y) - n
      /\ \A i \in 1 .. Len(y) - n : z[i] = y[n + i]
  <2> HIDE DEF y
  <2>1. n + 1 \in Int /\ Len(y) \in Int /\ \A i \in n + 1 .. Len(y) : y[i] \in Tokens
    BY <1>1, <1>2, ElementOfSeq
  <2>2. /\ z \in Seq(Tokens)
        /\ Len(z) = IF n + 1 <= Len(y) THEN Len(y) - (n + 1) + 1 ELSE 0
        /\ \A i \in 1 .. Len(y) - (n + 1) + 1 : z[i] = y[n + 1 + i - 1]
    BY <2>1, SubSeqProperties DEF y
  <2> HIDE DEF z
  <2> QED
    BY <1>1, <1>2, <2>2
<1>6. u = x \o y
  BY DEF Unread
<1> HIDE DEF x, y, z, f, u
<1>7. /\ u \in Seq(Tokens) /\ Len(u) = Len(x) + Len(y)
      /\ \A i \in 1 .. Len(x) + Len(y) :
           u[i] = IF i <= Len(x) THEN x[i] ELSE y[i - Len(x)]
  BY <1>1, <1>6, ConcatProperties
<1>8. /\ v \in Seq(Tokens) /\ Len(v) = Len(rest) + Len(z)
      /\ \A i \in 1 .. Len(rest) + Len(z) :
           v[i] = IF i <= Len(rest) THEN rest[i] ELSE z[i - Len(rest)]
  <2>1. z \in Seq(Tokens)
    BY <1>5
  <2> QED
    BY <2>1, ConcatProperties
<1>9. /\ Len(rest) = Len(f) - j /\ j \in Nat /\ j <= Len(f)
      /\ \A i \in 1 .. Len(rest) : rest[i] = f[i + j]
  <2>1. Behind(rest, f, j) /\ j \in 0 .. Len(f)
    BY DEF f
  <2>2. Len(f) \in Nat
    BY <1>3
  <2>3. j \in Nat /\ j <= Len(f)
    BY <2>1, <2>2
  <2> QED
    BY <2>1, <2>3 DEF Behind
<1> HIDE DEF v
<1> DEFINE lx == Len(x)
           ly == Len(y)
           lz == Len(z)
           lf == Len(f)
           lr == Len(rest)
           lu == Len(u)
<1>10. /\ lx \in Nat /\ ly \in Nat /\ n \in Nat /\ n >= 1 /\ n <= ly
        /\ lf = lx + n /\ lz = ly - n /\ lu = lx + ly
        /\ j \in Nat /\ j <= lf /\ lr = lf - j
  BY <1>1, <1>2, <1>4, <1>5, <1>7, <1>9
<1>11. Len(v) = lu - j /\ j <= lu
  <2>1. Len(v) = lr + lz
    BY <1>8
  <2> HIDE DEF lx, ly, lz, lf, lr, lu
  <2> QED
    BY <1>10, <2>1
<1>12. ASSUME NEW i \in 1 .. Len(u) - j
       PROVE  v[i] = u[i + j]
  <2>0. i \in 1 .. lu - j
    OBVIOUS
  <2>1. i \in 1 .. lr + lz /\ i + j \in 1 .. lx + ly
    <3> HIDE DEF lx, ly, lz, lf, lr, lu
    <3> QED
      BY <1>10, <2>0
  <2>2. CASE i <= Len(rest)
    <3>1. i \in 1 .. lr /\ i + j \in 1 .. lf
      <4>1. i <= lr
        BY <2>2
      <4> HIDE DEF lx, ly, lz, lf, lr, lu
      <4> QED
        BY <1>10, <2>0, <4>1
    <3> QED
      BY <1>3, <1>8, <1>9, <2>1, <2>2, <3>1
  <2>3. CASE ~(i <= Len(rest))
    <3>1. /\ i - lr \in 1 .. ly - n
          /\ n + (i - lr) = (i + j) - lx
          /\ ~(i + j <= lx)
      <4>1. i \in 1 .. lr + lz /\ ~(i <= lr)
        BY <2>1, <2>3
      <4> HIDE DEF lx, ly, lz, lf, lr, lu
      <4> QED
        BY <4>1, <1>10
    <3>2. v[i] = y[n + (i - Len(rest))]
      BY <1>5, <1>8, <2>1, <2>3, <3>1
    <3>3. u[i + j] = y[(i + j) - Len(x)]
      BY <1>7, <2>1, <3>1
    <3> QED
      BY <3>1, <3>2, <3>3
  <2> QED
    BY <2>2, <2>3
<1>13. /\ wire' = [wire EXCEPT ![c] = z] /\ input' = [input EXCEPT ![c] = rest]
  BY DEF Leaves, z
<1>14. wire \in [Conns -> Seq(Tokens)] /\ input \in [Conns -> Seq(Tokens)]
  BY DEF TypeOK
<1>15. /\ input'[c] = rest /\ wire'[c] = z
       /\ \A d \in Conns \ {c} : input'[d] = input[d] /\ wire'[d] = wire[d]
       /\ wire' \in [Conns -> Seq(Tokens)] /\ input' \in [Conns -> Seq(Tokens)]
  BY <1>5, <1>13, <1>14
<1>16. Unread(c)' = v /\ \A d \in Conns \ {c} : Unread(d)' = Unread(d)
  BY <1>15 DEF Unread, v
<1> QED
  BY <1>11, <1>12, <1>15, <1>16 DEF Takes, u

LEMMA Halves == \A k \in Nat : \E h \in Nat : k = 2 * h \/ k = 2 * h + 1
<1> SUFFICES ASSUME NEW k \in Nat
             PROVE  \E h \in Nat : k = 2 * h \/ k = 2 * h + 1
  OBVIOUS
<1>1. k \div 2 \in Nat /\ (k = 2 * (k \div 2) \/ k = 2 * (k \div 2) + 1)
  OBVIOUS
<1> QED
  BY <1>1

\* The next unread byte begins a request or its body, and a request that is
\* begun is there to its end.
LEMMA NextBytes ==
  ASSUME TypeOK, NEW c \in Conns, Stream(c), Len(Unread(c)) > 0
  PROVE  \E m \in 1 .. asked[c] :
           \/ /\ Consumed(c) = 2 * m - 2 /\ Len(Unread(c)) >= 2
              /\ Unread(c)[1] = Header(<<c, m>>)
              /\ Unread(c)[2] = Body(<<c, m>>)
           \/ /\ Consumed(c) = 2 * m - 1
              /\ Unread(c)[1] = Body(<<c, m>>)
<1> DEFINE u == Unread(c)
           a == asked[c]
           k == Consumed(c)
           w == Len(u)
<1>1. a \in Nat /\ w \in Nat /\ w > 0 /\ w <= 2 * a
  <2>1. u \in Seq(Tokens)
    BY ConcatProperties DEF Unread, TypeOK
  <2>2. a \in Nat
    BY ServerAssumption DEF TypeOK
  <2> QED
    BY <2>1, <2>2, LenProperties DEF Stream
<1>2. k = 2 * a - w
  BY DEF Consumed
<1>3. \A n \in 1 .. a :
        /\ 2 * n - 1 > k => u[2 * n - 1 - k] = Header(<<c, n>>)
        /\ 2 * n > k => u[2 * n - k] = Body(<<c, n>>)
  BY DEF Stream
<1> HIDE DEF u, a, k, w
<1>4. k \in Nat /\ k < 2 * a
  BY <1>1, <1>2
<1>5. PICK h \in Nat : k = 2 * h \/ k = 2 * h + 1
  BY <1>4, Halves
<1> DEFINE m == h + 1
<1>6. m \in 1 .. a
  BY <1>1, <1>4, <1>5
<1>7. CASE k = 2 * h
  <2>1. /\ k = 2 * m - 2 /\ w >= 2
        /\ 2 * m - 1 > k /\ 2 * m - 1 - k = 1
        /\ 2 * m > k /\ 2 * m - k = 2
    BY <1>1, <1>2, <1>4, <1>7
  <2>2. u[1] = Header(<<c, m>>) /\ u[2] = Body(<<c, m>>)
    BY <1>3, <1>6, <2>1
  <2> QED
    BY <1>6, <2>1, <2>2 DEF u, a, k, w
<1>8. CASE k = 2 * h + 1
  <2>1. k = 2 * m - 1 /\ 2 * m > k /\ 2 * m - k = 1
    BY <1>8
  <2>2. u[1] = Body(<<c, m>>)
    BY <1>3, <1>6, <2>1
  <2> QED
    BY <1>6, <2>1, <2>2 DEF u, a, k, w
<1> QED
  BY <1>5, <1>7, <1>8

\* A tail is what is left behind the first byte.
LEMMA TailProperties ==
  ASSUME NEW S, NEW s \in Seq(S), Len(s) >= 1
  PROVE  /\ Head(s) = s[1]
         /\ Tail(s) \in Seq(S) /\ Len(Tail(s)) = Len(s) - 1
         /\ \A i \in 1 .. Len(s) - 1 : Tail(s)[i] = s[i + 1]
<1>1. s # <<>>
  BY EmptySeq
<1> QED
  BY <1>1, HeadTailProperties

\* In the wrong session state, a call only moves bytes to the evbuffer.
LEMMA WrongStateEffect ==
  ASSUME TypeOK, NEW c \in Conns, NEW n, HandleWrongState(c, n)
  PROVE  /\ link[c] = "open" /\ Len(Unread(c)) >= 1
         /\ Takes(c, 0)
         /\ wire' \in [Conns -> Seq(Tokens)] /\ input' \in [Conns -> Seq(Tokens)]
<1>1. /\ link[c] = "open" /\ n \in 1 .. Len(wire[c])
      /\ Leaves(c, n, Buffer(c, n))
  BY DEF HandleWrongState, Arrives
<1> DEFINE f == Buffer(c, n)
           u == Unread(c)
<1>2. Len(u) >= 1
  <2>1. Len(f) \in Nat /\ Len(u) \in Nat /\ Len(f) >= 1 /\ Len(f) <= Len(u)
    BY <1>1, BufferProperties
  <2> HIDE DEF f, u
  <2> QED
    BY <2>1
<1>3. f \in Seq(Tokens) /\ Len(f) \in Nat
  BY <1>1, BufferProperties
<1> HIDE DEF f
<1>4. 0 \in 0 .. Len(f) /\ Behind(f, f, 0)
  BY <1>3 DEF Behind
<1> QED
  BY <1>1, <1>2, <1>3, <1>4, LeavesProperties DEF f

\* A header that is there alone is the header of the next request.
LEMMA HeaderEffect ==
  ASSUME TypeOK, NEW c \in Conns, NEW n, Stream(c), HandleHeader(c, n)
  PROVE  /\ link[c] = "open"
         /\ Takes(c, 1) /\ input'[c] = <<>>
         /\ \E m \in 1 .. asked[c] : Consumed(c) = 2 * m - 2
         /\ wire' \in [Conns -> Seq(Tokens)] /\ input' \in [Conns -> Seq(Tokens)]
<1> DEFINE f == Buffer(c, n)
           u == Unread(c)
<1>1. /\ link[c] = "open" /\ n \in 1 .. Len(wire[c])
      /\ Len(f) = 1 /\ ~BadHeader(Head(f)) /\ Leaves(c, n, <<>>)
  BY DEF HandleHeader, Arrives
<1>2. /\ f \in Seq(Tokens) /\ u \in Seq(Tokens) /\ Len(u) \in Nat
      /\ Len(f) <= Len(u) /\ \A i \in 1 .. Len(f) : f[i] = u[i]
  BY <1>1, BufferProperties
<1> HIDE DEF f, u
<1>3. Head(f) = u[1] /\ Len(u) > 0
  BY <1>1, <1>2, TailProperties
<1>4. PICK m \in 1 .. asked[c] :
        \/ Consumed(c) = 2 * m - 2
        \/ u[1] = Body(<<c, m>>)
  BY <1>3, NextBytes DEF u
<1>5. u[1] # Body(<<c, m>>)
  BY <1>1, <1>3 DEF BadHeader, Body
<1> DEFINE rest == <<>>
<1>6. /\ rest \in Seq(Tokens) /\ Len(rest) = Len(f) - 1 /\ 1 \in 0 .. Len(f)
      /\ \A i \in 1 .. Len(rest) : rest[i] = f[i + 1]
      /\ Leaves(c, n, rest)
  BY <1>1, EmptySeq
<1> HIDE DEF rest
<1>7. /\ Takes(c, 1) /\ input'[c] = rest
      /\ wire' \in [Conns -> Seq(Tokens)] /\ input' \in [Conns -> Seq(Tokens)]
  <2>1. n \in 1 .. Len(wire[c])
    BY <1>1
  <2>2. 1 \in 0 .. Len(Buffer(c, n)) /\ Behind(rest, Buffer(c, n), 1)
    BY <1>6 DEF f, Behind
  <2>3. rest \in Seq(Tokens) /\ Leaves(c, n, rest)
    BY <1>6
  <2> QED
    BY <2>1, <2>2, <2>3, LeavesProperties
<1> QED
  BY <1>1, <1>4, <1>5, <1>7 DEF rest

\* A message that is taken is the next one: its body, or its header and body.
LEMMA MessageEffect ==
  ASSUME TypeOK, NEW c \in Conns, NEW n, Stream(c), Position(SlotOf(c), c),
         HandleMessage(c, n)
  PROVE  /\ link[c] = "open" /\ sess[SlotOf(c)].stat = "request"
         /\ \E m \in 1 .. asked[c], j \in 1 .. 2 :
              /\ Head(BodyOn(c, n)).of = <<c, m>>
              /\ Takes(c, j) /\ Consumed(c) + j = 2 * m
         /\ wire' \in [Conns -> Seq(Tokens)] /\ input' \in [Conns -> Seq(Tokens)]
<1> DEFINE f == Buffer(c, n)
           u == Unread(c)
           g == BodyOn(c, n)
           s == SlotOf(c)
<1>1. /\ link[c] = "open" /\ n \in 1 .. Len(wire[c])
      /\ Leaves(c, n, Tail(g))
      /\ \/ Expects(c, "message")
         \/ Expects(c, "header") /\ Len(f) > 1 /\ ~BadHeader(Head(f))
  BY DEF HandleMessage, ReadsBody, Arrives
<1>2. sess[s].stat = "request"
  BY <1>1 DEF Expects
<1>3. /\ f \in Seq(Tokens) /\ u \in Seq(Tokens) /\ Len(u) \in Nat
      /\ Len(f) \in Nat /\ Len(f) >= 1 /\ Len(f) <= Len(u)
      /\ \A i \in 1 .. Len(f) : f[i] = u[i]
  BY <1>1, BufferProperties
<1>4. n \in 1 .. Len(wire[c])
  BY <1>1
<1>5. CASE Expects(c, "message")
  <2>1. PICK m \in 1 .. asked[c] : Consumed(c) = 2 * m - 1
    BY <1>5 DEF Position, MidMessage, Expects
  <2>2. asked[c] \in Nat
    BY ServerAssumption DEF TypeOK
  <2>3. u[1] = Body(<<c, m>>)
    <3>1. 2 * m > Consumed(c) /\ 2 * m - Consumed(c) = 1
      BY <2>1, <2>2
    <3> QED
      BY <3>1 DEF Stream
  <2>4. g = f
    BY <1>5 DEF BodyOn, Expects
  <2> HIDE DEF f, u, g
  <2>5. Head(g).of = <<c, m>>
    BY <1>3, <2>3, <2>4, TailProperties DEF Body
  <2> DEFINE rest == Tail(g)
  <2>6. /\ rest \in Seq(Tokens) /\ Len(rest) = Len(f) - 1 /\ 1 \in 0 .. Len(f)
        /\ \A i \in 1 .. Len(f) - 1 : rest[i] = f[i + 1]
        /\ Leaves(c, n, rest)
    BY <1>1, <1>3, <2>4, TailProperties
  <2> HIDE DEF rest
  <2>7. Behind(rest, f, 1)
    BY <2>6 DEF Behind
  <2>8. /\ Takes(c, 1)
        /\ wire' \in [Conns -> Seq(Tokens)] /\ input' \in [Conns -> Seq(Tokens)]
    BY <1>4, <2>6, <2>7, LeavesProperties DEF f
  <2>9. Consumed(c) + 1 = 2 * m /\ 1 \in 1 .. 2
    BY <2>1, <2>2
  <2> QED
    BY <1>1, <1>2, <2>5, <2>8, <2>9 DEF g
<1>6. CASE Expects(c, "header") /\ Len(f) > 1 /\ ~BadHeader(Head(f))
  <2>1. Len(u) > 0
    <3> HIDE DEF f, u
    <3> QED
      BY <1>3
  <2>2. PICK m \in 1 .. asked[c] :
          \/ /\ Consumed(c) = 2 * m - 2 /\ Len(u) >= 2
             /\ u[2] = Body(<<c, m>>)
          \/ u[1] = Body(<<c, m>>)
    BY <2>1, NextBytes
  <2>3. asked[c] \in Nat
    BY ServerAssumption DEF TypeOK
  <2>4. g = Tail(f)
    BY <1>6 DEF BodyOn, Expects
  <2> HIDE DEF f, u, g
  <2>5. u[1] # Body(<<c, m>>)
    <3>1. Head(f) = u[1]
      BY <1>3, TailProperties
    <3> QED
      BY <1>6, <3>1 DEF BadHeader, Body
  <2>6. /\ g \in Seq(Tokens) /\ Len(g) = Len(f) - 1
        /\ \A i \in 1 .. Len(f) - 1 : g[i] = f[i + 1]
    BY <1>3, <2>4, TailProperties
  <2>7. Len(g) >= 1 /\ 1 \in 1 .. Len(f) - 1 /\ 1 + 1 \in 1 .. Len(f)
    BY <1>3, <1>6, <2>6
  <2>8. Head(g) = u[2]
    <3>1. Head(g) = g[1]
      BY <2>6, <2>7, TailProperties
    <3> QED
      BY <1>3, <2>6, <2>7, <3>1
  <2>9. Head(g).of = <<c, m>>
    BY <2>2, <2>5, <2>8 DEF Body
  <2> DEFINE rest == Tail(g)
  <2>10. /\ rest \in Seq(Tokens) /\ Len(rest) = Len(g) - 1
         /\ \A i \in 1 .. Len(g) - 1 : rest[i] = g[i + 1]
         /\ Leaves(c, n, rest)
    BY <1>1, <2>6, <2>7, TailProperties
  <2> HIDE DEF rest
  <2>11. 2 \in 0 .. Len(f) /\ Behind(rest, f, 2)
    <3>1. Len(rest) = Len(f) - 2 /\ 2 \in 0 .. Len(f)
      BY <1>3, <1>6, <2>6, <2>10
    <3>2. ASSUME NEW i \in 1 .. Len(rest)
          PROVE  rest[i] = f[i + 2]
      <4>1. /\ i \in 1 .. Len(g) - 1 /\ i + 1 \in 1 .. Len(f) - 1
            /\ (i + 1) + 1 = i + 2
        BY <1>3, <1>6, <2>6, <2>10
      <4> QED
        BY <2>6, <2>10, <4>1
    <3> QED
      BY <3>1, <3>2 DEF Behind
  <2>12. /\ Takes(c, 2)
         /\ wire' \in [Conns -> Seq(Tokens)] /\ input' \in [Conns -> Seq(Tokens)]
    BY <1>4, <2>10, <2>11, LeavesProperties DEF f
  <2>13. Consumed(c) + 2 = 2 * m /\ 2 \in 1 .. 2
    BY <2>2, <2>3, <2>5
  <2> QED
    BY <1>1, <1>2, <2>9, <2>12, <2>13 DEF g
<1> QED
  BY <1>1, <1>5, <1>6

-----------------------------------------------------------------------------
(***************************************************************************)
(* Stream is kept by what reads and what sends.                            *)
(***************************************************************************)

\* A byte that stays unread moves j places to the front.
LEMMA ShiftArithmetic ==
  ASSUME NEW a \in Nat, NEW w \in Nat, NEW j \in Nat, NEW k \in Int,
         NEW l \in Int, NEW i \in Int,
         k = 2 * a - w, l = k + j, l < i, i <= 2 * a
  PROVE  i > k /\ i - l \in 1 .. w - j /\ (i - l) + j = i - k
OBVIOUS

LEMMA StreamTakes ==
  ASSUME TypeOK, NEW c \in Conns, Stream(c), NEW j \in Nat, Takes(c, j),
         asked'[c] = asked[c],
         \A n \in 1 .. MaxRequests :
           <<c, n>> \notin fresh' => 2 * n <= Consumed(c) + j
  PROVE  Stream(c)' /\ Consumed(c)' = Consumed(c) + j
<1> DEFINE a == asked[c]
           u == Unread(c)
           v == Unread(c)'
           w == Len(u)
           k == Consumed(c)
           l == Consumed(c)'
<1>1. a \in Nat /\ w \in Nat /\ w <= 2 * a
  <2>1. u \in Seq(Tokens)
    BY ConcatProperties DEF Unread, TypeOK
  <2>2. a \in Nat
    BY ServerAssumption DEF TypeOK
  <2> QED
    BY <2>1, <2>2, LenProperties DEF Stream
<1>2. /\ j <= w /\ Len(v) = w - j
      /\ \A i \in 1 .. w - j : v[i] = u[i + j]
  BY DEF Takes
<1>3. k = 2 * a - w /\ l = 2 * a - Len(v)
  BY DEF Consumed
<1>4. \A n \in 1 .. a :
        /\ 2 * n - 1 > k => u[2 * n - 1 - k] = Header(<<c, n>>)
        /\ 2 * n > k => u[2 * n - k] = Body(<<c, n>>)
  BY DEF Stream
<1> HIDE DEF a, u, v, w, k, l
<1>5. l = k + j /\ k \in Nat /\ Len(v) <= 2 * a
  BY <1>1, <1>2, <1>3
<1>6. k \in Int /\ l \in Int /\ k = 2 * a - w /\ l = k + j
  BY <1>3, <1>5
<1>7. ASSUME NEW n \in 1 .. a, 2 * n - 1 > l
      PROVE  v[2 * n - 1 - l] = Header(<<c, n>>)
  <2> DEFINE i == 2 * n - 1
  <2>1. i > l /\ i \in Int /\ i <= 2 * a
    BY <1>1, <1>7
  <2>2. i > k /\ i - l \in 1 .. w - j /\ (i - l) + j = i - k
    BY <1>1, <1>5, <1>6, <2>1, ShiftArithmetic
  <2> QED
    BY <2>2, <1>2, <1>4
<1>8. ASSUME NEW n \in 1 .. a, 2 * n > l
      PROVE  v[2 * n - l] = Body(<<c, n>>)
  <2> DEFINE i == 2 * n
  <2>1. i > l /\ i \in Int /\ i <= 2 * a
    BY <1>1, <1>8
  <2>2. i > k /\ i - l \in 1 .. w - j /\ (i - l) + j = i - k
    BY <1>1, <1>5, <1>6, <2>1, ShiftArithmetic
  <2> QED
    BY <2>2, <1>2, <1>4
<1>9. \A n \in 1 .. MaxRequests : <<c, n>> \notin fresh' => 2 * n <= l
  BY <1>5 DEF k
<1>10. asked'[c] = a
  BY DEF a
<1> QED
  BY <1>5, <1>7, <1>8, <1>9, <1>10 DEF Stream, v, l, k

\* What a client sends goes behind what it sent before.
LEMMA AskEffect ==
  ASSUME TypeOK, NEW c \in Conns, Stream(c), NEW kd, Ask(c, kd)
  PROVE  /\ Len(Unread(c)') = Len(Unread(c)) + 2
         /\ asked'[c] = asked[c] + 1
         /\ Stream(c)' /\ Consumed(c)' = Consumed(c)
         /\ wire' \in [Conns -> Seq(Tokens)]
         /\ \A d \in Conns \ {c} :
              Unread(d)' = Unread(d) /\ wire'[d] = wire[d]
<1> DEFINE a == asked[c]
           r == <<c, a + 1>>
           u == Unread(c)
           v == Unread(c)'
           w == Len(u)
           k == Consumed(c)
           l == Consumed(c)'
           b == Message(r)
           x == input[c]
           y == wire[c]
           S == Tokens
<1>1. a \in Nat /\ a + 1 \in 1 .. MaxRequests /\ r \in Requests
  <2>1. a \in 0 .. MaxRequests /\ a < MaxRequests /\ MaxRequests \in Nat
    BY ServerAssumption DEF TypeOK, Ask
  <2> HIDE DEF a
  <2>2. a \in Nat /\ a + 1 \in 1 .. MaxRequests
    BY <2>1
  <2> QED
    BY <2>2 DEF Requests
<1>2. /\ b \in Seq(S) /\ Len(b) = 2
      /\ b[1] = Header(r) /\ b[2] = Body(r)
  BY <1>1 DEF Message, Tokens
<1>3. x \in Seq(S) /\ y \in Seq(S) /\ u = x \o y
  BY DEF TypeOK, Unread
<1>4. wire' = [wire EXCEPT ![c] = y \o b] /\ input' = input
  BY DEF Ask, replies, pool
<1>5. wire \in [Conns -> Seq(S)]
  BY DEF TypeOK
<1>6. k = 2 * a - w /\ l = 2 * asked'[c] - Len(v)
  BY DEF Consumed
<1>7. asked'[c] = a + 1
  BY DEF Ask, TypeOK
<1>8. fresh' = fresh
  BY DEF Ask, pool
<1>9. /\ w <= 2 * a
      /\ \A n \in 1 .. a :
           /\ 2 * n - 1 > k => u[2 * n - 1 - k] = Header(<<c, n>>)
           /\ 2 * n > k => u[2 * n - k] = Body(<<c, n>>)
      /\ \A n \in 1 .. MaxRequests : <<c, n>> \notin fresh => 2 * n <= k
  BY DEF Stream
<1> HIDE DEF a, r, u, w, k, l, b, x, y, S
<1>10. y \o b \in Seq(S)
  BY <1>2, <1>3, ConcatProperties
<1>11. /\ wire'[c] = y \o b /\ wire' \in [Conns -> Seq(S)]
       /\ \A d \in Conns \ {c} : wire'[d] = wire[d]
  BY <1>4, <1>5, <1>10
<1>12. v = x \o (y \o b) /\ \A d \in Conns \ {c} : Unread(d)' = Unread(d)
  BY <1>4, <1>11 DEF Unread, x
<1> HIDE DEF v
<1>13. v = u \o b
  <2>1. x \in Seq(S) /\ y \in Seq(S) /\ b \in Seq(S)
    BY <1>2, <1>3
  <2>2. (x \o y) \o b = x \o (y \o b)
    BY <2>1, ConcatAssociative
  <2> QED
    BY <1>3, <1>12, <2>2
<1>14. u \in Seq(S) /\ w \in Nat
  <2>1. u \in Seq(S)
    BY <1>3, ConcatProperties
  <2> QED
    BY <2>1, LenProperties DEF w
<1>15. /\ Len(v) = w + 2
       /\ \A i \in 1 .. w + 2 : v[i] = IF i <= w THEN u[i] ELSE b[i - w]
  <2>1. u \in Seq(S) /\ b \in Seq(S)
    BY <1>2, <1>14
  <2>2. /\ Len(u \o b) = Len(u) + Len(b)
        /\ \A i \in 1 .. Len(u) + Len(b) :
             (u \o b)[i] = IF i <= Len(u) THEN u[i] ELSE b[i - Len(u)]
    BY <2>1, ConcatProperties
  <2> QED
    BY <1>2, <1>13, <2>2 DEF w
<1>16. l = k /\ k \in Nat /\ Len(v) <= 2 * (a + 1)
  <2>1. Len(v) = w + 2
    BY <1>15
  <2> QED
    BY <1>1, <1>6, <1>7, <1>9, <1>14, <2>1 DEF v
<1>17. ASSUME NEW n \in 1 .. a + 1, 2 * n - 1 > k
       PROVE  v[2 * n - 1 - k] = Header(<<c, n>>)
  <2>1. CASE n = a + 1
    <3>1. /\ 2 * n - 1 - k = w + 1 /\ w + 1 \in 1 .. w + 2
          /\ ~(w + 1 <= w) /\ (w + 1) - w = 1
      BY <1>1, <1>6, <1>14, <2>1
    <3>2. v[w + 1] = b[1]
      BY <1>15, <3>1
    <3> QED
      BY <1>2, <2>1, <3>1, <3>2 DEF r
  <2>2. CASE n # a + 1
    <3>1. /\ n \in 1 .. a /\ 2 * n - 1 - k \in 1 .. w + 2
          /\ 2 * n - 1 - k <= w
      BY <1>1, <1>6, <1>14, <1>16, <1>17, <2>2
    <3>2. v[2 * n - 1 - k] = u[2 * n - 1 - k]
      BY <1>15, <3>1
    <3> QED
      BY <1>9, <1>17, <3>1, <3>2
  <2> QED
    BY <2>1, <2>2
<1>18. ASSUME NEW n \in 1 .. a + 1, 2 * n > k
       PROVE  v[2 * n - k] = Body(<<c, n>>)
  <2>1. CASE n = a + 1
    <3>1. /\ 2 * n - k = w + 2 /\ w + 2 \in 1 .. w + 2
          /\ ~(w + 2 <= w) /\ (w + 2) - w = 2
      BY <1>1, <1>6, <1>14, <2>1
    <3>2. v[w + 2] = b[2]
      BY <1>15, <3>1
    <3> QED
      BY <1>2, <2>1, <3>1, <3>2 DEF r
  <2>2. CASE n # a + 1
    <3>1. /\ n \in 1 .. a /\ 2 * n - k \in 1 .. w + 2
          /\ 2 * n - k <= w
      BY <1>1, <1>6, <1>14, <1>16, <1>18, <2>2
    <3>2. v[2 * n - k] = u[2 * n - k]
      BY <1>15, <3>1
    <3> QED
      BY <1>9, <1>18, <3>1, <3>2
  <2> QED
    BY <2>1, <2>2
<1>19. Stream(c)'
  <2>1. \A n \in 1 .. MaxRequests : <<c, n>> \notin fresh' => 2 * n <= l
    BY <1>8, <1>9, <1>16
  <2>2. l = k /\ Len(v) <= 2 * asked'[c]
    BY <1>7, <1>16
  <2> QED
    BY <1>7, <1>17, <1>18, <2>1, <2>2 DEF Stream, v, l
<1> QED
  BY <1>7, <1>11, <1>12, <1>15, <1>16, <1>19 DEF v, w, l, k, u, a, S

-----------------------------------------------------------------------------
(***************************************************************************)
(* Sessioned is kept by every step.                                        *)
(***************************************************************************)

\* An undisturbed connection was sent responses to requests of its own, which
\* the pool was given, so their last bytes were read.
LEMMA SentWasRead ==
  ASSUME TypeOK, Places, NEW c \in Conns, Stream(c), Undisturbed(c),
         NEW i \in 1 .. Len(sent[c])
  PROVE  /\ sent[c][i] \in Requests
         /\ sent[c][i] = <<c, sent[c][i][2]>>
         /\ sent[c][i][2] \in Nat /\ 2 * sent[c][i][2] <= Consumed(c)
<1> DEFINE r == sent[c][i]
<1>1. sent[c] \in Seq(Requests)
  BY DEF TypeOK
<1>2. r \in Requests
  BY <1>1, ElementOfSeq
<1>3. r[1] = c
  <2>1. i \in DOMAIN sent[c]
    BY <1>1, LenProperties
  <2> QED
    BY <2>1 DEF Undisturbed
<1>4. r = <<c, r[2]>> /\ r[2] \in 1 .. MaxRequests
  BY <1>2, <1>3 DEF Requests
<1>5. r \notin fresh
  <2>1. Written(r)
    BY DEF Written
  <2> QED
    BY <1>2, <2>1 DEF Places, OnePlace
<1>6. 2 * r[2] <= Consumed(c)
  BY <1>4, <1>5 DEF Stream
<1> QED
  BY <1>2, <1>4, <1>6

\* It was sent no more responses than requests were read.
LEMMA SentBounded ==
  ASSUME TypeOK, Places, Answered, NEW c \in Conns, Stream(c), Undisturbed(c)
  PROVE  /\ Len(sent[c]) \in Nat
         /\ 2 * Len(sent[c]) <= Consumed(c) \/ Len(sent[c]) = 0
         /\ \A n \in Nat :
              (\A i \in 1 .. Len(sent[c]) : sent[c][i][2] < n)
                => Len(sent[c]) < n \/ Len(sent[c]) = 0
<1> DEFINE l == Len(sent[c])
           q == sent[c]
           k == Consumed(c)
<1>1. l \in Nat
  BY LenProperties DEF TypeOK
<1>2. \A i \in 1 .. l : q[i][2] \in Nat /\ 2 * q[i][2] <= k /\ i <= q[i][2]
  BY SentWasRead DEF Answered
<1>3. k \in Int
  <2>1. Unread(c) \in Seq(Tokens)
    BY ConcatProperties DEF Unread, TypeOK
  <2>2. asked[c] \in Nat /\ Len(Unread(c)) \in Nat
    BY <2>1, LenProperties, ServerAssumption DEF TypeOK
  <2> QED
    BY <2>2 DEF Consumed
<1> HIDE DEF l, q, k
<1>4. l # 0 => l \in 1 .. l
  BY <1>1
<1>5. 2 * l <= k \/ l = 0
  BY <1>1, <1>2, <1>3, <1>4
<1>6. ASSUME NEW n \in Nat, \A i \in 1 .. l : q[i][2] < n
      PROVE  l < n \/ l = 0
  BY <1>1, <1>2, <1>4, <1>6
<1> QED
  BY <1>1, <1>5, <1>6 DEF l, q, k

\* The sessions of other connections than c do not see what happens to c.
LEMMA OtherSessions ==
  ASSUME IInv, NEW c \in Conns, NEW s \in Live, sess[s].conn # c,
         sess'[s] = sess[s],
         \A d \in Conns \ {c} :
           /\ asked'[d] = asked[d] /\ sent'[d] = sent[d]
           /\ input'[d] = input[d] /\ Unread(d)' = Unread(d)
           /\ \A n \in 1 .. MaxRequests :
                <<d, n>> \in fresh' <=> <<d, n>> \in fresh
  PROVE  \A d \in Conns : sess'[s].conn = d => Session(s, d)'
<1> SUFFICES ASSUME NEW d \in Conns, sess'[s].conn = d
             PROVE  Session(s, d)'
  OBVIOUS
<1>1. TypeOK /\ s \in Slots /\ sess[s].conn = d /\ d # c
  BY DEF IInv, Live
<1>2. Session(s, d)
  BY <1>1 DEF IInv, Sessioned
<1>3. Untouched(s, d)
  BY <1>1 DEF Untouched
<1> QED
  BY <1>1, <1>2, <1>3, UntouchedSession

LEMMA SessionAsk ==
  ASSUME IInv, NEW c \in Conns, NEW kd, Ask(c, kd)
  PROVE  Sessioned'
<1>1. TypeOK /\ Links /\ Places /\ Sessioned /\ Answered
  BY DEF IInv
<1>2. link[c] = "open" /\ (c \in Pipeliners \/ Len(sent[c]) = asked[c])
  BY DEF Ask
<1>3. PICK s \in Live : sess[s].conn = c
  BY <1>1, <1>2 DEF Links
<1>4. Session(s, c)
  BY <1>1, <1>3 DEF Sessioned
<1>5. /\ Len(Unread(c)') = Len(Unread(c)) + 2
      /\ asked'[c] = asked[c] + 1
      /\ Stream(c)' /\ Consumed(c)' = Consumed(c)
      /\ \A d \in Conns \ {c} : Unread(d)' = Unread(d)
  BY <1>1, <1>4, AskEffect DEF Session
<1>6. UNCHANGED <<sess, fresh, sent, input>> /\ Live' = Live
  BY DEF Ask, pool, replies, Live
<1>7. asked[c] \in Nat /\ \A d \in Conns \ {c} : asked'[d] = asked[d]
  BY <1>1, ServerAssumption DEF TypeOK, Ask
<1>8. MidMessage(s)' = MidMessage(s) /\ Undisturbed(c)' = Undisturbed(c)
  BY <1>6 DEF MidMessage, Undisturbed
<1>9. Position(s, c)'
  BY <1>4, <1>5, <1>7, <1>8 DEF Session, Position
<1>10. Awaits(s, c)'
  BY <1>4, <1>6, <1>8 DEF Session, Awaits
<1>11. Outstanding(s, c)'
  <2> SUFFICES ASSUME Undisturbed(c), c \notin Pipeliners
               PROVE  /\ Len(Unread(c)') <= 2
                      /\ sess[s].stat # "response"
                      /\ sess[s].stat = "request" => input[c] = <<>>
    BY <1>6, <1>8 DEF Outstanding
  <2>1. /\ Len(sent[c]) = asked[c]
        /\ 2 * Len(sent[c]) <= Consumed(c) \/ Len(sent[c]) = 0
        /\ \A n \in Nat :
             (\A i \in 1 .. Len(sent[c]) : sent[c][i][2] < n)
               => Len(sent[c]) < n \/ Len(sent[c]) = 0
    BY <1>1, <1>2, <1>4, SentBounded DEF Session
  <2>2. Len(Unread(c)) \in Nat /\ Len(Unread(c)) <= 2 * asked[c]
    <3>1. Unread(c) \in Seq(Tokens)
      BY <1>1, ConcatProperties DEF Unread, TypeOK
    <3> QED
      BY <1>4, <3>1, LenProperties DEF Session, Stream
  <2>3. Consumed(c) = 2 * asked[c] - Len(Unread(c))
    BY DEF Consumed
  <2>4. Len(Unread(c)) = 0
    BY <1>7, <2>1, <2>2, <2>3
  <2>5. Len(Unread(c)') <= 2
    BY <1>5, <2>4
  <2>6. ASSUME sess[s].stat = "response"
        PROVE  FALSE
    <3> DEFINE m == sess[s].req[2]
    <3>1. /\ sess[s].req \in Requests /\ sess[s].req \notin fresh
          /\ sess[s].req[1] = c
          /\ \A i \in 1 .. Len(sent[c]) : sent[c][i][2] < m
      BY <1>4, <2>6 DEF Session, Awaits
    <3>2. m \in 1 .. MaxRequests /\ sess[s].req = <<c, m>>
      BY <3>1 DEF Requests
    <3>3. 2 * m <= Consumed(c)
      BY <1>4, <3>1, <3>2 DEF Session, Stream
    <3>4. m \in Nat /\ m >= 1
      BY <3>2, ServerAssumption
    <3>5. Len(sent[c]) < m \/ Len(sent[c]) = 0
      BY <2>1, <3>1, <3>4
    <3> HIDE DEF m
    <3> QED
      BY <1>7, <2>1, <2>3, <2>4, <3>3, <3>4, <3>5
  <2> QED
    BY <1>4, <2>5, <2>6 DEF Session, Outstanding
<1>12. Session(s, c)'
  BY <1>5, <1>9, <1>10, <1>11 DEF Session
<1>13. ASSUME NEW t \in Live, t # s
       PROVE  \A d \in Conns : sess'[t].conn = d => Session(t, d)'
  <2>1. sess[t].conn # c
    BY <1>1, <1>3, <1>13 DEF Links
  <2> QED
    BY <1>5, <1>6, <1>7, <2>1, OtherSessions
<1> QED
  BY <1>3, <1>6, <1>12, <1>13 DEF Sessioned

\* What a step that concerns connection c leaves alone.
OthersUntouched(c) ==
  \A d \in Conns \ {c} :
    /\ asked'[d] = asked[d] /\ sent'[d] = sent[d]
    /\ input'[d] = input[d] /\ Unread(d)' = Unread(d)
    /\ \A n \in 1 .. MaxRequests : <<d, n>> \in fresh' <=> <<d, n>> \in fresh

\* A step at the session of one connection.
LEMMA OneSession ==
  ASSUME IInv, NEW c \in Conns, NEW s \in Live, sess[s].conn = c,
         OthersUntouched(c), Live' \subseteq Live,
         \A t \in Live \ {s} : sess'[t] = sess[t],
         s \in Live' => sess'[s].conn = c /\ Session(s, c)'
  PROVE  Sessioned'
<1>1. ASSUME NEW t \in Live, t # s
      PROVE  \A d \in Conns : sess'[t].conn = d => Session(t, d)'
  <2>1. sess[t].conn # c
    BY <1>1 DEF IInv, Links
  <2> QED
    BY <1>1, <2>1, OtherSessions DEF OthersUntouched
<1> QED
  BY <1>1 DEF Sessioned

\* A step at no session.
LEMMA NoSession ==
  ASSUME IInv, Live' = Live, \A t \in Live : sess'[t] = sess[t],
         \A c \in Conns : \A n \in 1 .. MaxRequests :
           <<c, n>> \in fresh' <=> <<c, n>> \in fresh,
         asked' = asked, sent' = sent, input' = input, wire' = wire
  PROVE  Sessioned'
<1> SUFFICES ASSUME NEW s \in Live, NEW c \in Conns, sess[s].conn = c
             PROVE  Session(s, c)'
  BY DEF Sessioned
<1>1. TypeOK /\ Session(s, c) /\ s \in Slots
  BY DEF IInv, Sessioned, Live
<1>2. Untouched(s, c)
  BY DEF Untouched, Unread
<1> QED
  BY <1>1, <1>2, UntouchedSession

\* handle_request in the wrong session state.
LEMMA SessionWrongState ==
  ASSUME IInv, NEW c \in Conns, NEW n, HandleWrongState(c, n)
  PROVE  Sessioned'
<1>1. TypeOK /\ Links /\ Sessioned
  BY DEF IInv
<1>2. /\ link[c] = "open" /\ Len(Unread(c)) >= 1 /\ Takes(c, 0)
  BY <1>1, WrongStateEffect
<1>3. SlotOf(c) \in Live /\ sess[SlotOf(c)].conn = c
  BY <1>1, <1>2, SlotProperties
<1>4. PICK s \in Live : s = SlotOf(c)
  BY <1>3
<1>5. sess[s].conn = c /\ sess[s].stat # "request" /\ s \in Slots
  BY <1>3, <1>4 DEF HandleWrongState, Live
<1>6. Session(s, c)
  BY <1>1, <1>5 DEF Sessioned
<1>7. UNCHANGED <<sess, fresh, asked, sent>> /\ Live' = Live
  BY DEF HandleWrongState, pool, client, replies, Live
<1>8. sess[s].stat = "response"
  BY <1>1, <1>5 DEF TypeOK, Sessions
<1>9. Stream(c)' /\ Consumed(c)' = Consumed(c)
  <2>1. Unread(c) \in Seq(Tokens)
    BY <1>1, ConcatProperties DEF Unread, TypeOK
  <2>2. asked[c] \in Nat /\ Len(Unread(c)) \in Nat
    BY <1>1, <2>1, LenProperties, ServerAssumption DEF TypeOK
  <2>3. Consumed(c) \in Int
    BY <2>2 DEF Consumed
  <2>4. \A i \in 1 .. MaxRequests :
          <<c, i>> \notin fresh' => 2 * i <= Consumed(c) + 0
    BY <1>6, <1>7, <2>3 DEF Session, Stream
  <2>5. Stream(c)' /\ Consumed(c)' = Consumed(c) + 0
    BY <1>1, <1>2, <1>6, <1>7, <2>4, StreamTakes DEF Session
  <2> QED
    BY <2>3, <2>5
<1>10. MidMessage(s)' = MidMessage(s) /\ Undisturbed(c)' = Undisturbed(c)
  BY <1>7 DEF MidMessage, Undisturbed
<1>11. Position(s, c)'
  BY <1>6, <1>7, <1>9, <1>10 DEF Session, Position
<1>12. Awaits(s, c)'
  BY <1>6, <1>7, <1>10 DEF Session, Awaits
<1>13. Outstanding(s, c)'
  <2>1. Undisturbed(c) => c \in Pipeliners
    <3> SUFFICES ASSUME Undisturbed(c), c \notin Pipeliners
                 PROVE  FALSE
      OBVIOUS
    <3>1. Unread(c) = <<>>
      BY <1>6, <1>8 DEF Session, Outstanding
    <3>2. Len(Unread(c)) = 0
      BY <3>1
    <3> QED
      BY <1>2, <3>2
  <2> QED
    BY <1>10, <2>1 DEF Outstanding
<1>14. Session(s, c)'
  BY <1>9, <1>11, <1>12, <1>13 DEF Session
<1>15. OthersUntouched(c)
  BY <1>2, <1>7 DEF OthersUntouched, Takes
<1> QED
  BY <1>5, <1>7, <1>14, <1>15, OneSession

\* handle_request on a header without its body.
LEMMA SessionHeader ==
  ASSUME IInv, NEW c \in Conns, NEW n, HandleHeader(c, n)
  PROVE  Sessioned'
<1>1. TypeOK /\ Links /\ Sessioned
  BY DEF IInv
<1>2. link[c] = "open"
  BY DEF HandleHeader, Arrives
<1>3. SlotOf(c) \in Live /\ sess[SlotOf(c)].conn = c
  BY <1>1, <1>2, SlotProperties
<1>4. PICK s \in Live : s = SlotOf(c)
  BY <1>3
<1>5. /\ sess[s].conn = c /\ sess[s].stat = "request"
      /\ sess[s].read = "header" /\ s \in Slots
  BY <1>3, <1>4 DEF HandleHeader, Expects, Live
<1>6. Session(s, c)
  BY <1>1, <1>5 DEF Sessioned
<1>7. /\ Takes(c, 1) /\ input'[c] = <<>>
      /\ \E m \in 1 .. asked[c] : Consumed(c) = 2 * m - 2
  BY <1>1, <1>6, HeaderEffect DEF Session
<1>8. UNCHANGED <<fresh, asked, sent>>
  BY DEF HandleHeader, pool, client, replies
<1>9. sess' = [sess EXCEPT ![s].read = "message"]
  BY <1>4 DEF HandleHeader
<1>10. /\ sess'[s] = [sess[s] EXCEPT !.read = "message"]
       /\ \A t \in Slots \ {s} : sess'[t] = sess[t]
  BY <1>1, <1>5, <1>9 DEF TypeOK
<1>11. /\ sess'[s].conn = c /\ sess'[s].stat = "request"
       /\ sess'[s].read = "message" /\ sess'[s].req = sess[s].req
  BY <1>1, <1>5, <1>10 DEF TypeOK, Sessions
<1>12. Live' \subseteq Live
  BY <1>10 DEF Live
<1>13. asked[c] \in Nat /\ Consumed(c) \in Int
  <2>1. Unread(c) \in Seq(Tokens)
    BY <1>1, ConcatProperties DEF Unread, TypeOK
  <2>2. asked[c] \in Nat /\ Len(Unread(c)) \in Nat
    BY <1>1, <2>1, LenProperties, ServerAssumption DEF TypeOK
  <2> QED
    BY <2>2 DEF Consumed
<1>14. Stream(c)' /\ Consumed(c)' = Consumed(c) + 1
  <2>1. \A i \in 1 .. MaxRequests : <<c, i>> \notin fresh' => 2 * i <= Consumed(c)
    BY <1>6, <1>8 DEF Session, Stream
  <2>2. \A i \in 1 .. MaxRequests :
          <<c, i>> \notin fresh' => 2 * i <= Consumed(c) + 1
    BY <1>13, <2>1
  <2> QED
    BY <1>1, <1>6, <1>7, <1>8, <2>2, StreamTakes DEF Session
<1>15. MidMessage(s)' /\ Undisturbed(c)' = Undisturbed(c)
  BY <1>8, <1>11 DEF MidMessage, Undisturbed
<1>16. Position(s, c)'
  <2>1. PICK m \in 1 .. asked[c] : Consumed(c) = 2 * m - 2
    BY <1>7
  <2>2. Consumed(c)' = 2 * m - 1
    BY <1>13, <1>14, <2>1
  <2> QED
    BY <1>8, <1>15, <2>2 DEF Position
<1>17. Awaits(s, c)'
  BY <1>11 DEF Awaits
<1>18. Outstanding(s, c)'
  <2> SUFFICES ASSUME Undisturbed(c), c \notin Pipeliners
               PROVE  Len(Unread(c)') <= 2
    BY <1>7, <1>11, <1>15 DEF Outstanding
  <2>1. Len(Unread(c)) <= 2 /\ Len(Unread(c)') = Len(Unread(c)) - 1
    BY <1>6, <1>7 DEF Session, Outstanding, Takes
  <2>2. Unread(c) \in Seq(Tokens)
    BY <1>1, ConcatProperties DEF Unread, TypeOK
  <2>3. Len(Unread(c)) \in Nat
    BY <2>2, LenProperties
  <2> QED
    BY <2>1, <2>3
<1>19. Session(s, c)'
  BY <1>14, <1>16, <1>17, <1>18 DEF Session
<1>20. OthersUntouched(c)
  BY <1>7, <1>8 DEF OthersUntouched, Takes
<1>21. \A t \in Live \ {s} : sess'[t] = sess[t]
  BY <1>10 DEF Live
<1> QED
  BY <1>5, <1>11, <1>12, <1>19, <1>20, <1>21, OneSession

\* handle_request on a message: the session waits for its response.
LEMMA SessionMessage ==
  ASSUME IInv, NEW c \in Conns, NEW n, HandleMessage(c, n)
  PROVE  Sessioned'
<1>1. TypeOK /\ Links /\ Places /\ Sessioned
  BY DEF IInv
<1>2. link[c] = "open"
  BY DEF HandleMessage, ReadsBody, Arrives
<1>3. SlotOf(c) \in Live /\ sess[SlotOf(c)].conn = c
  BY <1>1, <1>2, SlotProperties
<1>4. PICK s \in Live : s = SlotOf(c)
  BY <1>3
<1>5. sess[s].conn = c /\ s \in Slots
  BY <1>3, <1>4 DEF Live
<1>6. Session(s, c)
  BY <1>1, <1>5 DEF Sessioned
<1>7. PICK m \in 1 .. asked[c], j \in 1 .. 2 :
        /\ Head(BodyOn(c, n)).of = <<c, m>>
        /\ Takes(c, j) /\ Consumed(c) + j = 2 * m
  BY <1>1, <1>4, <1>6, MessageEffect DEF Session
<1> DEFINE r == <<c, m>>
<1>8. /\ sess' = [sess EXCEPT ![s] = [@ EXCEPT !.stat = "response",
                                               !.read = "message", !.req = r]]
      /\ Enqueue(r) /\ UNCHANGED <<asked, sent>>
  BY <1>4, <1>7 DEF HandleMessage, client, replies
<1>9. /\ asked[c] \in Nat /\ m \in 1 .. MaxRequests /\ r \in Requests
      /\ m \in Nat /\ j \in Nat
  <2>1. asked[c] \in 0 .. MaxRequests /\ MaxRequests \in Nat
    BY <1>1, ServerAssumption DEF TypeOK
  <2>2. m \in 1 .. MaxRequests
    BY <2>1
  <2> QED
    BY <2>1, <2>2 DEF Requests
<1> HIDE DEF r
<1>10. r \in fresh /\ fresh' = fresh \ {r}
  BY <1>8 DEF Enqueue, Pool!Submit, Pool!Refuse
<1>11. /\ sess'[s] = [sess[s] EXCEPT !.stat = "response",
                                     !.read = "message", !.req = r]
       /\ \A t \in Slots \ {s} : sess'[t] = sess[t]
  BY <1>1, <1>5, <1>8 DEF TypeOK
<1>12. /\ sess'[s].conn = c /\ sess'[s].stat = "response"
       /\ sess'[s].read = "message" /\ sess'[s].req = r
  BY <1>1, <1>5, <1>11 DEF TypeOK, Sessions
<1>13. Live' \subseteq Live
  BY <1>11 DEF Live
<1>14. Unread(c) \in Seq(Tokens) /\ Len(Unread(c)) \in Nat
  <2>1. Unread(c) \in Seq(Tokens)
    BY <1>1, ConcatProperties DEF Unread, TypeOK
  <2> QED
    BY <2>1, LenProperties
<1>15. Consumed(c) \in Int
  BY <1>9, <1>14 DEF Consumed
<1>16. Stream(c)' /\ Consumed(c)' = 2 * m
  <2>1. \A i \in 1 .. MaxRequests : <<c, i>> \notin fresh => 2 * i <= Consumed(c)
    BY <1>6 DEF Session, Stream
  <2>2. \A i \in 1 .. MaxRequests :
          <<c, i>> \notin fresh' => i = m \/ 2 * i <= Consumed(c)
    BY <1>10, <2>1 DEF r
  <2>3. \A i \in 1 .. MaxRequests :
          <<c, i>> \notin fresh' => 2 * i <= Consumed(c) + j
    BY <1>7, <1>9, <1>15, <2>2
  <2> QED
    BY <1>1, <1>6, <1>7, <1>8, <1>9, <2>3, StreamTakes DEF Session
<1>17. ~MidMessage(s)' /\ Undisturbed(c)' = Undisturbed(c)
  BY <1>8, <1>12 DEF MidMessage, Undisturbed
<1>18. Position(s, c)'
  <2>1. m \in 0 .. asked[c]
    BY <1>9
  <2> QED
    BY <1>8, <1>16, <1>17, <2>1 DEF Position
<1>19. Awaits(s, c)'
  <2> SUFFICES ASSUME Undisturbed(c), NEW i \in 1 .. Len(sent[c])
               PROVE  sent[c][i][2] < m
    BY <1>8, <1>9, <1>10, <1>12, <1>17 DEF Awaits, r
  <2>1. sent[c][i][2] \in Nat /\ 2 * sent[c][i][2] <= Consumed(c)
    BY <1>1, <1>6, SentWasRead DEF Session
  <2>2. Consumed(c) < 2 * m
    BY <1>7, <1>9, <1>15
  <2> DEFINE x == sent[c][i][2]
             k == Consumed(c)
  <2>3. x \in Nat /\ 2 * x <= k /\ k < 2 * m /\ k \in Int /\ m \in Nat
    BY <1>9, <1>15, <2>1, <2>2
  <2> HIDE DEF x, k
  <2>4. x < m
    BY <2>3
  <2> QED
    BY <2>4 DEF x
<1>20. Outstanding(s, c)'
  <2> SUFFICES ASSUME Undisturbed(c), c \notin Pipeliners
               PROVE  Len(Unread(c)') <= 2 /\ Unread(c)' = <<>>
    BY <1>12, <1>17 DEF Outstanding
  <2>1. Len(Unread(c)) <= 2 /\ Len(Unread(c)') = Len(Unread(c)) - j
    BY <1>6, <1>7 DEF Session, Outstanding, Takes
  <2>2. Len(Unread(c)') <= 1
    BY <1>9, <1>14, <2>1
  <2>3. Consumed(c)' = 2 * asked[c] - Len(Unread(c)')
    BY <1>8 DEF Consumed
  <2>4. Unread(c)' \in Seq(Tokens)
    <3>1. wire' \in [Conns -> Seq(Tokens)] /\ input' \in [Conns -> Seq(Tokens)]
      BY <1>1, <1>4, <1>6, MessageEffect DEF Session
    <3>2. wire'[c] \in Seq(Tokens) /\ input'[c] \in Seq(Tokens)
      BY <3>1
    <3> QED
      BY <3>2, ConcatProperties DEF Unread
  <2>5. Len(Unread(c)') \in Nat
    BY <2>4, LenProperties
  <2>6. Len(Unread(c)') = 0
    BY <1>9, <1>16, <2>2, <2>3, <2>5
  <2> QED
    BY <2>4, <2>6, EmptySeq
<1>21. Session(s, c)'
  BY <1>16, <1>18, <1>19, <1>20 DEF Session
<1>22. OthersUntouched(c)
  BY <1>7, <1>8, <1>10 DEF OthersUntouched, Takes, r
<1>23. \A t \in Live \ {s} : sess'[t] = sess[t]
  BY <1>11 DEF Live
<1> QED
  BY <1>5, <1>12, <1>13, <1>21, <1>22, <1>23, OneSession

\* A session ends: handle_error, a bad header or an unknown event.
Ends(s) ==
  /\ s \in Live /\ Close(s)
  /\ UNCHANGED <<pool, client, args, replies, phase>>

LEMMA SessionEnds ==
  ASSUME IInv, NEW s, Ends(s)
  PROVE  Sessioned'
<1>1. TypeOK /\ Links /\ s \in Live /\ s \in Slots
  BY DEF IInv, Ends, Live
<1>2. PICK c \in Conns : c = sess[s].conn
  BY <1>1 DEF Links
<1>3. /\ sess' = [sess EXCEPT ![s] = Freed]
      /\ wire' = [wire EXCEPT ![c] = <<>>]
      /\ input' = [input EXCEPT ![c] = <<>>]
      /\ UNCHANGED <<asked, sent, fresh>>
  BY <1>2 DEF Ends, Close, pool, client, replies
<1>4. sess'[s] = Freed /\ \A t \in Slots \ {s} : sess'[t] = sess[t]
  BY <1>1, <1>3 DEF TypeOK
<1>5. Live' \subseteq Live /\ s \notin Live'
  BY <1>4 DEF Live
<1>6. \A d \in Conns \ {c} : wire'[d] = wire[d] /\ input'[d] = input[d]
  BY <1>1, <1>3 DEF TypeOK
<1>7. OthersUntouched(c)
  BY <1>3, <1>6 DEF OthersUntouched, Unread
<1>8. \A t \in Live \ {s} : sess'[t] = sess[t]
  BY <1>4 DEF Live
<1> QED
  BY <1>1, <1>2, <1>5, <1>7, <1>8, OneSession

\* listener_cb: the session of a connection that nothing happened to yet.
LEMMA SessionAccept ==
  ASSUME IInv, NEW c \in Conns, Accept(c)
  PROVE  Sessioned'
<1>1. TypeOK /\ Links /\ Places
  BY DEF IInv
<1>2. PICK s \in Slots \ Live : sess' = [sess EXCEPT ![s] = Opened(c)]
  BY DEF Accept
<1>3. /\ link[c] = "new"
      /\ UNCHANGED <<fresh, pending, running, asked, wire, input, responses>>
      /\ UNCHANGED sent
  BY DEF Accept, pool, client, replies
<1>4. sess'[s] = Opened(c) /\ \A t \in Slots \ {s} : sess'[t] = sess[t]
  BY <1>1, <1>2 DEF TypeOK
<1>5. /\ asked[c] = 0 /\ sent[c] = <<>> /\ wire[c] = <<>> /\ input[c] = <<>>
  BY <1>1, <1>3 DEF Links
<1>6. Unread(c) = <<>> /\ Len(Unread(c)) = 0 /\ Consumed(c) = 0
  <2>1. Unread(c) = <<>> \o <<>>
    BY <1>5 DEF Unread
  <2>2. <<>> \in Seq(Tokens)
    OBVIOUS
  <2>3. <<>> \o <<>> = <<>>
    BY <2>2, ConcatEmptySeq
  <2>4. Unread(c) = <<>> /\ Len(Unread(c)) = 0
    BY <2>1, <2>3
  <2>5. Consumed(c) = 2 * asked[c] - Len(Unread(c))
    BY DEF Consumed
  <2>6. asked[c] = 0 /\ Len(Unread(c)) = 0
    BY <1>5, <2>4
  <2> QED
    BY <2>4, <2>5, <2>6
<1>7. /\ sess'[s].conn = c /\ sess'[s].stat = "request"
      /\ sess'[s].read = "header"
  BY <1>4 DEF Opened, Freed
<1>8. Session(s, c)'
  <2>1. /\ Unread(c)' = <<>> /\ Len(Unread(c)') = 0 /\ Consumed(c)' = 0
        /\ asked'[c] = 0
    BY <1>3, <1>5, <1>6 DEF Unread, Consumed
  <2>2. ASSUME NEW n \in 1 .. MaxRequests, <<c, n>> \notin fresh
        PROVE  FALSE
    <3>1. <<c, n>> \in Requests
      BY DEF Requests
    <3>2. n <= 0
      BY <1>1, <1>5, <2>2, <3>1 DEF Places, OnePlace
    <3> QED
      BY <3>2
  <2>3. Stream(c)'
    BY <1>3, <2>1, <2>2 DEF Stream
  <2>4. Position(s, c)'
    BY <1>7, <2>1 DEF Position, MidMessage
  <2>5. Awaits(s, c)'
    BY <1>7 DEF Awaits
  <2>6. Outstanding(s, c)'
    BY <1>3, <1>5, <1>7, <2>1 DEF Outstanding
  <2> QED
    BY <2>3, <2>4, <2>5, <2>6 DEF Session
<1>9. ASSUME NEW t \in Live, t # s
      PROVE  \A d \in Conns : sess'[t].conn = d => Session(t, d)'
  <2>1. sess[t].conn # c
    BY <1>1, <1>3 DEF Links
  <2>2. sess'[t] = sess[t]
    BY <1>4, <1>9 DEF Live
  <2>3. \A d \in Conns \ {c} : Unread(d)' = Unread(d)
    BY <1>3 DEF Unread
  <2> QED
    BY <1>3, <2>1, <2>2, <2>3, OtherSessions
<1>10. Live' \subseteq Live \cup {s}
  BY <1>4 DEF Live
<1> QED
  BY <1>7, <1>8, <1>9, <1>10 DEF Sessioned

\* The response at the head of the queue belongs to a request in flight.
LEMMA HeadWaits ==
  ASSUME TypeOK, responses # <<>>
  PROVE  /\ Head(responses) \in Requests /\ Head(responses) \in InFlight
         /\ Waiting(Head(responses))
<1>1. responses \in Seq(Requests) /\ responses # <<>>
  BY DEF TypeOK
<1>2. Head(responses) = responses[1] /\ Len(responses) \in Nat
  BY <1>1, LenProperties
<1>3. Len(responses) >= 1
  BY <1>1, <1>2, EmptySeq
<1>4. 1 \in 1 .. Len(responses) /\ 1 \in DOMAIN responses
  BY <1>1, <1>2, <1>3, LenProperties
<1>5. responses[1] \in Requests
  BY <1>1, <1>4, ElementOfSeq
<1> QED
  BY <1>2, <1>4, <1>5 DEF InFlight, Waiting, Names

\* The response to r is written to connection c through its session s.
Writing(r, s, c) ==
  /\ s = args[r] /\ s \in Slots /\ sess[s].conn = c
  /\ link[c] = "open"
  /\ sent' = [sent EXCEPT ![c] = Append(sent[c], r)]
  /\ Len(sent[c]) \in Nat /\ Len(sent'[c]) = Len(sent[c]) + 1
  /\ sent'[c][Len(sent[c]) + 1] = r
  /\ \A i \in 1 .. Len(sent[c]) : sent'[c][i] = sent[c][i]
  /\ \A d \in Conns \ {c} : sent'[d] = sent[d]
  /\ sent' \in [Conns -> Seq(Requests)]
  /\ sess' = [sess EXCEPT ![s] = Reset(s)]
  /\ sess'[s] \in Sessions
  /\ sess'[s].conn = c /\ sess'[s].stat = "request"
  /\ sess'[s].read = "header"
  /\ \A t \in Slots \ {s} : sess'[t] = sess[t]
  /\ Undisturbed(c)' => Undisturbed(c) /\ r[1] = c

LEMMA RespondEffect ==
  ASSUME TypeOK, Links, NEW r \in Requests, Respond(r)
  PROVE  \E s \in Live, c \in Conns : Writing(r, s, c)
<1>1. PICK s \in Live : s = args[r]
  BY DEF Respond
<1>2. PICK c \in Conns : c = sess[s].conn /\ link[c] = "open"
  BY <1>1 DEF Links
<1>3. /\ sent' = [sent EXCEPT ![c] = Append(sent[c], r)]
      /\ sess' = [sess EXCEPT ![s] = Reset(s)]
  BY <1>1, <1>2 DEF Respond
<1>4. /\ s \in Slots /\ sent \in [Conns -> Seq(Requests)]
      /\ sess \in [Slots -> Sessions]
  BY DEF Live, TypeOK
<1>5. sent[c] \in Seq(Requests)
  BY <1>4
<1>6. /\ Append(sent[c], r) \in Seq(Requests)
      /\ Len(Append(sent[c], r)) = Len(sent[c]) + 1
      /\ \A i \in 1 .. Len(sent[c]) : Append(sent[c], r)[i] = sent[c][i]
      /\ Append(sent[c], r)[Len(sent[c]) + 1] = r
  BY <1>5, AppendProperties
<1>7. Len(sent[c]) \in Nat
  BY <1>5, LenProperties
<1>8. /\ sent'[c] = Append(sent[c], r) /\ sent' \in [Conns -> Seq(Requests)]
      /\ \A d \in Conns \ {c} : sent'[d] = sent[d]
  BY <1>3, <1>4, <1>6
<1>9. sess'[s] = Reset(s) /\ \A t \in Slots \ {s} : sess'[t] = sess[t]
  BY <1>3, <1>4
<1>10. /\ sess'[s] \in Sessions
       /\ sess'[s].conn = c /\ sess'[s].stat = "request"
       /\ sess'[s].read = "header"
  <2>1. sess[s] \in Sessions
    BY <1>4
  <2> QED
    BY <1>2, <1>9, <2>1 DEF Reset, Sessions
<1>11. ASSUME Undisturbed(c)'
       PROVE  Undisturbed(c) /\ r[1] = c
  <2> DEFINE q == sent[c]
             p == sent'[c]
             l == Len(sent[c])
  <2>1. /\ DOMAIN q = 1 .. l /\ DOMAIN p = 1 .. l + 1 /\ l \in Nat
    <3>1. p \in Seq(Requests) /\ Len(p) = l + 1
      BY <1>6, <1>8
    <3> QED
      BY <1>5, <1>7, <3>1, LenProperties
  <2>2. p[l + 1] = r /\ \A i \in 1 .. l : p[i] = q[i]
    BY <1>6, <1>8
  <2>3. \A i \in DOMAIN p : p[i][1] = c
    BY <1>11 DEF Undisturbed
  <2>4. (\A i \in DOMAIN q : q[i][1] = c) => Undisturbed(c)
    BY DEF Undisturbed
  <2> HIDE DEF q, p, l
  <2> QED
    BY <2>1, <2>2, <2>3, <2>4
<1>12. /\ Len(sent'[c]) = Len(sent[c]) + 1
       /\ sent'[c][Len(sent[c]) + 1] = r
       /\ \A i \in 1 .. Len(sent[c]) : sent'[c][i] = sent[c][i]
  BY <1>6, <1>8
<1>13. Writing(r, s, c)
  BY <1>1, <1>2, <1>3, <1>4, <1>7, <1>8, <1>9, <1>10, <1>11, <1>12 DEF Writing
<1> QED
  BY <1>13

\* handleAllResponseEvent writes a response and resets the session.
LEMMA SessionRespond ==
  ASSUME IInv, PopResponse, Respond(Head(responses))
  PROVE  Sessioned'
<1> DEFINE r == Head(responses)
<1>1. TypeOK /\ Links /\ Sessioned /\ Owned
  BY DEF IInv
<1>2. r \in Requests /\ r \in InFlight
  BY <1>1, HeadWaits DEF PopResponse
<1>3. UNCHANGED <<fresh, link, asked, wire, input, args>>
  BY DEF PopResponse, pool, client
<1>4. PICK s \in Live, c \in Conns : Writing(r, s, c)
  BY <1>1, <1>2, RespondEffect
<1>5. /\ s = args[r] /\ s \in Slots /\ sess[s].conn = c
      /\ link[c] = "open"
      /\ \A d \in Conns \ {c} : sent'[d] = sent[d]
      /\ sess'[s].conn = c /\ sess'[s].stat = "request"
      /\ sess'[s].read = "header"
      /\ \A t \in Slots \ {s} : sess'[t] = sess[t]
      /\ Undisturbed(c)' => Undisturbed(c) /\ r[1] = c
  BY <1>4 DEF Writing
<1> HIDE DEF r
<1>6. Session(s, c)
  BY <1>1, <1>5 DEF Sessioned
<1>7. Undisturbed(c)' => Undisturbed(c) /\ sess[s].stat = "response"
  BY <1>1, <1>2, <1>5 DEF Owned
<1>8. Unread(c)' = Unread(c) /\ Consumed(c)' = Consumed(c)
  BY <1>3 DEF Unread, Consumed
<1>9. Stream(c)'
  BY <1>3, <1>6, <1>8 DEF Session, Stream
<1>10. Position(s, c)'
  BY <1>3, <1>5, <1>6, <1>7, <1>8 DEF Session, Position, MidMessage
<1>11. Awaits(s, c)'
  BY <1>5 DEF Awaits
<1>12. Outstanding(s, c)'
  <2> SUFFICES ASSUME Undisturbed(c), c \notin Pipeliners,
                      sess[s].stat = "response"
               PROVE  Len(Unread(c)) <= 2 /\ input[c] = <<>>
    BY <1>3, <1>5, <1>7, <1>8 DEF Outstanding
  <2>1. Len(Unread(c)) <= 2 /\ Unread(c) = <<>>
    BY <1>6 DEF Session, Outstanding
  <2>2. input[c] \in Seq(Tokens) /\ wire[c] \in Seq(Tokens)
    BY <1>1 DEF TypeOK
  <2>3. Len(input[c]) = 0
    <3>1. input[c] \o wire[c] = <<>>
      BY <2>1 DEF Unread
    <3>2. input[c] = <<>>
      BY <2>2, <3>1, ConcatEqualIffEmpty
    <3> QED
      BY <3>2
  <2> QED
    BY <2>1, <2>2, <2>3, EmptySeq
<1>13. Session(s, c)'
  BY <1>9, <1>10, <1>11, <1>12 DEF Session
<1>14. OthersUntouched(c)
  BY <1>3, <1>5 DEF OthersUntouched, Unread
<1>15. /\ \A t \in Live \ {s} : sess'[t] = sess[t]
       /\ Live' \subseteq Live
  BY <1>5 DEF Live
<1> QED
  BY <1>5, <1>13, <1>14, <1>15, OneSession

-----------------------------------------------------------------------------
(***************************************************************************)
(* The steps, told apart by what they do.                                  *)
(***************************************************************************)

\* The main thread goes on to its other half, or nothing happens at all.
Still ==
  /\ phase' \in {"dispatch", "respond"} \/ UNCHANGED phase
  /\ UNCHANGED <<pool, link, client, wire, input, sess, args, replies>>

\* A response that is popped and written to nobody.
Drops ==
  /\ responses # <<>> /\ responses' = Tail(responses)
  /\ unsent' = unsent \cup {Head(responses)}
  /\ UNCHANGED <<pool, link, client, wire, input, sess, args, sent, phase>>

LEMMA NextCases ==
  ASSUME Links, [Next]_vars
  PROVE  \/ \E c \in Conns, k \in Kinds : Ask(c, k)
         \/ \E c \in Conns : Accept(c)
         \/ \E c \in Conns, n \in Nat : HandleWrongState(c, n)
         \/ \E c \in Conns, n \in Nat : HandleHeader(c, n)
         \/ \E c \in Conns, n \in Nat : HandleMessage(c, n)
         \/ \E s \in Slots : Ends(s)
         \/ PopResponse /\ Respond(Head(responses))
         \/ Drops
         \/ \E w \in Workers : StartTask(w)
         \/ \E w \in Workers : Finish(w)
         \/ Still
<1>1. CASE ClientNext
  BY <1>1 DEF ClientNext
<1>2. CASE \E c \in Conns : Accept(c)
  BY <1>2
<1>3. ASSUME NEW c \in Conns, HandleRequest(c)
      PROVE  \/ \E n \in Nat : HandleWrongState(c, n)
             \/ \E n \in Nat : HandleHeader(c, n)
             \/ \E n \in Nat : HandleMessage(c, n)
             \/ \E s \in Slots : Ends(s)
  <2>1. PICK n \in 1 .. 2 * MaxRequests :
          \/ HandleWrongState(c, n) \/ HandleBadHeader(c, n)
          \/ HandleHeader(c, n)
          \/ HandleMessage(c, n) \/ HandleUnknown(c, n)
    BY <1>3 DEF HandleRequest
  <2>2. n \in Nat
    BY ServerAssumption
  <2>3. ASSUME HandleBadHeader(c, n) \/ HandleUnknown(c, n)
        PROVE  Ends(SlotOf(c)) /\ SlotOf(c) \in Slots
    <3>1. link[c] = "open"
      BY <2>3 DEF HandleBadHeader, HandleUnknown, ReadsBody, Arrives
    <3>2. SlotOf(c) \in Live /\ SlotOf(c) \in Slots
      BY <3>1, SlotProperties
    <3> QED
      BY <2>3, <3>2 DEF HandleBadHeader, HandleUnknown, Ends
  <2> QED
    BY <2>1, <2>2, <2>3
<1>4. ASSUME NEW s \in Slots, HandleError(s)
      PROVE  Ends(s)
  BY <1>4 DEF HandleError, Ends
<1>5. CASE EndDispatch \/ EndRespond
  BY <1>5 DEF EndDispatch, EndRespond, Still
<1>6. ASSUME PopResponse
      PROVE  PopResponse /\ (Respond(Head(responses)) \/ Drops)
  <2>1. \/ Respond(Head(responses)) \/ RespondFreed(Head(responses))
        \/ Ignore(Head(responses))
    BY <1>6 DEF PopResponse
  <2> QED
    BY <1>6, <2>1 DEF PopResponse, RespondFreed, Ignore, Drops
<1>7. CASE WorkerNext
  BY <1>7 DEF WorkerNext
<1>8. CASE UNCHANGED vars
  BY <1>8 DEF vars, Still
<1> QED
  BY <1>1, <1>2, <1>3, <1>4, <1>5, <1>6, <1>7, <1>8 DEF Next, MainNext

LEMMA SessionedStep ==
  ASSUME IInv, [Next]_vars
  PROVE  Sessioned'
<1>1. Links
  BY DEF IInv
<1>2. ASSUME NEW w \in Workers, StartTask(w) \/ Finish(w)
      PROVE  Sessioned'
  <2>1. UNCHANGED <<sess, fresh, asked, sent, input, wire>> /\ Live' = Live
    BY <1>2 DEF StartTask, Finish, Pool!Start, Pool!Finish, client, replies,
                Live
  <2> QED
    BY <2>1, NoSession
<1>3. CASE Still \/ Drops
  <2>1. UNCHANGED <<sess, fresh, asked, sent, input, wire>> /\ Live' = Live
    BY <1>3 DEF Still, Drops, pool, client, replies, Live
  <2> QED
    BY <2>1, NoSession
<1> QED
  BY <1>1, <1>2, <1>3, NextCases, SessionAsk, SessionAccept,
     SessionWrongState, SessionHeader, SessionMessage, SessionEnds,
     SessionRespond

-----------------------------------------------------------------------------
(***************************************************************************)
(* Types are kept by every step.                                           *)
(***************************************************************************)

LEMMA TypeAsk ==
  ASSUME TypeOK, NEW c \in Conns, NEW kd \in Kinds, Stream(c), Ask(c, kd)
  PROVE  TypeOK'
<1>1. wire' \in [Conns -> Seq(Tokens)] /\ asked'[c] = asked[c] + 1
  BY AskEffect
<1>2. asked[c] + 1 \in 0 .. MaxRequests /\ <<c, asked[c] + 1>> \in Requests
  <2>1. asked[c] \in 0 .. MaxRequests /\ asked[c] < MaxRequests
    BY DEF TypeOK, Ask
  <2>2. asked[c] + 1 \in 1 .. MaxRequests
    BY <2>1, ServerAssumption
  <2> QED
    BY <2>2 DEF Requests
<1>3. asked' \in [Conns -> 0 .. MaxRequests]
  BY <1>2 DEF TypeOK, Ask
<1>4. kind' \in [Requests -> Kinds \cup {None}]
  BY <1>2 DEF TypeOK, Ask
<1> QED
  BY <1>1, <1>3, <1>4 DEF TypeOK, Ask, pool, replies

LEMMA TypeAccept ==
  ASSUME TypeOK, NEW c \in Conns, Accept(c)
  PROVE  TypeOK'
<1>1. PICK s \in Slots : sess' = [sess EXCEPT ![s] = Opened(c)]
  BY DEF Accept
<1>2. Opened(c) \in Sessions
  BY DEF Opened, Freed, Sessions
<1>3. sess' \in [Slots -> Sessions]
  BY <1>1, <1>2 DEF TypeOK
<1>4. link' \in [Conns -> {"new", "open", "closed"}]
  BY DEF TypeOK, Accept
<1> QED
  BY <1>3, <1>4 DEF TypeOK, Accept, pool, client, replies

LEMMA TypeEnds ==
  ASSUME TypeOK, Links, NEW s \in Slots, Ends(s)
  PROVE  TypeOK'
<1>1. PICK c \in Conns : c = sess[s].conn
  BY DEF Ends, Links
<1>2. Freed \in Sessions /\ <<>> \in Seq(Tokens)
  BY DEF Freed, Sessions
<1>3. sess' \in [Slots -> Sessions]
  BY <1>2 DEF TypeOK, Ends, Close
<1>4. link' \in [Conns -> {"new", "open", "closed"}]
  BY <1>1 DEF TypeOK, Ends, Close
<1>5. wire' \in [Conns -> Seq(Tokens)] /\ input' \in [Conns -> Seq(Tokens)]
  BY <1>1, <1>2 DEF TypeOK, Ends, Close
<1> QED
  BY <1>3, <1>4, <1>5 DEF TypeOK, Ends, pool, client, replies

LEMMA TypeHeader ==
  ASSUME TypeOK, Links, NEW c \in Conns, NEW n, Stream(c), HandleHeader(c, n)
  PROVE  TypeOK'
<1>1. wire' \in [Conns -> Seq(Tokens)] /\ input' \in [Conns -> Seq(Tokens)]
  BY HeaderEffect
<1>2. SlotOf(c) \in Slots
  BY SlotProperties DEF HandleHeader, Arrives
<1>3. sess' \in [Slots -> Sessions]
  <2>1. PICK s \in Slots : s = SlotOf(c)
    BY <1>2
  <2>2. sess[s] \in Sessions
    BY DEF TypeOK
  <2>3. [sess[s] EXCEPT !.read = "message"] \in Sessions
    BY <2>2 DEF Sessions
  <2>4. sess' = [sess EXCEPT ![s] = [sess[s] EXCEPT !.read = "message"]]
    BY <2>1 DEF HandleHeader
  <2> QED
    BY <2>3, <2>4 DEF TypeOK
<1> QED
  BY <1>1, <1>3 DEF TypeOK, HandleHeader, pool, client, replies

\* The pool takes a request, or refuses it.
LEMMA TypeEnqueue ==
  ASSUME TypeOK, NEW r \in Requests, Enqueue(r)
  PROVE  /\ fresh' \subseteq Requests
         /\ pending' \in Seq(Requests) /\ Len(pending') <= MaxPending
         /\ running' = running /\ finished' = finished
         /\ refused' \subseteq Requests /\ retired' = {}
<1>1. pending \in Seq(Requests) /\ Len(pending) \in Nat
  BY LenProperties DEF TypeOK
<1>2. CASE Pool!Submit(r)
  <2>1. pending' = Append(pending, r) /\ Len(pending) < MaxPending
    BY <1>2 DEF Pool!Submit
  <2>2. pending' \in Seq(Requests) /\ Len(pending') = Len(pending) + 1
    BY <1>1, <2>1, AppendProperties
  <2>3. Len(pending') <= MaxPending
    <3> DEFINE l == Len(pending)
    <3>1. l \in Nat /\ l < MaxPending /\ Len(pending') = l + 1
      BY <1>1, <2>1, <2>2
    <3> HIDE DEF l
    <3> QED
      BY <3>1, ServerAssumption
  <2> QED
    BY <1>2, <2>2, <2>3 DEF TypeOK, Pool!Submit
<1>3. CASE Pool!Refuse(r)
  BY <1>3 DEF TypeOK, Pool!Refuse
<1> QED
  BY <1>2, <1>3 DEF Enqueue

LEMMA TypeMessage ==
  ASSUME TypeOK, Links, NEW c \in Conns, NEW n, Stream(c),
         Position(SlotOf(c), c), HandleMessage(c, n)
  PROVE  TypeOK'
<1>1. /\ wire' \in [Conns -> Seq(Tokens)] /\ input' \in [Conns -> Seq(Tokens)]
      /\ link[c] = "open"
  BY MessageEffect
<1>2. SlotOf(c) \in Slots
  BY <1>1, SlotProperties
<1>3. PICK r \in Requests : r = Head(BodyOn(c, n)).of
  <2>1. PICK m \in 1 .. asked[c] : Head(BodyOn(c, n)).of = <<c, m>>
    BY MessageEffect
  <2>2. m \in 1 .. MaxRequests
    <3>1. asked[c] \in 0 .. MaxRequests /\ MaxRequests \in Nat
      BY ServerAssumption DEF TypeOK
    <3> QED
      BY <3>1
  <2> QED
    BY <2>1, <2>2 DEF Requests
<1>4. /\ Enqueue(r) /\ args' = [args EXCEPT ![r] = SlotOf(c)]
      /\ sess' = [sess EXCEPT ![SlotOf(c)] =
                    [@ EXCEPT !.stat = "response", !.read = "message",
                              !.req = r]]
      /\ UNCHANGED <<link, client, replies, phase>>
  BY <1>3 DEF HandleMessage
<1>5. args' \in [Requests -> Slots \cup {None}]
  BY <1>2, <1>4 DEF TypeOK
<1>6. sess' \in [Slots -> Sessions]
  <2>1. PICK s \in Slots : s = SlotOf(c)
    BY <1>2
  <2>2. sess[s] \in Sessions
    BY DEF TypeOK
  <2> DEFINE x == [sess[s] EXCEPT !.stat = "response", !.read = "message",
                                  !.req = r]
  <2>3. x \in Sessions
    BY <2>2 DEF Sessions
  <2>4. sess' = [sess EXCEPT ![s] = x]
    BY <1>4, <2>1
  <2> HIDE DEF x
  <2> QED
    BY <2>3, <2>4 DEF TypeOK
<1>7. /\ fresh' \subseteq Requests
      /\ pending' \in Seq(Requests) /\ Len(pending') <= MaxPending
      /\ running' = running /\ finished' = finished
      /\ refused' \subseteq Requests /\ retired' = {}
  BY <1>4, TypeEnqueue
<1> QED
  BY <1>1, <1>4, <1>5, <1>6, <1>7 DEF TypeOK, client, replies

LEMMA TypeStart ==
  ASSUME TypeOK, NEW w \in Workers, StartTask(w)
  PROVE  TypeOK'
<1>1. /\ pending \in Seq(Requests) /\ pending # <<>>
      /\ pending' = Tail(pending)
      /\ running' = [running EXCEPT ![w] = Head(pending)]
  BY DEF TypeOK, StartTask, Pool!Start
<1>2. /\ Head(pending) \in Requests /\ pending' \in Seq(Requests)
      /\ Len(pending') = Len(pending) - 1 /\ Len(pending) \in Nat
  BY <1>1, HeadTailProperties, LenProperties
<1>3. Len(pending') <= MaxPending
  <2> DEFINE l == Len(pending)
  <2>1. l \in Nat /\ l <= MaxPending /\ Len(pending') = l - 1
    BY <1>2 DEF TypeOK
  <2> HIDE DEF l
  <2> QED
    BY <2>1, ServerAssumption
<1>4. running' \in [Workers -> Requests \cup {None}]
  BY <1>1, <1>2 DEF TypeOK
<1> QED
  BY <1>2, <1>3, <1>4 DEF TypeOK, StartTask, Pool!Start, client, replies

LEMMA TypeFinish ==
  ASSUME TypeOK, NEW w \in Workers, Finish(w)
  PROVE  TypeOK'
<1>1. running[w] \in Requests /\ running' = [running EXCEPT ![w] = None]
  BY DEF Finish, Pool!Finish
<1>2. responses' \in Seq(Requests)
  BY <1>1, AppendProperties DEF TypeOK, Finish
<1>3. running' \in [Workers -> Requests \cup {None}]
  BY <1>1 DEF TypeOK
<1>4. finished' \subseteq Requests
  BY <1>1 DEF TypeOK, Finish, Pool!Finish
<1> QED
  BY <1>2, <1>3, <1>4 DEF TypeOK, Finish, Pool!Finish, client

LEMMA TypeRespond ==
  ASSUME TypeOK, Links, PopResponse, Respond(Head(responses))
  PROVE  TypeOK'
<1>1. Head(responses) \in Requests /\ responses # <<>>
  BY HeadWaits DEF PopResponse
<1>2. responses' \in Seq(Requests)
  BY <1>1, HeadTailProperties DEF TypeOK, PopResponse
<1>3. PICK s \in Live, c \in Conns : Writing(Head(responses), s, c)
  BY <1>1, RespondEffect
<1>4. sent' \in [Conns -> Seq(Requests)]
  BY <1>3 DEF Writing
<1>5. sess' \in [Slots -> Sessions]
  <2>1. /\ sess' = [sess EXCEPT ![s] = Reset(s)] /\ s \in Slots
        /\ sess'[s] \in Sessions
    BY <1>3 DEF Writing
  <2>2. sess'[s] = Reset(s)
    BY <2>1 DEF TypeOK
  <2> QED
    BY <2>1, <2>2 DEF TypeOK
<1> QED
  BY <1>2, <1>4, <1>5 DEF TypeOK, PopResponse, Respond, pool, client

LEMMA TypeStep ==
  ASSUME IInv, [Next]_vars
  PROVE  TypeOK'
<1>1. TypeOK /\ Links /\ Sessioned
  BY DEF IInv
<1>2. ASSUME NEW c \in Conns, link[c] = "open"
      PROVE  Stream(c) /\ Position(SlotOf(c), c)
  BY <1>1, <1>2, SlotProperties DEF Sessioned, Session
<1>3. ASSUME NEW c \in Conns, NEW k \in Kinds, Ask(c, k)
      PROVE  TypeOK'
  BY <1>1, <1>2, <1>3, TypeAsk DEF Ask
<1>4. ASSUME NEW c \in Conns, NEW n,
             HandleWrongState(c, n) \/ HandleHeader(c, n) \/ HandleMessage(c, n)
      PROVE  TypeOK'
  <2>1. link[c] = "open"
    BY <1>4 DEF HandleWrongState, HandleHeader, HandleMessage, ReadsBody,
                Arrives
  <2>2. CASE HandleWrongState(c, n)
    <3>1. wire' \in [Conns -> Seq(Tokens)] /\ input' \in [Conns -> Seq(Tokens)]
      BY <1>1, <2>2, WrongStateEffect
    <3> QED
      BY <1>1, <2>2, <3>1 DEF TypeOK, HandleWrongState, pool, client, replies
  <2> QED
    BY <1>1, <1>2, <1>4, <2>1, <2>2, TypeHeader, TypeMessage
<1>5. CASE Still
  BY <1>1, <1>5 DEF TypeOK, Still, pool, client, replies
<1>6. CASE Drops
  <2>1. Head(responses) \in Requests /\ responses' \in Seq(Requests)
    BY <1>1, <1>6, HeadWaits, HeadTailProperties DEF TypeOK, Drops
  <2> QED
    BY <1>1, <1>6, <2>1 DEF TypeOK, Drops, pool, client
<1> QED
  BY <1>1, <1>3, <1>4, <1>5, <1>6, NextCases, TypeAccept, TypeEnds,
     TypeStart, TypeFinish, TypeRespond

-----------------------------------------------------------------------------
(***************************************************************************)
(* Links is kept by every step.                                            *)
(***************************************************************************)

\* A session that changes, but not its connection, stays a session.
LEMMA LiveKept ==
  ASSUME Links, NEW s \in Live, sess'[s].conn = sess[s].conn,
         \A t \in Slots \ {s} : sess'[t] = sess[t]
  PROVE  Live' = Live /\ \A t \in Live : sess'[t].conn = sess[t].conn
<1>1. s \in Slots /\ sess'[s].conn \in Conns
  BY DEF Links, Live
<1>2. sess'[s] # Freed
  BY <1>1, ServerAssumption DEF Freed
<1>3. sess[s] # Freed
  BY DEF Live
<1> QED
  BY <1>1, <1>2, <1>3 DEF Live

\* The session that handle_request reads for.
LEMMA ReadSession ==
  ASSUME TypeOK, Links, NEW c \in Conns, NEW n,
         HandleHeader(c, n) \/ HandleMessage(c, n)
  PROVE  \E s \in Live :
           /\ s = SlotOf(c) /\ s \in Slots /\ sess[s].conn = c
           /\ sess[s].stat = "request" /\ sess'[s].conn = c
           /\ link[c] = "open" /\ Live' = Live
           /\ \A t \in Slots \ {s} : sess'[t] = sess[t]
           /\ \A t \in Live : sess'[t].conn = sess[t].conn
<1>1. link[c] = "open"
  BY DEF HandleHeader, HandleMessage, ReadsBody, Arrives
<1>2. SlotOf(c) \in Live /\ sess[SlotOf(c)].conn = c
  BY <1>1, SlotProperties
<1>3. PICK s \in Live : s = SlotOf(c)
  BY <1>2
<1>4. s \in Slots /\ sess[s] \in Sessions
  BY DEF Live, TypeOK
<1>5. sess[s].conn = c /\ sess[s].stat = "request"
  BY <1>2, <1>3 DEF HandleHeader, HandleMessage, ReadsBody, Expects
<1>6. sess'[s].conn = c /\ \A t \in Slots \ {s} : sess'[t] = sess[t]
  <2>1. CASE HandleHeader(c, n)
    <3>1. sess' = [sess EXCEPT ![s] = [sess[s] EXCEPT !.read = "message"]]
      BY <1>3, <2>1 DEF HandleHeader
    <3>2. [sess[s] EXCEPT !.read = "message"].conn = c
      BY <1>4, <1>5 DEF Sessions
    <3> QED
      BY <1>4, <3>1, <3>2 DEF TypeOK
  <2>2. CASE HandleMessage(c, n)
    <3> DEFINE x == [sess[s] EXCEPT !.stat = "response", !.read = "message",
                                    !.req = Head(BodyOn(c, n)).of]
    <3>1. sess' = [sess EXCEPT ![s] = x]
      BY <1>3, <2>2 DEF HandleMessage
    <3>2. x.conn = c
      BY <1>4, <1>5 DEF Sessions
    <3> HIDE DEF x
    <3> QED
      BY <1>4, <3>1, <3>2 DEF TypeOK
  <2> QED
    BY <2>1, <2>2
<1>7. Live' = Live /\ \A t \in Live : sess'[t].conn = sess[t].conn
  BY <1>5, <1>6, LiveKept
<1> QED
  BY <1>1, <1>3, <1>4, <1>5, <1>6, <1>7

LEMMA LinksKept ==
  ASSUME Links, Live' = Live, link' = link,
         \A s \in Live : sess'[s].conn = sess[s].conn,
         \A c \in Conns : link[c] # "open" =>
           /\ asked'[c] = asked[c] /\ sent'[c] = sent[c]
           /\ wire'[c] = wire[c] /\ input'[c] = input[c]
  PROVE  Links'
<1>1. \A s \in Live' : sess'[s].conn \in Conns /\ link'[sess'[s].conn] = "open"
  BY DEF Links
<1>2. \A s, t \in Live' : sess'[s].conn = sess'[t].conn => s = t
  BY DEF Links
<1>3. \A c \in Conns : link'[c] = "open" => \E s \in Live' : sess'[s].conn = c
  BY DEF Links
<1>4. \A c \in Conns :
        /\ link'[c] = "new" => asked'[c] = 0 /\ sent'[c] = <<>>
        /\ link'[c] # "open" => wire'[c] = <<>> /\ input'[c] = <<>>
  BY DEF Links
<1> QED
  BY <1>1, <1>2, <1>3, <1>4 DEF Links

LEMMA LinksAccept ==
  ASSUME TypeOK, Links, NEW c \in Conns, Accept(c)
  PROVE  Links'
<1>1. PICK s \in Slots \ Live : sess' = [sess EXCEPT ![s] = Opened(c)]
  BY DEF Accept
<1>2. /\ sess'[s] = Opened(c) /\ \A t \in Slots \ {s} : sess'[t] = sess[t]
  BY <1>1 DEF TypeOK
<1>3. sess'[s].conn = c
  BY <1>2 DEF Opened, Freed
<1>4. Live' = Live \cup {s}
  <2>1. sess'[s] # Freed
    BY <1>3, ServerAssumption DEF Freed
  <2> QED
    BY <1>2, <2>1 DEF Live
<1>5. /\ link[c] = "new" /\ link'[c] = "open"
      /\ \A d \in Conns \ {c} : link'[d] = link[d]
      /\ UNCHANGED <<asked, sent, wire, input>>
  BY DEF TypeOK, Accept, client, replies
<1>6. \A t \in Live : sess'[t] = sess[t] /\ sess[t].conn # c
  BY <1>1, <1>2, <1>5 DEF Links, Live
<1>7. \A t \in Live' :
        sess'[t].conn \in Conns /\ link'[sess'[t].conn] = "open"
  BY <1>3, <1>4, <1>5, <1>6 DEF Links
<1>8. \A t, u \in Live' : sess'[t].conn = sess'[u].conn => t = u
  BY <1>3, <1>4, <1>6 DEF Links
<1>9. \A d \in Conns : link'[d] = "open" => \E t \in Live' : sess'[t].conn = d
  BY <1>3, <1>4, <1>5, <1>6 DEF Links
<1>10. \A d \in Conns :
         /\ link'[d] = "new" => asked'[d] = 0 /\ sent'[d] = <<>>
         /\ link'[d] # "open" => wire'[d] = <<>> /\ input'[d] = <<>>
  BY <1>5 DEF Links
<1> QED
  BY <1>7, <1>8, <1>9, <1>10 DEF Links

LEMMA LinksEnds ==
  ASSUME TypeOK, Links, NEW s \in Slots, Ends(s)
  PROVE  Links'
<1>1. PICK c \in Conns : c = sess[s].conn
  BY DEF Ends, Links
<1>2. /\ sess'[s] = Freed /\ \A t \in Slots \ {s} : sess'[t] = sess[t]
  BY DEF TypeOK, Ends, Close
<1>3. s \in Live /\ Live' = Live \ {s}
  BY <1>2 DEF Live, Ends
<1>4. /\ link'[c] = "closed" /\ wire'[c] = <<>> /\ input'[c] = <<>>
      /\ \A d \in Conns \ {c} :
           link'[d] = link[d] /\ wire'[d] = wire[d] /\ input'[d] = input[d]
      /\ UNCHANGED <<asked, sent>>
  BY <1>1 DEF TypeOK, Ends, Close, client, replies
<1>5. \A t \in Live' : sess'[t] = sess[t] /\ sess[t].conn # c
  BY <1>1, <1>2, <1>3 DEF Links, Live
<1>6. \A t \in Live' :
        sess'[t].conn \in Conns /\ link'[sess'[t].conn] = "open"
  BY <1>3, <1>4, <1>5 DEF Links
<1>7. \A t, u \in Live' : sess'[t].conn = sess'[u].conn => t = u
  BY <1>3, <1>5 DEF Links
<1>8. \A d \in Conns : link'[d] = "open" => \E t \in Live' : sess'[t].conn = d
  BY <1>1, <1>3, <1>4, <1>5 DEF Links
<1>9. \A d \in Conns :
        /\ link'[d] = "new" => asked'[d] = 0 /\ sent'[d] = <<>>
        /\ link'[d] # "open" => wire'[d] = <<>> /\ input'[d] = <<>>
  BY <1>4 DEF Links
<1> QED
  BY <1>6, <1>7, <1>8, <1>9 DEF Links

LEMMA LinksStep ==
  ASSUME IInv, [Next]_vars
  PROVE  Links'
<1>1. TypeOK /\ Links /\ Sessioned
  BY DEF IInv
<1>2. ASSUME NEW c \in Conns, link[c] = "open"
      PROVE  Stream(c) /\ Position(SlotOf(c), c)
  BY <1>1, <1>2, SlotProperties DEF Sessioned, Session
<1>3. ASSUME NEW c \in Conns, NEW k \in Kinds, Ask(c, k)
      PROVE  Links'
  <2>1. link[c] = "open"
    BY <1>3 DEF Ask
  <2>2. \A d \in Conns \ {c} : wire'[d] = wire[d] /\ asked'[d] = asked[d]
    BY <1>1, <1>3 DEF Ask, TypeOK
  <2>3. UNCHANGED <<sess, sent, input, link>> /\ Live' = Live
    BY <1>3 DEF Ask, replies, Live
  <2> QED
    BY <1>1, <2>1, <2>2, <2>3, LinksKept
<1>4. ASSUME NEW c \in Conns, NEW n, HandleWrongState(c, n)
      PROVE  Links'
  <2>1. link[c] = "open" /\ Takes(c, 0)
    BY <1>1, <1>4, WrongStateEffect
  <2>2. UNCHANGED <<sess, sent, asked, link>> /\ Live' = Live
    BY <1>4 DEF HandleWrongState, client, replies, Live
  <2> QED
    BY <1>1, <2>1, <2>2, LinksKept DEF Takes
<1>5. ASSUME NEW c \in Conns, NEW n, HandleHeader(c, n) \/ HandleMessage(c, n)
      PROVE  Links'
  <2>1. /\ link[c] = "open" /\ Live' = Live
        /\ \A t \in Live : sess'[t].conn = sess[t].conn
    BY <1>1, <1>5, ReadSession
  <2>2. UNCHANGED <<sent, asked, link>>
    BY <1>5 DEF HandleHeader, HandleMessage, client, replies
  <2>3. \E j \in Nat : Takes(c, j)
    <3>1. CASE HandleHeader(c, n)
      BY <1>1, <1>2, <2>1, <3>1, HeaderEffect
    <3>2. CASE HandleMessage(c, n)
      BY <1>1, <1>2, <2>1, <3>2, MessageEffect
    <3> QED
      BY <1>5, <3>1, <3>2
  <2> QED
    BY <1>1, <2>1, <2>2, <2>3, LinksKept DEF Takes
<1>6. ASSUME PopResponse, Respond(Head(responses))
      PROVE  Links'
  <2>1. Head(responses) \in Requests
    BY <1>1, <1>6, HeadWaits DEF PopResponse
  <2>2. PICK s \in Live, c \in Conns : Writing(Head(responses), s, c)
    BY <1>1, <1>6, <2>1, RespondEffect
  <2>3. /\ sess'[s].conn = sess[s].conn /\ link[c] = "open"
        /\ \A t \in Slots \ {s} : sess'[t] = sess[t]
        /\ \A d \in Conns \ {c} : sent'[d] = sent[d]
    BY <2>2 DEF Writing
  <2>4. Live' = Live /\ \A t \in Live : sess'[t].conn = sess[t].conn
    BY <1>1, <2>3, LiveKept
  <2>5. UNCHANGED <<asked, wire, input, link>>
    BY <1>6 DEF PopResponse, client
  <2> QED
    BY <1>1, <2>3, <2>4, <2>5, LinksKept
<1>7. ASSUME Still \/ Drops \/ \E w \in Workers : StartTask(w) \/ Finish(w)
      PROVE  Links'
  <2>1. UNCHANGED <<sess, sent, asked, wire, input, link>> /\ Live' = Live
    BY <1>7 DEF Still, Drops, StartTask, Finish, client, replies, Live
  <2> QED
    BY <1>1, <2>1, LinksKept
<1> QED
  BY <1>1, <1>3, <1>4, <1>5, <1>6, <1>7, NextCases, LinksAccept, LinksEnds

-----------------------------------------------------------------------------
(***************************************************************************)
(* Places is kept by every step.                                           *)
(***************************************************************************)

LEMMA AppendNames ==
  ASSUME NEW q \in Seq(Requests), NEW x \in Requests
  PROVE  /\ \A r : Names(Append(q, x), r) <=> Names(q, r) \/ r = x
         /\ Distinct(q) /\ ~Names(q, x) => Distinct(Append(q, x))
<1> DEFINE l == Len(q)
           p == Append(q, x)
<1>1. /\ Len(p) = l + 1 /\ l \in Nat
      /\ \A i \in 1 .. l : p[i] = q[i]
      /\ p[l + 1] = x
  BY AppendProperties, LenProperties
<1> HIDE DEF p, l
<1>2. \A i \in 1 .. l + 1 : i \in 1 .. l \/ i = l + 1
  BY <1>1
<1>3. \A i \in 1 .. l : i \in 1 .. l + 1
  BY <1>1
<1>4. l + 1 \in 1 .. l + 1
  BY <1>1
<1>5. \A r : Names(p, r) <=> Names(q, r) \/ r = x
  BY <1>1, <1>2, <1>3, <1>4 DEF Names, l
<1>6. ASSUME Distinct(q), ~Names(q, x)
      PROVE  Distinct(p)
  BY <1>1, <1>2, <1>6 DEF Distinct, Names, l
<1> QED
  BY <1>5, <1>6 DEF p

LEMMA TailNames ==
  ASSUME NEW q \in Seq(Requests), q # <<>>
  PROVE  /\ Names(q, Head(q))
         /\ \A r : Names(Tail(q), r) => Names(q, r)
         /\ \A r : Names(q, r) => r = Head(q) \/ Names(Tail(q), r)
         /\ Distinct(q) => Distinct(Tail(q)) /\ ~Names(Tail(q), Head(q))
<1> DEFINE l == Len(q)
           t == Tail(q)
<1>1. l \in Nat /\ l >= 1
  <2>1. l \in Nat \ {0}
    BY EmptySeq
  <2> QED
    BY <2>1
<1>2. /\ Head(q) = q[1] /\ Len(t) = l - 1
      /\ \A i \in 1 .. l - 1 : t[i] = q[i + 1]
  BY <1>1, TailProperties
<1> HIDE DEF t, l
<1>3. \A i \in 1 .. l - 1 : i + 1 \in 1 .. l /\ i + 1 # 1
  BY <1>1
<1>4. \A i \in 1 .. l : i = 1 \/ (i - 1 \in 1 .. l - 1 /\ (i - 1) + 1 = i)
  BY <1>1
<1>5. 1 \in 1 .. l
  BY <1>1
<1>6. Names(q, Head(q))
  BY <1>2, <1>5 DEF Names, l
<1>7. \A r : Names(t, r) => Names(q, r)
  BY <1>2, <1>3 DEF Names, l
<1>8. ASSUME NEW r, Names(q, r)
      PROVE  r = Head(q) \/ Names(t, r)
  <2>1. PICK i \in 1 .. l : q[i] = r
    BY <1>8 DEF Names, l
  <2>2. i = 1 \/ t[i - 1] = r
    BY <1>2, <1>4, <2>1
  <2> QED
    BY <1>2, <1>4, <2>1, <2>2 DEF Names
<1>9. ASSUME Distinct(q)
      PROVE  Distinct(t) /\ ~Names(t, Head(q))
  <2>1. ASSUME NEW i \in 1 .. l - 1, NEW j \in 1 .. l - 1, t[i] = t[j]
        PROVE  i = j
    <3>1. q[i + 1] = q[j + 1]
      BY <1>2, <2>1
    <3>2. i + 1 = j + 1
      BY <1>3, <1>9, <3>1 DEF Distinct, l
    <3> QED
      BY <1>1, <3>2
  <2>2. ASSUME NEW i \in 1 .. l - 1, t[i] = Head(q)
        PROVE  FALSE
    <3>1. q[i + 1] = q[1]
      BY <1>2, <2>2
    <3> QED
      BY <1>3, <1>5, <1>9, <3>1 DEF Distinct, l
  <2> QED
    BY <1>2, <2>1, <2>2 DEF Distinct, Names
<1> QED
  BY <1>6, <1>7, <1>8, <1>9 DEF t

\* In flight is in the pool's queue, at a worker or in the response queue.
LEMMA InFlightPlaces ==
  ASSUME TypeOK, NEW r \in Requests
  PROVE  r \in InFlight <=> Queued(r) \/ Running(r) \/ Waiting(r)
<1>1. /\ DOMAIN pending = 1 .. Len(pending)
      /\ DOMAIN responses = 1 .. Len(responses)
  BY LenProperties DEF TypeOK
<1> QED
  BY <1>1 DEF InFlight, Queued, Running, Waiting, Names

LEMMA InFlightPlacesNext ==
  ASSUME TypeOK', NEW r \in Requests
  PROVE  r \in InFlight' <=> Queued(r)' \/ Running(r)' \/ Waiting(r)'
<1>1. pending' \in Seq(Requests) /\ responses' \in Seq(Requests)
  BY DEF TypeOK
<1>2. /\ DOMAIN pending' = 1 .. Len(pending')
      /\ DOMAIN responses' = 1 .. Len(responses')
  BY <1>1, LenProperties
<1> QED
  BY <1>2 DEF InFlight, Queued, Running, Waiting, Names

\* A step that moves no request.
LEMMA PlacesKept ==
  ASSUME Places,
         UNCHANGED <<fresh, pending, running, responses, sent>>,
         \A c \in Conns : asked'[c] = asked[c] \/ asked'[c] = asked[c] + 1,
         asked \in [Conns -> Nat]
  PROVE  Places'
<1>1. ASSUME NEW r \in Requests
      PROVE  OnePlace(r)'
  <2>1. OnePlace(r)
    BY DEF Places
  <2>2. r \notin fresh => r[2] <= asked'[r[1]]
    <3>1. r[1] \in Conns /\ r[2] \in Nat
      BY ServerAssumption DEF Requests
    <3>2. asked[r[1]] \in Nat
      BY <3>1
    <3> QED
      BY <2>1, <3>1, <3>2 DEF OnePlace
  <2> QED
    BY <2>1, <2>2 DEF OnePlace, Queued, Running, Waiting, Written
<1> QED
  BY <1>1 DEF Places, Distinct

\* The pool takes or refuses a request that its client has sent.
LEMMA PlacesEnqueue ==
  ASSUME TypeOK, Places, NEW r \in Requests, Enqueue(r),
         UNCHANGED <<responses, sent, asked>>, r[2] <= asked[r[1]]
  PROVE  /\ Places' /\ r \in fresh /\ fresh' = fresh \ {r}
         /\ running' = running
         /\ \A q \in Requests : Queued(q)' => Queued(q) \/ q = r
<1>1. r \in fresh /\ fresh' = fresh \ {r} /\ running' = running
  BY DEF Enqueue, Pool!Submit, Pool!Refuse
<1>2. ~Queued(r) /\ ~Running(r) /\ ~Waiting(r) /\ ~Written(r)
  BY <1>1 DEF Places, OnePlace
<1>3. /\ \A q \in Requests : Queued(q)' => Queued(q) \/ q = r
      /\ Distinct(pending')
  <2>1. CASE Pool!Submit(r)
    <3>1. pending' = Append(pending, r) /\ pending \in Seq(Requests)
      BY <2>1 DEF Pool!Submit, TypeOK
    <3>2. /\ \A q : Names(pending', q) <=> Names(pending, q) \/ q = r
          /\ Distinct(pending) /\ ~Names(pending, r) => Distinct(pending')
      BY <3>1, AppendNames
    <3> QED
      BY <1>2, <3>2 DEF Queued, Places
  <2>2. CASE Pool!Refuse(r)
    <3>1. pending' = pending
      BY <2>2 DEF Pool!Refuse
    <3> QED
      BY <3>1 DEF Queued, Places
  <2> QED
    BY <2>1, <2>2 DEF Enqueue
<1>4. \A q \in Requests :
        /\ Running(q)' <=> Running(q)
        /\ Waiting(q)' <=> Waiting(q)
        /\ Written(q)' <=> Written(q)
  BY <1>1 DEF Running, Waiting, Written
<1>5. ASSUME NEW q \in Requests
      PROVE  OnePlace(q)'
  <2>1. OnePlace(q)
    BY DEF Places
  <2>2. q \notin fresh' => q[2] <= asked'[q[1]]
    BY <1>1, <2>1 DEF OnePlace
  <2> QED
    BY <1>1, <1>2, <1>3, <1>4, <2>1, <2>2 DEF OnePlace
<1>6. /\ Distinct(responses')
      /\ \A v, w \in Workers :
           running'[v] = running'[w] => running'[v] = None \/ v = w
      /\ \A c, d \in Conns :
           \A i \in 1 .. Len(sent'[c]), j \in 1 .. Len(sent'[d]) :
             sent'[c][i] = sent'[d][j] => c = d /\ i = j
  BY <1>1 DEF Places
<1> QED
  BY <1>1, <1>3, <1>5, <1>6 DEF Places

\* A worker takes the request at the head of the queue.
LEMMA PlacesStart ==
  ASSUME TypeOK, Places, NEW w \in Workers, StartTask(w)
  PROVE  Places' /\ \A q \in Requests : q \in InFlight' => q \in InFlight
<1> DEFINE r == Head(pending)
<1>1. /\ pending \in Seq(Requests) /\ pending # <<>>
      /\ pending' = Tail(pending) /\ running[w] = None
      /\ running' = [running EXCEPT ![w] = r]
      /\ UNCHANGED <<fresh, responses, sent, asked>>
  BY DEF TypeOK, StartTask, Pool!Start, client, replies
<1>2. r \in Requests
  BY <1>1, HeadTailProperties
<1>3. /\ Queued(r) /\ \A q : Names(pending', q) => Names(pending, q)
      /\ Distinct(pending') /\ ~Names(pending', r)
  BY <1>1, TailNames DEF Queued, Places
<1>4. running'[w] = r /\ \A v \in Workers \ {w} : running'[v] = running[v]
  BY <1>1 DEF TypeOK
<1> HIDE DEF r
<1>5. ~Running(r) /\ ~Waiting(r) /\ ~Written(r) /\ r \notin fresh
  BY <1>2, <1>3 DEF Places, OnePlace
<1>6. \A q \in Requests :
        /\ Queued(q)' => Queued(q) /\ q # r
        /\ Running(q)' => Running(q) \/ q = r
        /\ Waiting(q)' <=> Waiting(q)
        /\ Written(q)' <=> Written(q)
  BY <1>1, <1>3, <1>4 DEF Queued, Running, Waiting, Written
<1>7. ASSUME NEW q \in Requests
      PROVE  OnePlace(q)'
  <2>1. OnePlace(q)
    BY DEF Places
  <2>2. q \notin fresh' => q[2] <= asked'[q[1]]
    BY <1>1, <2>1 DEF OnePlace
  <2> QED
    BY <1>1, <1>3, <1>5, <1>6, <2>1, <2>2 DEF OnePlace
<1>8. \A u, v \in Workers :
        running'[u] = running'[v] => running'[u] = None \/ u = v
  BY <1>4, <1>5 DEF Places, Running
<1>9. /\ Distinct(responses')
      /\ \A c, d \in Conns :
           \A i \in 1 .. Len(sent'[c]), j \in 1 .. Len(sent'[d]) :
             sent'[c][i] = sent'[d][j] => c = d /\ i = j
  BY <1>1 DEF Places
<1>10. Places'
  BY <1>3, <1>7, <1>8, <1>9 DEF Places
<1>11. TypeOK'
  BY TypeStart
<1>12. \A q \in Requests :
         q \in InFlight' <=> Queued(q)' \/ Running(q)' \/ Waiting(q)'
  BY <1>11, InFlightPlacesNext
<1> QED
  BY <1>2, <1>3, <1>6, <1>10, <1>12, InFlightPlaces

\* A worker hands its response over.
LEMMA PlacesFinish ==
  ASSUME TypeOK, Places, NEW w \in Workers, Finish(w)
  PROVE  Places' /\ \A q \in Requests : q \in InFlight' => q \in InFlight
<1> DEFINE r == running[w]
<1>1. /\ responses \in Seq(Requests) /\ r \in Requests
      /\ responses' = Append(responses, r)
      /\ running' = [running EXCEPT ![w] = None]
      /\ UNCHANGED <<fresh, pending, sent, asked>>
  BY DEF TypeOK, Finish, Pool!Finish, client
<1>2. Running(r)
  BY DEF Running
<1>3. running'[w] = None /\ \A v \in Workers \ {w} : running'[v] = running[v]
  BY <1>1 DEF TypeOK
<1>4. \A v \in Workers \ {w} : running[v] # r
  BY <1>1, ServerAssumption DEF Places
<1> HIDE DEF r
<1>5. ~Queued(r) /\ ~Waiting(r) /\ ~Written(r) /\ r \notin fresh
  BY <1>1, <1>2 DEF Places, OnePlace
<1>6. /\ \A q : Names(responses', q) <=> Names(responses, q) \/ q = r
      /\ Distinct(responses) /\ ~Names(responses, r) => Distinct(responses')
  BY <1>1, AppendNames
<1>7. \A q \in Requests :
        /\ Queued(q)' <=> Queued(q)
        /\ Running(q)' => Running(q) /\ q # r
        /\ Waiting(q)' => Waiting(q) \/ q = r
        /\ Written(q)' <=> Written(q)
  <2>1. \A q \in Requests : Running(q)' => Running(q) /\ q # r
    BY <1>3, <1>4, ServerAssumption DEF Running
  <2> QED
    BY <1>1, <1>6, <2>1 DEF Queued, Waiting, Written
<1>8. ASSUME NEW q \in Requests
      PROVE  OnePlace(q)'
  <2>1. OnePlace(q)
    BY DEF Places
  <2>2. q \notin fresh' => q[2] <= asked'[q[1]]
    BY <1>1, <2>1 DEF OnePlace
  <2> QED
    BY <1>1, <1>5, <1>7, <2>1, <2>2 DEF OnePlace
<1>9. \A u, v \in Workers :
        running'[u] = running'[v] => running'[u] = None \/ u = v
  BY <1>3 DEF Places
<1>10. /\ Distinct(pending') /\ Distinct(responses')
       /\ \A c, d \in Conns :
            \A i \in 1 .. Len(sent'[c]), j \in 1 .. Len(sent'[d]) :
              sent'[c][i] = sent'[d][j] => c = d /\ i = j
  BY <1>1, <1>5, <1>6 DEF Places, Waiting
<1>11. Places'
  BY <1>8, <1>9, <1>10 DEF Places
<1>12. TypeOK'
  BY TypeFinish
<1>13. \A q \in Requests :
         q \in InFlight' <=> Queued(q)' \/ Running(q)' \/ Waiting(q)'
  BY <1>12, InFlightPlacesNext
<1> QED
  BY <1>1, <1>2, <1>7, <1>11, <1>13, InFlightPlaces

\* A response leaves the queue, and is written to one connection or to none.
LEMMA PlacesPop ==
  ASSUME TypeOK, Places, responses # <<>>, responses' = Tail(responses),
         UNCHANGED <<fresh, pending, running, asked>>,
         \A q \in Requests : Written(q)' => Written(q) \/ q = Head(responses),
         \A c, d \in Conns :
           \A i \in 1 .. Len(sent'[c]), j \in 1 .. Len(sent'[d]) :
             sent'[c][i] = sent'[d][j] => c = d /\ i = j
  PROVE  /\ Places'
         /\ \A q \in Requests :
              (~Queued(q)' /\ ~Running(q)' /\ ~Waiting(q)') \/ q # Head(responses)
         /\ \A q \in Requests : Waiting(q)' => Waiting(q)
<1> DEFINE r == Head(responses)
<1>1. r \in Requests /\ Waiting(r)
  BY HeadWaits
<1>2. /\ \A q : Names(responses', q) => Names(responses, q)
      /\ Distinct(responses') /\ ~Names(responses', r)
  <2>1. responses \in Seq(Requests) /\ Distinct(responses)
    BY DEF TypeOK, Places
  <2> QED
    BY <2>1, TailNames
<1>3. \A q \in Requests : Written(q)' => Written(q) \/ q = r
  OBVIOUS
<1> HIDE DEF r
<1>4. ~Queued(r) /\ ~Running(r) /\ r \notin fresh
  BY <1>1 DEF Places, OnePlace
<1>5. \A q \in Requests :
        /\ Queued(q)' <=> Queued(q)
        /\ Running(q)' <=> Running(q)
        /\ Waiting(q)' => Waiting(q) /\ q # r
  BY <1>2 DEF Queued, Running, Waiting
<1>6. ASSUME NEW q \in Requests
      PROVE  OnePlace(q)'
  <2>1. OnePlace(q)
    BY DEF Places
  <2>2. q \notin fresh' => q[2] <= asked'[q[1]]
    BY <2>1 DEF OnePlace
  <2> QED
    BY <1>3, <1>4, <1>5, <2>1, <2>2 DEF OnePlace
<1>7. /\ Distinct(pending')
      /\ \A u, v \in Workers :
           running'[u] = running'[v] => running'[u] = None \/ u = v
  BY DEF Places
<1>8. Places'
  BY <1>2, <1>6, <1>7 DEF Places
<1> QED
  BY <1>4, <1>5, <1>8 DEF r

LEMMA PlacesDrops ==
  ASSUME TypeOK, Places, Drops
  PROVE  Places' /\ \A q \in Requests : q \in InFlight' => q \in InFlight
<1>1. /\ responses # <<>> /\ responses' = Tail(responses)
      /\ UNCHANGED <<fresh, pending, running, asked, sent>>
  BY DEF Drops, pool, client
<1>2. \A q \in Requests : Written(q)' => Written(q)
  BY <1>1 DEF Written
<1>3. \A c, d \in Conns :
        \A i \in 1 .. Len(sent'[c]), j \in 1 .. Len(sent'[d]) :
          sent'[c][i] = sent'[d][j] => c = d /\ i = j
  BY <1>1 DEF Places
<1>4. Places' /\ \A q \in Requests : Waiting(q)' => Waiting(q)
  BY <1>1, <1>2, <1>3, PlacesPop
<1>5. responses' \in Seq(Requests)
  BY <1>1, HeadTailProperties DEF TypeOK
<1>6. \A q \in Requests : q \in InFlight' => Queued(q)' \/ Running(q)' \/ Waiting(q)'
  <2>1. /\ DOMAIN pending' = 1 .. Len(pending')
        /\ DOMAIN responses' = 1 .. Len(responses')
    BY <1>1, <1>5, LenProperties DEF TypeOK
  <2> QED
    BY <2>1 DEF InFlight, Queued, Running, Waiting, Names
<1>7. \A q \in Requests :
        (Queued(q)' <=> Queued(q)) /\ (Running(q)' <=> Running(q))
  BY <1>1 DEF Queued, Running
<1> QED
  BY <1>4, <1>6, <1>7, InFlightPlaces

LEMMA PlacesRespond ==
  ASSUME TypeOK, Links, Places, PopResponse, Respond(Head(responses))
  PROVE  /\ Places'
         /\ \A q \in Requests :
              q \in InFlight' => q \in InFlight /\ q # Head(responses)
<1> DEFINE r == Head(responses)
<1>1. /\ responses # <<>> /\ responses' = Tail(responses)
      /\ UNCHANGED <<fresh, pending, running, asked>>
  BY DEF PopResponse, pool, client
<1>2. r \in Requests /\ Waiting(r)
  BY <1>1, HeadWaits
<1>3. PICK s \in Live, c \in Conns : Writing(r, s, c)
  BY <1>2, RespondEffect
<1> DEFINE l == Len(sent[c])
<1>4. /\ l \in Nat /\ Len(sent'[c]) = l + 1
      /\ sent'[c][l + 1] = r
      /\ \A i \in 1 .. l : sent'[c][i] = sent[c][i]
      /\ \A d \in Conns \ {c} : sent'[d] = sent[d]
  BY <1>3 DEF Writing
<1> HIDE DEF l, r
<1>5. ~Written(r)
  BY <1>2 DEF Places, OnePlace
<1>6. ASSUME NEW d \in Conns, NEW i \in 1 .. Len(sent'[d])
      PROVE  \/ i \in 1 .. Len(sent[d]) /\ sent'[d][i] = sent[d][i]
             \/ d = c /\ i = l + 1 /\ sent'[d][i] = r
  <2>1. CASE d = c
    <3>1. i \in 1 .. l \/ i = l + 1
      BY <1>4, <2>1
    <3> QED
      BY <1>4, <2>1, <3>1 DEF l
  <2>2. CASE d # c
    BY <1>4, <2>2
  <2> QED
    BY <2>1, <2>2
<1>7. \A q \in Requests : Written(q)' => Written(q) \/ q = r
  BY <1>6 DEF Written
<1>8. ASSUME NEW d \in Conns, NEW e \in Conns,
             NEW i \in 1 .. Len(sent'[d]), NEW j \in 1 .. Len(sent'[e]),
             sent'[d][i] = sent'[e][j]
      PROVE  d = e /\ i = j
  <2>1. /\ \/ i \in 1 .. Len(sent[d]) /\ sent'[d][i] = sent[d][i]
           \/ d = c /\ i = l + 1 /\ sent'[d][i] = r
        /\ \/ j \in 1 .. Len(sent[e]) /\ sent'[e][j] = sent[e][j]
           \/ e = c /\ j = l + 1 /\ sent'[e][j] = r
    BY <1>6
  <2>2. CASE i \in 1 .. Len(sent[d]) /\ j \in 1 .. Len(sent[e])
    <3>1. \/ sent[d][i] = sent[e][j]
          \/ sent[d][i] = r \/ sent[e][j] = r
          \/ d = e /\ i = j
      BY <1>8, <2>1
    <3>2. sent[d][i] # r /\ sent[e][j] # r
      BY <1>5, <2>2 DEF Written
    <3> QED
      BY <2>2, <3>1, <3>2 DEF Places
  <2>3. i \in 1 .. Len(sent[d]) => sent[d][i] # r
    BY <1>5 DEF Written
  <2>4. j \in 1 .. Len(sent[e]) => sent[e][j] # r
    BY <1>5 DEF Written
  <2> QED
    BY <1>8, <2>1, <2>2, <2>3, <2>4
<1>9. /\ Places'
      /\ \A q \in Requests :
           (~Queued(q)' /\ ~Running(q)' /\ ~Waiting(q)') \/ q # r
      /\ \A q \in Requests : Waiting(q)' => Waiting(q)
  BY <1>1, <1>7, <1>8, PlacesPop DEF r
<1>10. responses' \in Seq(Requests)
  BY <1>1, HeadTailProperties DEF TypeOK
<1>11. \A q \in Requests :
         q \in InFlight' => Queued(q)' \/ Running(q)' \/ Waiting(q)'
  <2>1. /\ DOMAIN pending' = 1 .. Len(pending')
        /\ DOMAIN responses' = 1 .. Len(responses')
    BY <1>1, <1>10, LenProperties DEF TypeOK
  <2> QED
    BY <2>1 DEF InFlight, Queued, Running, Waiting, Names
<1>12. \A q \in Requests :
         (Queued(q)' <=> Queued(q)) /\ (Running(q)' <=> Running(q))
  BY <1>1 DEF Queued, Running
<1> QED
  BY <1>9, <1>11, <1>12, InFlightPlaces DEF r

\* The request of a message that is read was sent and is new to the pool.
LEMMA PlacesMessage ==
  ASSUME TypeOK, Places, NEW c \in Conns, NEW n, Stream(c),
         Position(SlotOf(c), c), HandleMessage(c, n)
  PROVE  /\ Places'
         /\ \E r \in Requests :
              /\ r = Head(BodyOn(c, n)).of /\ r[1] = c /\ r \in fresh
              /\ \A q \in Requests : q \in InFlight' => q \in InFlight \/ q = r
<1>1. PICK m \in 1 .. asked[c] : Head(BodyOn(c, n)).of = <<c, m>>
  BY MessageEffect
<1>2. asked[c] \in 0 .. MaxRequests /\ MaxRequests \in Nat
  BY ServerAssumption DEF TypeOK
<1>3. m \in 1 .. MaxRequests /\ m <= asked[c]
  BY <1>2
<1>4. PICK r \in Requests : r = <<c, m>>
  BY <1>3 DEF Requests
<1>5. /\ Enqueue(r) /\ UNCHANGED <<responses, sent, asked>>
  BY <1>1, <1>4 DEF HandleMessage, client, replies
<1>6. /\ Places' /\ r \in fresh /\ running' = running
      /\ \A q \in Requests : Queued(q)' => Queued(q) \/ q = r
  BY <1>3, <1>4, <1>5, PlacesEnqueue
<1>7. pending' \in Seq(Requests)
  BY <1>5, TypeEnqueue
<1>8. \A q \in Requests :
        q \in InFlight' => Queued(q)' \/ Running(q)' \/ Waiting(q)'
  <2>1. /\ DOMAIN pending' = 1 .. Len(pending')
        /\ DOMAIN responses' = 1 .. Len(responses')
    BY <1>5, <1>7, LenProperties DEF TypeOK
  <2> QED
    BY <2>1 DEF InFlight, Queued, Running, Waiting, Names
<1>9. \A q \in Requests :
        (Running(q)' <=> Running(q)) /\ (Waiting(q)' <=> Waiting(q))
  BY <1>5, <1>6 DEF Running, Waiting
<1>10. \A q \in Requests : q \in InFlight' => q \in InFlight \/ q = r
  BY <1>6, <1>8, <1>9, InFlightPlaces
<1> QED
  BY <1>1, <1>4, <1>6, <1>10

LEMMA PlacesStep ==
  ASSUME IInv, [Next]_vars
  PROVE  Places'
<1>1. TypeOK /\ Links /\ Places /\ Sessioned
  BY DEF IInv
<1>2. ASSUME NEW c \in Conns, NEW n, HandleMessage(c, n)
      PROVE  Places'
  <2>1. link[c] = "open"
    BY <1>2 DEF HandleMessage, ReadsBody, Arrives
  <2>2. Stream(c) /\ Position(SlotOf(c), c)
    BY <1>1, <2>1, SlotProperties DEF Sessioned, Session
  <2> QED
    BY <1>1, <1>2, <2>2, PlacesMessage
<1>3. asked \in [Conns -> Nat]
  BY <1>1, ServerAssumption DEF TypeOK
<1>4. ASSUME NEW c \in Conns, NEW k \in Kinds, Ask(c, k)
      PROVE  Places'
  <2>1. /\ \A d \in Conns : asked'[d] = asked[d] \/ asked'[d] = asked[d] + 1
        /\ UNCHANGED <<fresh, pending, running, responses, sent>>
    BY <1>3, <1>4 DEF Ask, pool, replies
  <2> QED
    BY <1>1, <1>3, <2>1, PlacesKept
<1>5. ASSUME \/ \E c \in Conns : Accept(c)
             \/ \E c \in Conns, n \in Nat :
                  HandleWrongState(c, n) \/ HandleHeader(c, n)
             \/ \E s \in Slots : Ends(s)
             \/ Still
      PROVE  Places'
  <2>1. UNCHANGED <<fresh, pending, running, responses, sent, asked>>
    BY <1>5 DEF Accept, HandleWrongState, HandleHeader, Ends, Still, pool,
                client, replies
  <2> QED
    BY <1>1, <1>3, <2>1, PlacesKept
<1> QED
  BY <1>1, <1>2, <1>4, <1>5, NextCases, PlacesStart, PlacesFinish,
     PlacesDrops, PlacesRespond

-----------------------------------------------------------------------------
(***************************************************************************)
(* Owned is kept by every step.                                            *)
(***************************************************************************)

\* What Owned says of a request.
OwnedBy(r) ==
  link[r[1]] = "open" =>
    /\ args[r] \in Live /\ sess[args[r]].conn = r[1]
    /\ Undisturbed(r[1]) =>
         /\ sess[args[r]].stat = "response" /\ sess[args[r]].read = "message"
         /\ sess[args[r]].req = r

LEMMA OwnedParts == Owned <=> \A r \in InFlight : OwnedBy(r)
BY DEF Owned, OwnedBy

\* A step at no session that has a request, and at no event.
LEMMA OwnedKept ==
  ASSUME Owned, UNCHANGED <<link, sess, args, sent>>,
         \A q \in Requests : q \in InFlight' => q \in InFlight
  PROVE  Owned'
<1>1. Live' = Live /\ \A c : Undisturbed(c)' <=> Undisturbed(c)
  BY DEF Live, Undisturbed
<1>2. \A q \in InFlight' : q \in InFlight
  BY DEF InFlight
<1> QED
  BY <1>1, <1>2 DEF Owned

LEMMA OwnedAccept ==
  ASSUME TypeOK, Links, Places, Owned, NEW c \in Conns, Accept(c)
  PROVE  Owned'
<1>1. PICK s \in Slots \ Live : sess' = [sess EXCEPT ![s] = Opened(c)]
  BY DEF Accept
<1>2. /\ sess'[s] = Opened(c) /\ \A t \in Slots \ {s} : sess'[t] = sess[t]
  BY <1>1 DEF TypeOK
<1>3. /\ link[c] = "new" /\ \A d \in Conns \ {c} : link'[d] = link[d]
      /\ UNCHANGED <<args, sent, pending, running, responses, fresh>>
  BY DEF TypeOK, Accept, pool, replies
<1>4. InFlight' = InFlight
  BY <1>3 DEF InFlight
<1>5. SUFFICES ASSUME NEW q \in InFlight
               PROVE  OwnedBy(q)'
  BY <1>4 DEF Owned, OwnedBy
<1>6. q \in Requests
  BY DEF InFlight
<1>7. q[1] # c
  <2> SUFFICES ASSUME q[1] = c
               PROVE  FALSE
    OBVIOUS
  <2>1. q \notin fresh
    BY <1>6, InFlightPlaces DEF Places, OnePlace
  <2>2. q[2] <= asked[c] /\ asked[c] = 0
    BY <1>3, <1>6, <2>1 DEF Places, OnePlace, Links
  <2>3. q[2] \in 1 .. MaxRequests
    BY <1>6 DEF Requests
  <2> QED
    BY <2>2, <2>3
<1>8. q[1] \in Conns
  BY <1>6 DEF Requests
<1>9. OwnedBy(q)
  BY OwnedParts
<1>10. \A t \in Live : t \in Live' /\ sess'[t] = sess[t]
  BY <1>1, <1>2 DEF Live
<1>11. Undisturbed(q[1])' <=> Undisturbed(q[1])
  BY <1>3 DEF Undisturbed
<1> QED
  BY <1>3, <1>7, <1>8, <1>9, <1>10, <1>11 DEF OwnedBy

LEMMA OwnedEnds ==
  ASSUME TypeOK, Links, Owned, NEW s \in Slots, Ends(s)
  PROVE  Owned'
<1>1. PICK c \in Conns : c = sess[s].conn
  BY DEF Ends, Links
<1>2. /\ sess'[s] = Freed /\ \A t \in Slots \ {s} : sess'[t] = sess[t]
  BY DEF TypeOK, Ends, Close
<1>3. /\ link'[c] = "closed" /\ \A d \in Conns \ {c} : link'[d] = link[d]
      /\ UNCHANGED <<args, sent, pending, running, responses>>
  BY <1>1 DEF TypeOK, Ends, Close, pool, replies
<1>4. InFlight' = InFlight
  BY <1>3 DEF InFlight
<1>5. SUFFICES ASSUME NEW q \in InFlight, link'[q[1]] = "open"
               PROVE  OwnedBy(q)'
  BY <1>4 DEF Owned, OwnedBy
<1>6. q[1] \in Conns
  BY DEF InFlight, Requests
<1>7. q[1] # c /\ link[q[1]] = "open"
  BY <1>3, <1>5, <1>6
<1>8. OwnedBy(q)
  BY OwnedParts
<1>9. args[q] \in Live /\ args[q] # s
  BY <1>1, <1>7, <1>8 DEF OwnedBy
<1>10. sess'[args[q]] = sess[args[q]] /\ args[q] \in Live'
  BY <1>2, <1>9 DEF Live
<1>11. Undisturbed(q[1])' <=> Undisturbed(q[1])
  BY <1>3 DEF Undisturbed
<1> QED
  BY <1>3, <1>7, <1>8, <1>10, <1>11 DEF OwnedBy

LEMMA OwnedHeader ==
  ASSUME TypeOK, Links, Owned, NEW c \in Conns, NEW n, HandleHeader(c, n)
  PROVE  Owned'
<1>1. PICK s \in Live :
        /\ sess[s].conn = c
        /\ sess[s].stat = "request" /\ Live' = Live
        /\ \A t \in Slots \ {s} : sess'[t] = sess[t]
        /\ \A t \in Live : sess'[t].conn = sess[t].conn
  BY ReadSession
<1>2. UNCHANGED <<link, args, sent, pending, running, responses>>
  BY DEF HandleHeader, pool, replies
<1>3. InFlight' = InFlight
  BY <1>2 DEF InFlight
<1>4. SUFFICES ASSUME NEW q \in InFlight, link[q[1]] = "open"
               PROVE  OwnedBy(q)'
  BY <1>2, <1>3 DEF Owned, OwnedBy
<1>5. OwnedBy(q)
  BY OwnedParts
<1>6. args[q] \in Live /\ args[q] \in Slots
  BY <1>4, <1>5 DEF OwnedBy, Live
<1>7. Undisturbed(q[1])' <=> Undisturbed(q[1])
  BY <1>2 DEF Undisturbed
<1>8. Undisturbed(q[1]) => args[q] # s
  BY <1>1, <1>4, <1>5 DEF OwnedBy
<1> QED
  BY <1>1, <1>2, <1>4, <1>5, <1>6, <1>7, <1>8 DEF OwnedBy

LEMMA OwnedMessage ==
  ASSUME TypeOK, Links, Places, Owned, NEW c \in Conns, NEW n, Stream(c),
         Position(SlotOf(c), c), HandleMessage(c, n)
  PROVE  Owned'
<1>1. PICK s \in Live :
        /\ s = SlotOf(c) /\ s \in Slots /\ sess[s].conn = c
        /\ sess[s].stat = "request" /\ Live' = Live /\ sess'[s].conn = c
        /\ \A t \in Slots \ {s} : sess'[t] = sess[t]
        /\ \A t \in Live : sess'[t].conn = sess[t].conn
  BY ReadSession
<1>2. PICK r \in Requests :
        /\ r = Head(BodyOn(c, n)).of /\ r[1] = c
        /\ \A q \in Requests : q \in InFlight' => q \in InFlight \/ q = r
  BY PlacesMessage
<1>3. /\ UNCHANGED <<link, sent>>
      /\ args' = [args EXCEPT ![r] = s]
      /\ sess' = [sess EXCEPT ![s] = [sess[s] EXCEPT !.stat = "response",
                                         !.read = "message", !.req = r]]
  BY <1>1, <1>2 DEF HandleMessage, replies
<1>4. args'[r] = s /\ \A q \in Requests \ {r} : args'[q] = args[q]
  BY <1>3 DEF TypeOK
<1>5. /\ sess'[s].stat = "response" /\ sess'[s].read = "message"
      /\ sess'[s].req = r
  <2>1. sess'[s] = [sess[s] EXCEPT !.stat = "response", !.read = "message",
                                   !.req = r]
    BY <1>1, <1>3 DEF TypeOK
  <2>2. sess[s] \in Sessions
    BY <1>1 DEF TypeOK
  <2> QED
    BY <2>1, <2>2 DEF Sessions
<1>6. ASSUME NEW q \in Requests, q \in InFlight'
      PROVE  OwnedBy(q)'
  <2>1. CASE q = r
    BY <1>1, <1>2, <1>4, <1>5, <2>1 DEF OwnedBy
  <2>2. CASE q # r
    <3>1. q \in InFlight /\ OwnedBy(q)
      BY <1>2, <1>6, <2>2, OwnedParts
    <3> SUFFICES ASSUME link[q[1]] = "open"
                 PROVE  OwnedBy(q)'
      BY <1>3 DEF OwnedBy
    <3>2. args[q] \in Live /\ args[q] \in Slots /\ args'[q] = args[q]
      BY <1>4, <2>2, <3>1 DEF OwnedBy, Live
    <3>3. Undisturbed(q[1])' <=> Undisturbed(q[1])
      BY <1>3 DEF Undisturbed
    <3>4. Undisturbed(q[1]) => args[q] # s
      BY <1>1, <3>1 DEF OwnedBy
    <3> QED
      BY <1>1, <1>3, <3>1, <3>2, <3>3, <3>4 DEF OwnedBy
  <2> QED
    BY <2>1, <2>2
<1>7. \A q \in InFlight' : q \in Requests
  BY DEF InFlight
<1> QED
  BY <1>6, <1>7 DEF Owned, OwnedBy

LEMMA OwnedRespond ==
  ASSUME TypeOK, Links, Places, Owned, PopResponse, Respond(Head(responses))
  PROVE  Owned'
<1> DEFINE r == Head(responses)
<1>1. r \in Requests /\ r \in InFlight
  BY HeadWaits DEF PopResponse
<1>2. \A q \in Requests : q \in InFlight' => q \in InFlight /\ q # r
  BY PlacesRespond
<1>3. PICK s \in Live, c \in Conns : Writing(r, s, c)
  BY <1>1, RespondEffect
<1> HIDE DEF r
<1>4. /\ s = args[r] /\ sess[s].conn = c /\ link[c] = "open"
      /\ sess'[s].conn = c
      /\ \A t \in Slots \ {s} : sess'[t] = sess[t]
      /\ \A d \in Conns \ {c} : sent'[d] = sent[d]
      /\ Undisturbed(c)' => Undisturbed(c) /\ r[1] = c
  BY <1>3 DEF Writing
<1>5. Live' = Live /\ \A t \in Live : sess'[t].conn = sess[t].conn
  BY <1>4, LiveKept
<1>6. UNCHANGED <<link, args>>
  BY DEF PopResponse
<1>7. ASSUME NEW q \in Requests, q \in InFlight'
      PROVE  OwnedBy(q)'
  <2>1. q \in InFlight /\ q # r /\ OwnedBy(q) /\ OwnedBy(r)
    BY <1>1, <1>2, <1>7, OwnedParts
  <2> SUFFICES ASSUME link[q[1]] = "open"
               PROVE  OwnedBy(q)'
    BY <1>6 DEF OwnedBy
  <2>2. args[q] \in Live /\ sess[args[q]].conn = q[1] /\ q[1] \in Conns
    BY <2>1 DEF OwnedBy, Requests
  <2>3. CASE args[q] = s
    <3>1. q[1] = c
      BY <1>4, <2>2, <2>3
    <3>2. ~Undisturbed(c)'
      <4> SUFFICES ASSUME Undisturbed(c), r[1] = c
                   PROVE  FALSE
        BY <1>4
      <4>1. sess[s].req = r
        BY <1>4, <2>1 DEF OwnedBy
      <4>2. sess[s].req = q
        BY <1>4, <2>1, <2>3, <3>1 DEF OwnedBy
      <4> QED
        BY <2>1, <4>1, <4>2
    <3> QED
      BY <1>5, <1>6, <2>2, <3>1, <3>2 DEF OwnedBy
  <2>4. CASE args[q] # s
    <3>1. q[1] # c
      BY <1>4, <2>2, <2>4 DEF Links
    <3>2. Undisturbed(q[1])' <=> Undisturbed(q[1])
      BY <1>4, <2>2, <3>1 DEF Undisturbed
    <3>3. sess'[args[q]] = sess[args[q]]
      BY <1>4, <2>2, <2>4 DEF Live
    <3> QED
      BY <1>5, <1>6, <2>1, <2>2, <3>2, <3>3 DEF OwnedBy
  <2> QED
    BY <2>3, <2>4
<1>8. \A q \in InFlight' : q \in Requests
  BY DEF InFlight
<1> QED
  BY <1>7, <1>8 DEF Owned, OwnedBy

LEMMA OwnedStep ==
  ASSUME IInv, [Next]_vars
  PROVE  Owned'
<1>1. TypeOK /\ Links /\ Places /\ Sessioned /\ Owned
  BY DEF IInv
<1>2. ASSUME NEW c \in Conns, NEW n, HandleMessage(c, n)
      PROVE  Owned'
  <2>1. link[c] = "open"
    BY <1>2 DEF HandleMessage, ReadsBody, Arrives
  <2>2. Stream(c) /\ Position(SlotOf(c), c)
    BY <1>1, <2>1, SlotProperties DEF Sessioned, Session
  <2> QED
    BY <1>1, <1>2, <2>2, OwnedMessage
<1>3. ASSUME \/ \E c \in Conns, k \in Kinds : Ask(c, k)
             \/ \E c \in Conns, n \in Nat : HandleWrongState(c, n)
             \/ Still
      PROVE  Owned'
  <2>1. UNCHANGED <<link, sess, args, sent, pending, running, responses>>
    BY <1>3 DEF Ask, HandleWrongState, Still, pool, replies
  <2>2. InFlight' = InFlight
    BY <2>1 DEF InFlight
  <2> QED
    BY <1>1, <2>1, <2>2, OwnedKept
<1>4. ASSUME Drops \/ \E w \in Workers : StartTask(w) \/ Finish(w)
      PROVE  Owned'
  <2>1. UNCHANGED <<link, sess, args, sent>>
    BY <1>4 DEF Drops, StartTask, Finish, replies
  <2>2. \A q \in Requests : q \in InFlight' => q \in InFlight
    BY <1>1, <1>4, PlacesStart, PlacesFinish, PlacesDrops
  <2> QED
    BY <1>1, <2>1, <2>2, OwnedKept
<1> QED
  BY <1>1, <1>2, <1>3, <1>4, NextCases, OwnedAccept, OwnedEnds, OwnedHeader,
     OwnedRespond

-----------------------------------------------------------------------------
(***************************************************************************)
(* Answered and Confined are kept by every step.                           *)
(***************************************************************************)

\* Only Respond writes.
LEMMA SentChanges ==
  ASSUME Links, [Next]_vars
  PROVE  (PopResponse /\ Respond(Head(responses))) \/ UNCHANGED sent
BY NextCases DEF Ask, Accept, HandleWrongState, HandleHeader, HandleMessage,
   Ends, Drops, StartTask, Finish, Still, replies

\* A connection that has ended stays so.
LEMMA LinkChanges ==
  ASSUME TypeOK, Links, [Next]_vars, NEW c \in Conns, link[c] = "closed"
  PROVE  link'[c] = "closed"
<1>1. ASSUME NEW d \in Conns, Accept(d)
      PROVE  link'[c] = "closed"
  BY <1>1 DEF Accept, TypeOK
<1>2. ASSUME NEW s \in Slots, Ends(s)
      PROVE  link'[c] = "closed"
  BY <1>2 DEF Ends, Close, TypeOK
<1>3. ASSUME PopResponse
      PROVE  UNCHANGED link
  BY <1>3 DEF PopResponse
<1> QED
  BY <1>1, <1>2, <1>3, NextCases DEF Ask, HandleWrongState, HandleHeader,
     HandleMessage, Drops, StartTask, Finish, Still

\* The response that is written to an undisturbed connection is the one its
\* session waits for.
LEMMA RespondsToOwner ==
  ASSUME IInv, NEW r \in Requests, r \in InFlight,
         NEW s \in Live, NEW c \in Conns, Writing(r, s, c), Undisturbed(c)'
  PROVE  /\ Undisturbed(c) /\ r[1] = c /\ Session(s, c)
         /\ sess[s].stat = "response" /\ sess[s].req = r
<1>1. /\ s = args[r] /\ sess[s].conn = c /\ link[c] = "open"
      /\ Undisturbed(c) /\ r[1] = c
  BY DEF Writing
<1>2. OwnedBy(r) /\ Session(s, c)
  BY <1>1, OwnedParts DEF IInv, Sessioned
<1> QED
  BY <1>1, <1>2 DEF OwnedBy

LEMMA AnsweredStep ==
  ASSUME IInv, [Next]_vars
  PROVE  Answered'
<1>1. TypeOK /\ Links /\ Places /\ Answered
  BY DEF IInv
<1>2. CASE UNCHANGED sent
  BY <1>1, <1>2 DEF Answered, Undisturbed
<1>3. CASE PopResponse /\ Respond(Head(responses))
  <2>1. PICK r \in Requests : r = Head(responses) /\ r \in InFlight
    BY <1>1, <1>3, HeadWaits DEF PopResponse
  <2>2. PICK s \in Live, c \in Conns : Writing(r, s, c)
    BY <1>1, <1>3, <2>1, RespondEffect
  <2> SUFFICES ASSUME NEW d \in Conns, Undisturbed(d)'
               PROVE  /\ \A i \in 1 .. Len(sent'[d]) : i <= sent'[d][i][2]
                      /\ \A i, j \in 1 .. Len(sent'[d]) :
                           i < j => sent'[d][i][2] < sent'[d][j][2]
    BY DEF Answered
  <2>3. CASE d # c
    <3>1. sent'[d] = sent[d]
      BY <2>2, <2>3 DEF Writing
    <3> QED
      BY <1>1, <3>1 DEF Answered, Undisturbed
  <2>4. CASE d = c
    <3> DEFINE p == sent[c]
               q == sent'[c]
               l == Len(sent[c])
               n == r[2]
    <3>1. /\ Undisturbed(c) /\ r[1] = c /\ Session(s, c)
          /\ sess[s].stat = "response" /\ sess[s].req = r
      BY <2>1, <2>2, <2>4, RespondsToOwner
    <3>2. /\ l \in Nat /\ Len(q) = l + 1 /\ q[l + 1] = r
          /\ \A i \in 1 .. l : q[i] = p[i]
      BY <2>2 DEF Writing
    <3>3. n \in Nat /\ n >= 1
      BY ServerAssumption DEF Requests
    <3>4. \A i \in 1 .. l : p[i][2] < n /\ p[i][2] \in Nat
      <4>1. \A i \in 1 .. l : p[i][2] < n
        BY <3>1 DEF Session, Awaits
      <4>2. \A i \in 1 .. l : p[i][2] \in Nat
        BY <1>1, <3>1, SentWasRead DEF Session
      <4> QED
        BY <4>1, <4>2
    <3>5. l < n \/ l = 0
      BY <1>1, <3>1, <3>3, <3>4, SentBounded DEF Session
    <3>6. /\ \A i \in 1 .. l : i <= p[i][2]
          /\ \A i, j \in 1 .. l : i < j => p[i][2] < p[j][2]
      BY <1>1, <3>1 DEF Answered
    <3>7. \A i \in 1 .. Len(q) : i \in 1 .. l \/ i = l + 1
      <4> HIDE DEF l
      <4> QED
        BY <3>2
    <3> HIDE DEF l, p, q, n
    <3>8. ASSUME NEW i \in 1 .. Len(q)
          PROVE  i <= q[i][2]
      <4>1. CASE i \in 1 .. l
        BY <3>2, <3>6, <4>1
      <4>2. CASE i = l + 1
        <5>1. q[i][2] = n
          BY <3>2, <4>2 DEF n
        <5> QED
          BY <3>2, <3>3, <3>5, <4>2, <5>1
      <4> QED
        BY <3>7, <4>1, <4>2
    <3>9. ASSUME NEW i \in 1 .. Len(q), NEW j \in 1 .. Len(q), i < j
          PROVE  q[i][2] < q[j][2]
      <4>1. i \in 1 .. l
        BY <3>2, <3>9
      <4>2. CASE j \in 1 .. l
        BY <3>2, <3>6, <3>9, <4>1, <4>2
      <4>3. CASE j = l + 1
        <5>1. q[j][2] = n /\ q[i] = p[i]
          BY <3>2, <4>1, <4>3 DEF n
        <5> QED
          BY <3>4, <4>1, <5>1
      <4> QED
        BY <3>7, <4>2, <4>3
    <3> QED
      BY <2>4, <3>8, <3>9 DEF q
  <2> QED
    BY <2>3, <2>4
<1> QED
  BY <1>2, <1>3, SentChanges, <1>1

LEMMA ConfinedStep ==
  ASSUME IInv, [Next]_vars
  PROVE  Confined'
<1>1. TypeOK /\ Links /\ Places /\ Owned /\ Confined
  BY DEF IInv
<1>2. SUFFICES ASSUME NEW c \in Conns, NEW i \in 1 .. Len(sent'[c]),
                      sent'[c][i][1] # c
               PROVE  link'[sent'[c][i][1]] = "closed"
  BY DEF Confined
<1>3. ASSUME i \in 1 .. Len(sent[c]), sent'[c][i] = sent[c][i]
      PROVE  link'[sent'[c][i][1]] = "closed"
  <2>1. link[sent[c][i][1]] = "closed"
    BY <1>1, <1>2, <1>3 DEF Confined
  <2>2. sent[c][i][1] \in Conns
    <3>1. sent[c] \in Seq(Requests)
      BY <1>1 DEF TypeOK
    <3>2. sent[c][i] \in Requests
      BY <1>3, <3>1, ElementOfSeq
    <3> QED
      BY <3>2 DEF Requests
  <2> QED
    BY <1>1, <1>3, <2>1, <2>2, LinkChanges
<1>4. CASE UNCHANGED sent
  BY <1>3, <1>4
<1>5. CASE PopResponse /\ Respond(Head(responses))
  <2>1. PICK r \in Requests : r = Head(responses) /\ r \in InFlight
    BY <1>1, <1>5, HeadWaits DEF PopResponse
  <2>2. PICK s \in Live, d \in Conns : Writing(r, s, d)
    BY <1>1, <1>5, <2>1, RespondEffect
  <2>3. /\ s = args[r] /\ sess[s].conn = d
        /\ Len(sent[d]) \in Nat /\ Len(sent'[d]) = Len(sent[d]) + 1
        /\ sent'[d][Len(sent[d]) + 1] = r
        /\ \A j \in 1 .. Len(sent[d]) : sent'[d][j] = sent[d][j]
        /\ \A e \in Conns \ {d} : sent'[e] = sent[e]
    BY <2>2 DEF Writing
  <2>4. link' = link
    BY <1>5 DEF PopResponse
  <2>5. CASE c # d
    BY <1>3, <2>3, <2>5
  <2>6. CASE c = d /\ i \in 1 .. Len(sent[c])
    BY <1>3, <2>3, <2>6
  <2>7. CASE c = d /\ i \notin 1 .. Len(sent[c])
    <3> DEFINE l == Len(sent[d])
    <3>1. i = l + 1
      <4>1. i \in 1 .. l + 1 /\ l \in Nat /\ i \notin 1 .. l
        BY <2>3, <2>7
      <4> HIDE DEF l
      <4> QED
        BY <4>1
    <3>2. sent'[c][i] = r /\ r[1] # d
      BY <1>2, <2>3, <2>7, <3>1
    <3>3. OwnedBy(r)
      BY <1>1, <2>1, OwnedParts
    <3>4. link[r[1]] # "open"
      BY <2>3, <3>2, <3>3 DEF OwnedBy
    <3>5. link[r[1]] # "new"
      <4> SUFFICES ASSUME link[r[1]] = "new"
                   PROVE  FALSE
        OBVIOUS
      <4>1. r \notin fresh
        BY <1>1, <2>1, InFlightPlaces DEF Places, OnePlace
      <4>2. r[2] <= asked[r[1]] /\ asked[r[1]] = 0
        BY <1>1, <4>1 DEF Places, OnePlace, Links, Requests
      <4>3. r[2] \in 1 .. MaxRequests
        BY DEF Requests
      <4> QED
        BY <4>2, <4>3
    <3>6. link[r[1]] \in {"new", "open", "closed"}
      BY <1>1 DEF TypeOK, Requests
    <3> QED
      BY <2>4, <3>2, <3>4, <3>5, <3>6
  <2> QED
    BY <2>5, <2>6, <2>7
<1> QED
  BY <1>1, <1>4, <1>5, SentChanges

-----------------------------------------------------------------------------
(***************************************************************************)
(* The theorems.                                                           *)
(***************************************************************************)

LEMMA InitIInv == Init => IInv
<1> SUFFICES ASSUME Init
             PROVE  IInv
  OBVIOUS
<1>1. /\ fresh = Requests /\ pending = <<>> /\ finished = {} /\ refused = {}
      /\ retired = {} /\ running = [w \in Workers |-> None]
  BY DEF Init, Pool!Init
<1>2. /\ link = [c \in Conns |-> "new"] /\ asked = [c \in Conns |-> 0]
      /\ wire = [c \in Conns |-> <<>>] /\ input = [c \in Conns |-> <<>>]
      /\ sess = [s \in Slots |-> Freed] /\ responses = <<>>
      /\ sent = [c \in Conns |-> <<>>]
      /\ kind = [r \in Requests |-> None] /\ args = [r \in Requests |-> None]
      /\ unsent = {} /\ phase = "dispatch"
  BY DEF Init
<1>3. Live = {}
  BY <1>2 DEF Live
<1>4. Len(pending) = 0 /\ Len(responses) = 0 /\ \A c \in Conns : Len(sent[c]) = 0
  BY <1>1, <1>2
<1>5. TypeOK
  <2>1. Freed \in Sessions
    BY DEF Freed, Sessions
  <2>2. pending \in Seq(Requests) /\ Len(pending) <= MaxPending
    BY <1>1, <1>4, ServerAssumption
  <2>3. asked \in [Conns -> 0 .. MaxRequests]
    BY <1>2, ServerAssumption
  <2> QED
    BY <1>1, <1>2, <2>1, <2>2, <2>3 DEF TypeOK
<1>6. Links
  BY <1>2, <1>3 DEF Links
<1>7. Places
  <2>1. ASSUME NEW r \in Requests
        PROVE  OnePlace(r)
    <3>1. ~Queued(r) /\ ~Waiting(r) /\ ~Written(r)
      BY <1>4 DEF Queued, Waiting, Written, Names
    <3>2. ~Running(r)
      BY <1>1, ServerAssumption DEF Running
    <3> QED
      BY <1>1, <3>1, <3>2 DEF OnePlace
  <2> QED
    BY <1>1, <1>4, <2>1 DEF Places, Distinct
<1>8. Sessioned
  BY <1>3 DEF Sessioned
<1>9. InFlight = {}
  BY <1>1, <1>2, ServerAssumption DEF InFlight
<1>10. Owned
  BY <1>9 DEF Owned
<1>11. Answered /\ Confined
  BY <1>4 DEF Answered, Confined
<1> QED
  BY <1>5, <1>6, <1>7, <1>8, <1>10, <1>11 DEF IInv

LEMMA StepIInv == IInv /\ [Next]_vars => IInv'
BY TypeStep, LinksStep, PlacesStep, SessionedStep, OwnedStep, AnsweredStep,
   ConfinedStep DEF IInv

\* The inductive invariant holds in every state of every behaviour.
THEOREM Invariance == Spec => []IInv
BY InitIInv, StepIInv, PTL DEF Spec

\* Every variable has its type: in particular the pool's queue never holds
\* more than MaxPending requests.
THEOREM TypeCorrect == Spec => []TypeOK
<1>1. IInv => TypeOK
  BY DEF IInv
<1> QED
  BY <1>1, Invariance, PTL

\* The address in the event of a request in flight is the session of the
\* connection that asked, and that session waits for this very request
\* (handle_request and handleAllResponseEvent).
THEOREM InFlightOwnedCorrect == Spec => []InFlightOwned
<1>1. ASSUME IInv
      PROVE  InFlightOwned
  <2> SUFFICES ASSUME NEW r \in InFlight, link[r[1]] = "open",
                      Undisturbed(r[1])
               PROVE  sess[args[r]] = [conn |-> r[1], stat |-> "response",
                                       read |-> "message", req |-> r]
    BY DEF InFlightOwned
  <2>1. /\ args[r] \in Live /\ sess[args[r]].conn = r[1]
        /\ sess[args[r]].stat = "response" /\ sess[args[r]].read = "message"
        /\ sess[args[r]].req = r
    BY <1>1 DEF IInv, Owned
  <2>2. sess[args[r]] \in Sessions
    BY <1>1, <2>1 DEF IInv, TypeOK, Live
  <2> QED
    BY <2>1, <2>2 DEF Sessions
<1> QED
  BY <1>1, Invariance, PTL

\* A connection is sent the responses to its requests in the order in which
\* it asked (handleAllResponseEvent).
THEOREM OrderCorrect == Spec => []AnswersInOrder
<1>1. ASSUME IInv
      PROVE  AnswersInOrder
  <2>1. ASSUME NEW c \in Conns
        PROVE  DOMAIN sent[c] = 1 .. Len(sent[c])
    <3>1. sent[c] \in Seq(Requests)
      BY <1>1 DEF IInv, TypeOK
    <3> QED
      BY <3>1, LenProperties
  <2> QED
    BY <1>1, <2>1 DEF IInv, Answered, AnswersInOrder
<1> QED
  BY <1>1, Invariance, PTL

\* handle_request takes no body for a header and no header for a body.
THEOREM AlignedCorrect == Spec => []Aligned
<1>1. ASSUME IInv
      PROVE  Aligned
  <2> SUFFICES ASSUME NEW s \in Live, NEW c \in Conns, sess[s].conn = c,
                      Unread(c) # <<>>, Undisturbed(c)
               PROVE  Head(Unread(c)).part = "body" <=> MidMessage(s)
    BY <1>1 DEF Aligned, Unread, MidMessage, IInv, Links
  <2>1. TypeOK /\ Stream(c) /\ Position(s, c)
    BY <1>1 DEF IInv, Sessioned, Session
  <2>2. Unread(c) \in Seq(Tokens)
    BY <2>1, ConcatProperties DEF Unread, TypeOK
  <2>3. Len(Unread(c)) \in Nat \ {0}
    BY <2>2, EmptySeq
  <2>4. Len(Unread(c)) > 0 /\ Len(Unread(c)) >= 1
    BY <2>3
  <2>5. Head(Unread(c)) = Unread(c)[1]
    BY <2>2, <2>4, TailProperties
  <2>6. PICK m \in 1 .. asked[c] :
          \/ Consumed(c) = 2 * m - 2 /\ Unread(c)[1] = Header(<<c, m>>)
          \/ Consumed(c) = 2 * m - 1 /\ Unread(c)[1] = Body(<<c, m>>)
    BY <2>1, <2>4, NextBytes
  <2>7. asked[c] \in Nat
    BY <2>1, ServerAssumption DEF TypeOK
  <2>8. CASE MidMessage(s)
    <3>1. PICK n \in 1 .. asked[c] : Consumed(c) = 2 * n - 1
      BY <2>1, <2>8 DEF Position
    <3>2. Consumed(c) # 2 * m - 2
      BY <2>7, <3>1
    <3> QED
      BY <2>5, <2>6, <2>8, <3>2 DEF Body
  <2>9. CASE ~MidMessage(s)
    <3>1. PICK n \in 0 .. asked[c] : Consumed(c) = 2 * n
      BY <2>1, <2>9 DEF Position
    <3>2. Consumed(c) # 2 * m - 1
      BY <2>7, <3>1
    <3> QED
      BY <2>5, <2>6, <2>9, <3>2 DEF Header
  <2> QED
    BY <2>8, <2>9
<1> QED
  BY <1>1, Invariance, PTL

\* A response is written at most once, and to another than the one who asked
\* only when the one who asked has ended (handleAllResponseEvent).
THEOREM StrayAnswersCorrect == Spec => []StrayAnswersConfined
<1>1. ASSUME IInv
      PROVE  StrayAnswersConfined
  <2> SUFFICES ASSUME NEW r \in Requests
               PROVE  /\ Cardinality(Writes(r)) <= 1
                      /\ \A p \in Writes(r) :
                           p[1] # r[1] => link[r[1]] = "closed"
    BY DEF StrayAnswersConfined
  <2>1. ASSUME NEW p \in Writes(r)
        PROVE  /\ p[1] \in Conns /\ p[2] \in 1 .. Len(sent[p[1]])
               /\ sent[p[1]][p[2]] = r /\ p = <<p[1], p[2]>>
    <3>1. /\ p[1] \in Conns /\ p = <<p[1], p[2]>>
          /\ p[2] \in DOMAIN sent[p[1]] /\ sent[p[1]][p[2]] = r
      BY DEF Writes
    <3>2. sent[p[1]] \in Seq(Requests)
      BY <1>1, <3>1 DEF IInv, TypeOK
    <3> QED
      BY <3>1, <3>2, LenProperties
  <2>2. \A p \in Writes(r) : p[1] # r[1] => link[r[1]] = "closed"
    BY <1>1, <2>1 DEF IInv, Confined
  <2>3. ASSUME NEW p \in Writes(r), NEW q \in Writes(r)
        PROVE  p = q
    <3>1. /\ p[1] \in Conns /\ p[2] \in 1 .. Len(sent[p[1]])
          /\ sent[p[1]][p[2]] = r /\ p = <<p[1], p[2]>>
          /\ q[1] \in Conns /\ q[2] \in 1 .. Len(sent[q[1]])
          /\ sent[q[1]][q[2]] = r /\ q = <<q[1], q[2]>>
      BY <2>1
    <3>2. p[1] = q[1] /\ p[2] = q[2]
      BY <1>1, <3>1 DEF IInv, Places
    <3> QED
      BY <3>1, <3>2
  <2>4. Cardinality(Writes(r)) <= 1
    <3>1. CASE Writes(r) = {}
      BY <3>1, FS_EmptySet
    <3>2. CASE Writes(r) # {}
      <4>1. PICK p \in Writes(r) : TRUE
        BY <3>2
      <4>2. Writes(r) = {p}
        BY <2>3
      <4> QED
        BY <4>2, FS_Singleton
    <3> QED
      BY <3>1, <3>2
  <2> QED
    BY <2>2, <2>4
<1> QED
  BY <1>1, Invariance, PTL

\* A client that waits for its answers leaves no byte in the evbuffer that
\* only further bytes would make handle_request read.
THEOREM InputCorrect == Spec => []InputConsumed
<1>1. ASSUME IInv
      PROVE  InputConsumed
  <2> SUFFICES ASSUME NEW s \in Live, NEW c \in Conns, sess[s].conn = c,
                      sess[s].stat = "request", Undisturbed(c)
               PROVE  c \in Pipeliners \/ input[c] = <<>>
    BY <1>1 DEF InputConsumed, IInv, Links
  <2> QED
    BY <1>1 DEF IInv, Sessioned, Session, Outstanding
<1> QED
  BY <1>1, Invariance, PTL

\* A session that waits reads on only when the response to its own request
\* was written (session_reset in handleAllResponseEvent).
THEOREM ReadsOnCorrect == Spec => ReadsOnAfterAnswer
<1>1. ASSUME IInv, [Next]_vars,
             NEW s \in Live, NEW c \in Conns, sess[s].conn = c,
             sess[s].stat = "response",
             sess'[s].conn = c, sess'[s].stat = "request", Undisturbed(c)'
      PROVE  sent'[c] = Append(sent[c], sess[s].req)
  <2>1. TypeOK /\ Links /\ s \in Slots
    BY <1>1 DEF IInv, Live
  <2>2. sess'[s] # sess[s]
    BY <1>1
  <2>3. ASSUME NEW d \in Conns, Accept(d)
        PROVE  FALSE
    <3>1. PICK t \in Slots \ Live : sess' = [sess EXCEPT ![t] = Opened(d)]
      BY <2>3 DEF Accept
    <3>2. s # t
      BY <3>1
    <3> QED
      BY <2>1, <2>2, <3>1, <3>2 DEF TypeOK
  <2>4. ASSUME NEW t \in Slots, Ends(t)
        PROVE  FALSE
    <3>1. sess' = [sess EXCEPT ![t] = Freed]
      BY <2>4 DEF Ends, Close
    <3>2. t = s
      BY <2>1, <2>2, <3>1 DEF TypeOK
    <3>3. sess'[s].conn = None
      BY <2>1, <3>1, <3>2 DEF TypeOK, Freed
    <3> QED
      BY <1>1, <3>3, ServerAssumption
  <2>5. ASSUME NEW d \in Conns, NEW n, HandleHeader(d, n) \/ HandleMessage(d, n)
        PROVE  FALSE
    <3>1. PICK t \in Live : /\ sess[t].stat = "request"
                            /\ \A u \in Slots \ {t} : sess'[u] = sess[u]
      BY <2>1, <2>5, ReadSession
    <3> QED
      BY <1>1, <2>1, <2>2, <3>1
  <2>6. PopResponse /\ Respond(Head(responses))
    BY <2>1, <2>2, <2>3, <2>4, <2>5, <1>1, NextCases
       DEF Ask, HandleWrongState, Drops, StartTask, Finish, Still
  <2>7. PICK r \in Requests : r = Head(responses) /\ r \in InFlight
    BY <2>1, <2>6, HeadWaits DEF PopResponse
  <2>8. PICK t \in Live, d \in Conns : Writing(r, t, d)
    BY <2>1, <2>6, <2>7, RespondEffect
  <2>9. /\ sess[t].conn = d /\ t = s /\ d = c
        /\ sent' = [sent EXCEPT ![d] = Append(sent[d], r)]
    BY <1>1, <2>1, <2>2, <2>8 DEF Writing
  <2>10. sess[s].req = r
    BY <1>1, <2>7, <2>8, <2>9, RespondsToOwner
  <2> QED
    BY <2>1, <2>9, <2>10 DEF TypeOK
<1>2. ASSUME IInv, [Next]_vars
      PROVE  [\A s \in Live :
                LET c == sess[s].conn
                IN  /\ sess[s].stat = "response"
                    /\ sess'[s].conn = c
                    /\ sess'[s].stat = "request"
                    /\ Undisturbed(c)'
                    => sent'[c] = Append(sent[c], sess[s].req)]_vars
  <2>1. \A s \in Live : sess[s].conn \in Conns
    BY <1>2 DEF IInv, Links
  <2> QED
    BY <1>1, <1>2, <2>1
<1> QED
  BY <1>2, Invariance, PTL DEF Spec, ReadsOnAfterAnswer
=============================================================================
