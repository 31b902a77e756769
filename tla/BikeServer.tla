----------------------------- MODULE BikeServer -----------------------------
(***************************************************************************)
(* The server around the thread pool: NetworkInterface and                 *)
(* DispatchMsgService.  The main thread alternates between the callbacks   *)
(* of libevent (phase "dispatch") and handleAllResponseEvent (phase        *)
(* "respond"); the workers run DispatchMsgService::svc.  A request carries *)
(* the address of its ConnectSession through the pool and back, and        *)
(* nothing but that address says who asked.                                *)
(*                                                                         *)
(* The pool is TaskQueue, which ThreadPool implements.  A request is       *)
(* <<c, n>>, the n-th one of connection c.  On the wire it is a header and *)
(* a body; the bytes of each are left to the framing of handle_request.    *)
(* Response events are allocated by the workers and never reused, so a     *)
(* response is named by the request it answers.                            *)
(***************************************************************************)
EXTENDS Integers, Sequences, FiniteSets

CONSTANTS
  Conns,          \* client connections, each accepted at most once
  Slots,          \* the addresses the allocator gives to a ConnectSession
  Workers,        \* the threads of the pool
  MaxRequests,    \* how many requests a client sends (bounds a behaviour)
  MaxQueue,       \* max_queue of the pool
  MaxPending,     \* what the pool really accepts: max_queue + threads
  Kinds,          \* the kinds of request the clients send
  Pipeliners,     \* the clients that may ask again before they are answered
  ExitTask,       \* the exit task of the pool, never posted here
  None

Requests == Conns \X (1 .. MaxRequests)

ASSUME ServerAssumption ==
  /\ IsFiniteSet(Conns) /\ IsFiniteSet(Slots) /\ IsFiniteSet(Workers)
  /\ MaxRequests \in Nat /\ MaxQueue \in Nat /\ MaxPending \in Nat
  /\ Kinds \subseteq {"mobile", "login", "junk", "unknown"}
  /\ Pipeliners \subseteq Conns
  /\ ExitTask \notin Requests
  /\ None \notin Requests \cup {ExitTask} \cup Slots \cup Conns

VARIABLES
  fresh, pending, running, finished, refused, retired,   \* the pool
  link,       \* link[c] is "new", "open" or "closed"
  asked,      \* how many requests client c has sent
  kind,       \* kind[r], chosen when r is sent
  wire,       \* what c sent and the kernel has not handed over
  input,      \* the input evbuffer of c's bufferevent
  sess,       \* the ConnectSession at each address
  args,       \* args_ of the event of request r: the address of a session
  responses,  \* response_events: requests whose response waits, oldest first
  phase,      \* which half of network_event_dispatch the main thread is in
  sent,       \* sent[c]: the responses written to c's bufferevent
  unsent      \* responses that were popped and written to nobody

pool == <<fresh, pending, running, finished, refused, retired>>
client == <<asked, kind>>
replies == <<responses, sent, unsent>>
vars == <<pool, link, client, wire, input, sess, args, replies, phase>>

Pool == INSTANCE TaskQueue WITH Tasks <- Requests

\* A header and a body, in the order in which a client writes them.
Header(r) == [part |-> "header", of |-> r]
Body(r) == [part |-> "body", of |-> r]
Message(r) == <<Header(r), Body(r)>>

\* Freed memory, and a session as listener_cb leaves it.
Freed == [conn |-> None, stat |-> "request", read |-> "header", req |-> None]

\* Mutant of Opened: session_init forgets session_stat.
OpenedUninitialised(c) == [Freed EXCEPT !.conn = c, !.stat = None]

Opened(c) == [Freed EXCEPT !.conn = c]

Live == {s \in Slots : sess[s] # Freed}
SlotOf(c) == CHOOSE s \in Live : sess[s].conn = c

\* Mutant of Reset: req_stat is left at MS_READ_MESSAGE.
ResetKeepsRead(s) == [sess[s] EXCEPT !.stat = "request", !.req = None]

\* Mutant of Reset: session_stat is left at SS_RESPONSE.
ResetKeepsStat(s) == [sess[s] EXCEPT !.read = "header", !.req = None]

\* session_reset.
Reset(s) == [sess[s] EXCEPT !.stat = "request", !.read = "header", !.req = None]

\* Requests the pool or the response queue still holds.
InFlight ==
  {r \in Requests : \/ \E i \in DOMAIN pending : pending[i] = r
                    \/ \E w \in Workers : running[w] = r
                    \/ \E i \in DOMAIN responses : responses[i] = r}

-----------------------------------------------------------------------------

Init ==
  /\ Pool!Init
  /\ link = [c \in Conns |-> "new"]
  /\ asked = [c \in Conns |-> 0]
  /\ kind = [r \in Requests |-> None]
  /\ wire = [c \in Conns |-> <<>>]
  /\ input = [c \in Conns |-> <<>>]
  /\ sess = [s \in Slots |-> Freed]
  /\ args = [r \in Requests |-> None]
  /\ responses = <<>>
  /\ phase = "dispatch"
  /\ sent = [c \in Conns |-> <<>>]
  /\ unsent = {}

(***************************************************************************)
(* The clients.                                                            *)
(***************************************************************************)

Ask(c, k) ==
  /\ link[c] = "open"
  /\ asked[c] < MaxRequests
  /\ c \in Pipeliners \/ Len(sent[c]) = asked[c]
  /\ LET r == <<c, asked[c] + 1>>
     IN  /\ asked' = [asked EXCEPT ![c] = @ + 1]
         /\ kind' = [kind EXCEPT ![r] = k]
         /\ wire' = [wire EXCEPT ![c] = @ \o Message(r)]
  /\ UNCHANGED <<pool, link, input, sess, args, replies, phase>>

(***************************************************************************)
(* The callbacks of libevent, in the main thread.                          *)
(***************************************************************************)

\* listener_cb: the allocator gives the session any free address.
Accept(c) ==
  /\ phase = "dispatch"
  /\ link[c] = "new"
  /\ \E s \in Slots \ Live : sess' = [sess EXCEPT ![s] = Opened(c)]
  /\ link' = [link EXCEPT ![c] = "open"]
  /\ UNCHANGED <<pool, client, wire, input, args, replies, phase>>

\* bufferevent_free and session_free.
Close(s) ==
  LET c == sess[s].conn
  IN  /\ sess' = [sess EXCEPT ![s] = Freed]
      /\ link' = [link EXCEPT ![c] = "closed"]
      /\ wire' = [wire EXCEPT ![c] = <<>>]
      /\ input' = [input EXCEPT ![c] = <<>>]

\* handle_error: end of file, an error, or 60 seconds without a byte.
HandleError(s) ==
  /\ phase = "dispatch"
  /\ s \in Live
  /\ Close(s)
  /\ UNCHANGED <<pool, client, args, replies, phase>>

\* enqueue: the pool takes the request or refuses it; handle_request does not
\* look at the result.
Enqueue(r) == Pool!Submit(r) \/ Pool!Refuse(r)

\* Part of what is on the wire reaches the evbuffer.  libevent calls
\* handle_request for new bytes only, never for bytes left from before.
Arrives(c, n) ==
  /\ phase = "dispatch"
  /\ link[c] = "open"
  /\ n \in 1 .. Len(wire[c])

\* The bytes handle_request finds in the evbuffer, and those it leaves there.
Buffer(c, n) == input[c] \o SubSeq(wire[c], 1, n)

Leaves(c, n, rest) ==
  /\ wire' = [wire EXCEPT ![c] = SubSeq(@, n + 1, Len(@))]
  /\ input' = [input EXCEPT ![c] = rest]

\* The wrong session state: nothing is read.
HandleWrongState(c, n) ==
  /\ Arrives(c, n)
  /\ sess[SlotOf(c)].stat # "request"
  /\ Leaves(c, n, Buffer(c, n))
  /\ UNCHANGED <<pool, link, client, sess, args, replies, phase>>

\* Mutant of Expects: the test of the session state is dropped.
ExpectsAlways(c, read) == sess[SlotOf(c)].read = read

\* handle_request goes on to read a header or a body.
Expects(c, read) ==
  /\ sess[SlotOf(c)].stat = "request"
  /\ sess[SlotOf(c)].read = read

\* Ten bytes that do not begin with "BIKE", or announce a bad length.
BadHeader(t) == t.part # "header" \/ kind[t.of] = "junk"

HandleBadHeader(c, n) ==
  /\ Arrives(c, n)
  /\ Expects(c, "header")
  /\ BadHeader(Head(Buffer(c, n)))
  /\ Close(SlotOf(c))
  /\ UNCHANGED <<pool, client, args, replies, phase>>

\* Mutant of HandleHeader: the body is left to the next callback.
HeaderAlone(c, n) ==
  /\ Arrives(c, n)
  /\ Expects(c, "header")
  /\ ~BadHeader(Head(Buffer(c, n)))
  /\ sess' = [sess EXCEPT ![SlotOf(c)].read = "message"]
  /\ Leaves(c, n, Tail(Buffer(c, n)))
  /\ UNCHANGED <<pool, link, client, args, replies, phase>>

\* A good header, and nothing after it yet.
HandleHeader(c, n) ==
  /\ Arrives(c, n)
  /\ Expects(c, "header")
  /\ Len(Buffer(c, n)) = 1
  /\ ~BadHeader(Head(Buffer(c, n)))
  /\ sess' = [sess EXCEPT ![SlotOf(c)].read = "message"]
  /\ Leaves(c, n, <<>>)
  /\ UNCHANGED <<pool, link, client, args, replies, phase>>

\* The buffer from the body on that this call reads, possibly after a header.
BodyOn(c, n) ==
  IF sess[SlotOf(c)].read = "header" THEN Tail(Buffer(c, n)) ELSE Buffer(c, n)

ReadsBody(c, n) ==
  /\ Arrives(c, n)
  /\ \/ Expects(c, "message")
     \/ /\ Expects(c, "header")
        /\ Len(Buffer(c, n)) > 1
        /\ ~BadHeader(Head(Buffer(c, n)))

\* A whole message: parse it, remember the session in the event and enqueue.
HandleMessage(c, n) ==
  LET s == SlotOf(c)
      r == Head(BodyOn(c, n)).of
  IN  /\ ReadsBody(c, n)
      /\ kind[r] \in {"mobile", "login"}
      /\ Leaves(c, n, Tail(BodyOn(c, n)))
      /\ sess' = [sess EXCEPT ![s] = [@ EXCEPT !.stat = "response",
                                               !.read = "message", !.req = r]]
      /\ args' = [args EXCEPT ![r] = s]
      /\ Enqueue(r)
      /\ UNCHANGED <<link, client, replies, phase>>

\* parseEvent returns null: an event id it does not know, or a body that does
\* not parse.
HandleUnknown(c, n) ==
  /\ ReadsBody(c, n)
  /\ kind[Head(BodyOn(c, n)).of] \notin {"mobile", "login"}
  /\ Close(SlotOf(c))
  /\ UNCHANGED <<pool, client, args, replies, phase>>

HandleRequest(c) ==
  \E n \in 1 .. 2 * MaxRequests :
    \/ HandleWrongState(c, n) \/ HandleBadHeader(c, n) \/ HandleHeader(c, n)
    \/ HandleMessage(c, n) \/ HandleUnknown(c, n)

\* event_base_loop returns, then handleAllResponseEvent returns.
EndDispatch ==
  /\ phase = "dispatch"
  /\ phase' = "respond"
  /\ UNCHANGED <<pool, link, client, wire, input, sess, args, replies>>

EndRespond ==
  /\ phase = "respond"
  /\ responses = <<>>
  /\ phase' = "dispatch"
  /\ UNCHANGED <<pool, link, client, wire, input, sess, args, replies>>

(***************************************************************************)
(* handleAllResponseEvent, in the main thread, one response a step.        *)
(***************************************************************************)

\* The branch of the mobile response: write to the bufferevent of the session
\* whose address the event carries, and reset that session.
Respond(r) ==
  LET s == args[r]
      c == sess[s].conn
  IN  /\ s \in Live
      /\ sent' = [sent EXCEPT ![c] = Append(@, r)]
      /\ sess' = [sess EXCEPT ![s] = Reset(s)]
      /\ UNCHANGED unsent

\* The same through an address that was freed: undefined; here the process
\* survives it and nobody receives the response.
RespondFreed(r) ==
  /\ args[r] \notin Live
  /\ unsent' = unsent \cup {r}
  /\ UNCHANGED <<sent, sess>>

\* Mutant of Ignore: the session is reset although nothing is written.
IgnoreResets(r) ==
  /\ unsent' = unsent \cup {r}
  /\ sess' = [sess EXCEPT ![args[r]] = Reset(args[r])]
  /\ UNCHANGED sent

\* No branch handles a login response.
Ignore(r) ==
  /\ unsent' = unsent \cup {r}
  /\ UNCHANGED <<sent, sess>>

\* Mutant of PopResponse: the response stays in the queue.
PopKeepsResponse ==
  /\ phase = "respond"
  /\ responses # <<>>
  /\ UNCHANGED responses
  /\ LET r == Head(responses)
     IN  IF kind[r] = "mobile" THEN Respond(r) \/ RespondFreed(r) ELSE Ignore(r)
  /\ UNCHANGED <<pool, link, client, wire, input, args, phase>>

PopResponse ==
  /\ phase = "respond"
  /\ responses # <<>>
  /\ responses' = Tail(responses)
  /\ LET r == Head(responses)
     IN  IF kind[r] = "mobile" THEN Respond(r) \/ RespondFreed(r) ELSE Ignore(r)
  /\ UNCHANGED <<pool, link, client, wire, input, args, phase>>

(***************************************************************************)
(* DispatchMsgService::svc, in a worker.                                   *)
(***************************************************************************)

StartTask(w) ==
  /\ Pool!Start(w)
  /\ UNCHANGED <<link, client, wire, input, sess, args, replies, phase>>

\* process returns a response, which is pushed under queue_mutex; then svc
\* returns and the pool frees the task.
Finish(w) ==
  /\ Pool!Finish(w)
  /\ responses' = Append(responses, running[w])
  /\ UNCHANGED <<link, client, wire, input, sess, args, sent, unsent, phase>>

-----------------------------------------------------------------------------

ClientNext == \E c \in Conns, k \in Kinds : Ask(c, k)

MainNext ==
  \/ \E c \in Conns : Accept(c) \/ HandleRequest(c)
  \/ \E s \in Slots : HandleError(s)
  \/ EndDispatch \/ EndRespond \/ PopResponse

WorkerNext == \E w \in Workers : StartTask(w) \/ Finish(w)

Next == ClientNext \/ MainNext \/ WorkerNext

Spec == Init /\ [][Next]_vars

(***************************************************************************)
(* The loop of main never ends, and each turn of it serves every socket    *)
(* that has bytes (epoll reports it until they are read) and pops every    *)
(* response; a worker that is not blocked is scheduled again.  Nothing is  *)
(* assumed of clients, of new connections, or of errors.                   *)
(***************************************************************************)
Fairness ==
  /\ WF_vars(EndDispatch)
  /\ WF_vars(EndRespond \/ PopResponse)
  /\ \A c \in Conns : SF_vars(HandleRequest(c))
  /\ \A w \in Workers : WF_vars(StartTask(w) \/ Finish(w))

FairSpec == Spec /\ Fairness

-----------------------------------------------------------------------------

Tokens == UNION {{Header(r), Body(r)} : r \in Requests}
Sessions ==
  [conn : Conns \cup {None}, stat : {"request", "response"},
   read : {"header", "message"}, req : Requests \cup {None}]

TypeOK ==
  /\ fresh \subseteq Requests
  /\ pending \in Seq(Requests) /\ Len(pending) <= MaxPending
  /\ running \in [Workers -> Requests \cup {None}]
  /\ finished \subseteq Requests /\ refused \subseteq Requests
  /\ retired = {}
  /\ link \in [Conns -> {"new", "open", "closed"}]
  /\ asked \in [Conns -> 0 .. MaxRequests]
  /\ kind \in [Requests -> Kinds \cup {None}]
  /\ wire \in [Conns -> Seq(Tokens)] /\ input \in [Conns -> Seq(Tokens)]
  /\ sess \in [Slots -> Sessions]
  /\ args \in [Requests -> Slots \cup {None}]
  /\ responses \in Seq(Requests)
  /\ phase \in {"dispatch", "respond"}
  /\ sent \in [Conns -> Seq(Requests)]
  /\ unsent \subseteq Requests

\* A connection that was sent no response to another's request.  One that was
\* had its session reset under it: what is said of a session below is said
\* while this holds, and StrayAnswersConfined says when it may fail.
Undisturbed(c) == \A i \in DOMAIN sent[c] : sent[c][i][1] = c

(***************************************************************************)
(* While the pool or the response queue holds a request of an open         *)
(* connection, the address in its event is the session of that connection, *)
(* that session waits for this request, and so no other request of it is   *)
(* under way (NetworkInterface.cpp:156, 214, 223;                          *)
(* DispatchMsgService.cpp:232).                                            *)
(***************************************************************************)
InFlightOwned ==
  \A r \in InFlight :
    link[r[1]] = "open" /\ Undisturbed(r[1]) =>
      sess[args[r]] = [conn |-> r[1], stat |-> "response", read |-> "message",
                       req |-> r]

(***************************************************************************)
(* A connection is sent the responses to its requests in the order in      *)
(* which it asked, whatever the order in which the workers finish          *)
(* (DispatchMsgService.cpp:75-77, 209-256).                                *)
(***************************************************************************)
AnswersInOrder ==
  \A c \in Conns :
    Undisturbed(c) =>
      \A i, j \in DOMAIN sent[c] : i < j => sent[c][i][2] < sent[c][j][2]

(***************************************************************************)
(* handle_request never takes a body for a header or a header for a body:  *)
(* the next unread bytes of a connection begin a body exactly when its     *)
(* session is in the middle of a message, however the bytes were split or  *)
(* pipelined, and across session_reset (NetworkInterface.cpp:65-70, 190).  *)
(***************************************************************************)
Aligned ==
  \A s \in Live :
    LET c == sess[s].conn
        unread == input[c] \o wire[c]
    IN  unread # <<>> /\ Undisturbed(c) =>
          (Head(unread).part = "body"
             <=> sess[s].stat = "request" /\ sess[s].read = "message")

(***************************************************************************)
(* A session that waits for a response reads on only after the response to *)
(* its own request was written (NetworkInterface.cpp:298-299).             *)
(***************************************************************************)
ReadsOnAfterAnswer ==
  [][\A s \in Live :
       LET c == sess[s].conn
       IN  /\ sess[s].stat = "response"
           /\ sess'[s].conn = c
           /\ sess'[s].stat = "request"
           /\ Undisturbed(c)'
           => sent'[c] = Append(sent[c], sess[s].req)]_vars

(***************************************************************************)
(* Whatever sessions end while the pool has their requests, a response is  *)
(* written at most once, and to another connection than the one that asked *)
(* only when that one has ended: a client that stays connected loses no    *)
(* answer to another (DispatchMsgService.cpp:209-256).                     *)
(***************************************************************************)
Writes(r) == {p \in Conns \X (1 .. Cardinality(Requests)) :
                p[2] \in DOMAIN sent[p[1]] /\ sent[p[1]][p[2]] = r}

StrayAnswersConfined ==
  \A r \in Requests :
    /\ Cardinality(Writes(r)) <= 1
    /\ \A p \in Writes(r) : p[1] # r[1] => link[r[1]] = "closed"

(***************************************************************************)
(* A client that waits for its answers leaves nothing behind in the        *)
(* evbuffer: what the server has received it has read.  Bytes left there   *)
(* would wait for a callback that only further bytes bring                 *)
(* (NetworkInterface.cpp:156-160, 206-208).                                *)
(***************************************************************************)
InputConsumed ==
  \A s \in Live :
    sess[s].stat = "request" /\ Undisturbed(sess[s].conn)
      => sess[s].conn \in Pipeliners \/ input[sess[s].conn] = <<>>

SentTo(r) == \E i \in DOMAIN sent[r[1]] : sent[r[1]][i] = r

(***************************************************************************)
(* A mobile request that was sent is answered, unless the pool refused it, *)
(* or its connection ended or was sent the response to another's request,  *)
(* which its client cannot tell from its own (NetworkInterface.cpp:152-236;*)
(* DispatchMsgService.cpp:54-95, 227-249).                                 *)
(***************************************************************************)
MobileAnswered ==
  \A r \in (Conns \ Pipeliners) \X (1 .. MaxRequests) :
    kind[r] = "mobile" ~> \/ SentTo(r) \/ r \in refused
                          \/ link[r[1]] = "closed" \/ ~Undisturbed(r[1])

-----------------------------------------------------------------------------
(***************************************************************************)
(* What comments of the code say, which the code does not keep.            *)
(***************************************************************************)

\* DispatchMsgService.cpp:204 says of handleAllResponseEvent that it handles
\* all response events: it pops no response of an open connection in vain.
AllResponsesHandled == \A r \in unsent : link[r[1]] = "closed"

\* DispatchMsgService.cpp:232-233 says that args_ gives the session whose
\* response the event is: a response is written to the one who asked.
AnswerReachesAsker ==
  \A c \in Conns : \A i \in DOMAIN sent[c] : sent[c][i][1] = c

\* NetworkInterface.cpp:224 says that the event goes to the queue and is
\* processed by the pool: a session does not wait for a request nobody has.
WaitingSessionHasRequest ==
  \A s \in Live : sess[s].stat = "response" => sess[s].req \in InFlight
=============================================================================
