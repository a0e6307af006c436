---------------------------- MODULE RequestReply ----------------------------
(***************************************************************************)
(* One client's requests over one connection: Client::write with its       *)
(* timeout on one side, Connection's read, callback and write on the       *)
(* other.  The connection is accepted and stays open (TransportServer has  *)
(* its life and its end).                                                  *)
(*                                                                         *)
(* A request is a number, counted by the client, and its reply is the same *)
(* number: no packet says which request it answers.  The two directions    *)
(* are byte streams with a delimiter after each message.  A reader waits   *)
(* for a delimiter and then takes the whole of what it has read, which may *)
(* be more than one message, or run into the next one.  What such a read   *)
(* returns, and the rest it leaves of a message, is Garbled: it answers no *)
(* request.  A message is taken not to contain the delimiter.              *)
(***************************************************************************)
EXTENDS Naturals, Sequences

CONSTANT MaxRequests    \* bound: requests of the client

ASSUME MaxRequestsAssumption == MaxRequests \in Nat

VARIABLES
  pc,        \* the client: "idle", or in write "drained", "waiting"
  n,         \* the requests sent; the last one is number n
  requests,  \* the stream to the server
  hand,      \* the message in the server's callback, as a sequence of at most one
  replies,   \* the stream to the client, in flight or arrived
  arrived,   \* how many of its messages have arrived
  reply,     \* what the last write returned
  \* Variables that only record what happened.
  executed,  \* the last request the server executed
  answered,  \* the latest request whose reply the client was given
  settled    \* at the last call of write, had the server answered all requests,
             \* and had all of the answers arrived?

vars == <<pc, n, requests, hand, replies, arrived, reply, executed, answered, settled>>

Garbled == 0
TimedOut == MaxRequests + 1
Request == 1 .. MaxRequests
Content == Request \cup {Garbled}

TypeOK ==
  /\ pc \in {"idle", "drained", "waiting"}
  /\ n \in 0 .. MaxRequests
  /\ requests \in Seq(Content)
  /\ hand \in Seq(Content) /\ Len(hand) <= 1
  /\ replies \in Seq(Content)
  /\ arrived \in 0 .. Len(replies)
  /\ reply \in Content \cup {TimedOut}
  /\ executed \in 0 .. MaxRequests
  /\ answered \in 0 .. MaxRequests
  /\ settled \in BOOLEAN

Init ==
  /\ pc = "idle"
  /\ n = 0
  /\ requests = << >>
  /\ hand = << >>
  /\ replies = << >>
  /\ arrived = 0
  /\ reply = TimedOut
  /\ executed = 0
  /\ answered = 0
  /\ settled = TRUE

-----------------------------------------------------------------------------
\* What is left of stream s after its first k messages.
After(s, k) == SubSeq(s, k + 1, Len(s))

\* A part of the first message is gone.
Torn(s) == [s EXCEPT ![1] = Garbled]

\* A read of s takes k messages and returns content; or it takes a part of the
\* next message too, and returns nothing of use.  rest is left.
Reads(s, k, content, rest) ==
  \/ /\ content = IF k = 1 THEN s[1] ELSE Garbled
     /\ rest = After(s, k)
  \/ /\ k < Len(s)
     /\ content = Garbled
     /\ rest = Torn(After(s, k))

\* Faulty variant: write does not clear the socket first.
DrainNothing ==
  /\ pc = "idle" /\ n < MaxRequests
  /\ pc' = "drained"
  /\ settled' = (requests = << >> /\ hand = << >> /\ arrived = Len(replies))
  /\ UNCHANGED <<n, requests, hand, replies, arrived, reply, executed, answered>>

\* Client::write discards what has arrived; the last read of it may run into a
\* message that has not arrived as a whole ...
Drain ==
  /\ pc = "idle" /\ n < MaxRequests
  /\ pc' = "drained"
  /\ \/ replies' = After(replies, arrived)
     \/ arrived \in 1 .. Len(replies) - 1 /\ replies' = Torn(After(replies, arrived))
  /\ arrived' = 0
  /\ settled' = (requests = << >> /\ hand = << >> /\ arrived = Len(replies))
  /\ UNCHANGED <<n, requests, hand, reply, executed, answered>>

\* ... and sends the request.
Send ==
  /\ pc = "drained"
  /\ pc' = "waiting"
  /\ n' = n + 1
  /\ requests' = Append(requests, n + 1)
  /\ UNCHANGED <<hand, replies, arrived, reply, executed, answered, settled>>

\* readWithTimeOut: the read completes and cancels the timer.
Receive ==
  /\ pc = "waiting"
  /\ pc' = "idle"
  /\ \E k \in 1 .. arrived :
       /\ Reads(replies, k, reply', replies')
       /\ arrived' = arrived - k
  /\ answered' = IF reply' = Garbled THEN answered ELSE reply'
  /\ UNCHANGED <<n, requests, hand, executed, settled>>

\* readWithTimeOut: the timer is first and cancels the read, which loses what it
\* has read of a message.
Timeout ==
  /\ pc = "waiting"
  /\ pc' = "idle"
  /\ reply' = TimedOut
  /\ \/ replies' = replies
     \/ replies # << >> /\ replies' = Torn(replies)
  /\ UNCHANGED <<n, requests, hand, arrived, executed, answered, settled>>

-----------------------------------------------------------------------------
\* Faulty variant: the next read does not wait until the reply is written.
ServerReadsAhead ==
  /\ requests # << >>
  /\ requests' = Tail(requests)
  /\ hand' = Append(hand, requests[1])
  /\ executed' = IF requests[1] = Garbled THEN executed ELSE requests[1]
  /\ UNCHANGED <<pc, n, replies, arrived, reply, answered, settled>>

\* Faulty variant: the buffer is not consumed.
ServerReadsAgain ==
  /\ hand = << >>
  /\ requests # << >>
  /\ hand' = <<requests[1]>>
  /\ executed' = IF requests[1] = Garbled THEN executed ELSE requests[1]
  /\ UNCHANGED <<pc, n, requests, replies, arrived, reply, answered, settled>>

\* Connection::doRead's handler gives what was read to the callback, which
\* executes a request or finds that it cannot parse it.
ServerReads ==
  /\ hand = << >>
  /\ \E k \in 1 .. Len(requests), content \in Content :
       /\ Reads(requests, k, content, requests')
       /\ hand' = <<content>>
       /\ executed' = IF content = Garbled THEN executed ELSE content
  /\ UNCHANGED <<pc, n, replies, arrived, reply, answered, settled>>

\* Connection::doWrite: the reply, or the error, goes to the client.
ServerReplies ==
  /\ hand # << >>
  /\ replies' = replies \o hand
  /\ hand' = << >>
  /\ UNCHANGED <<pc, n, requests, arrived, reply, executed, answered, settled>>

Arrive ==
  /\ arrived < Len(replies)
  /\ arrived' = arrived + 1
  /\ UNCHANGED <<pc, n, requests, hand, replies, reply, executed, answered, settled>>

ClientWrites == Drain \/ Send \/ Receive \/ Timeout
Server == ServerReads \/ ServerReplies
Next == ClientWrites \/ Server \/ Arrive

Spec == Init /\ [][Next]_vars

-----------------------------------------------------------------------------
WriteReturns == pc = "waiting" /\ pc' = "idle"

\* However many writes have timed out and whatever late replies came: once the
\* server has answered everything and the answers have arrived, the next write
\* returns the reply to its own request, or times out (Client.cpp:60-65).
SettledRepliesAreOwn == [][WriteReturns /\ settled => reply' \in {n, TimedOut}]_vars

\* The server executes no request twice, none that was not sent, and none before
\* an earlier one, although requests may be lost (Connection.cpp:113-118).
ExecutedInOrder ==
  [][hand = << >> /\ hand' # << >> /\ hand'[1] # Garbled
       => hand'[1] > executed /\ hand'[1] <= n]_vars

\* The client is given no reply twice, none to a request that was not executed,
\* and none to an earlier request after one to a later (Client.cpp:57-75).
RepliesInOrder ==
  [][WriteReturns /\ reply' \in Request => reply' > answered /\ reply' <= executed]_vars

\* What write returns, if it can be parsed, is the reply to its request: "If server replied within timeout, the
\* optional output would be filled with value. If server didn't reply within
\* timeout, the optional output would be filled with boost::none"
\* (Client.hpp:41-43).
ReplyAnswersRequest == [][WriteReturns => reply' \in {n, Garbled, TimedOut}]_vars

=============================================================================
