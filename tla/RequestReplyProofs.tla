------------------------- MODULE RequestReplyProofs -------------------------
(* Theorems on RequestReply, for any number of requests.                   *)
EXTENDS RequestReply, TLAPS

-----------------------------------------------------------------------------
(* What is left of a stream.                                               *)

\* rest is s without its first k messages, where some may have become Garbled.
IsRest(rest, s, k) ==
  /\ rest \in Seq(Content)
  /\ Len(rest) = Len(s) - k
  /\ \A i \in 1 .. Len(rest) : rest[i] = s[i + k] \/ rest[i] = Garbled

LEMMA AfterIsRest ==
  ASSUME NEW s \in Seq(Content), NEW k \in 0 .. Len(s)
  PROVE  IsRest(After(s, k), s, k)
<1>1. After(s, k) \in Seq(Content)
  BY DEF After
<1>2. Len(After(s, k)) = Len(s) - k
  BY DEF After
<1>3. \A i \in 1 .. Len(After(s, k)) : After(s, k)[i] = s[i + k]
  BY DEF After
<1> QED
  BY <1>1, <1>2, <1>3 DEF IsRest

LEMMA TornIsRest ==
  ASSUME NEW s \in Seq(Content), NEW k \in 0 .. Len(s), k < Len(s)
  PROVE  IsRest(Torn(After(s, k)), s, k)
<1> DEFINE t == After(s, k)
<1>1. IsRest(t, s, k)
  BY AfterIsRest
<1>2. t \in Seq(Content) /\ Len(t) > 0
  BY <1>1 DEF IsRest
<1> HIDE DEF t
<1>3. Garbled \in Content
  BY DEF Content
<1>4. Torn(t) \in Seq(Content) /\ Len(Torn(t)) = Len(t)
  BY <1>2, <1>3 DEF Torn
<1>5. \A i \in 1 .. Len(t) : Torn(t)[i] = t[i] \/ Torn(t)[i] = Garbled
  BY <1>2 DEF Torn
<1>6. IsRest(Torn(t), s, k)
  BY <1>1, <1>4, <1>5 DEF IsRest
<1> QED
  BY <1>6 DEF t

LEMMA TornKeepsLength ==
  ASSUME NEW s \in Seq(Content), s # << >>
  PROVE  IsRest(Torn(s), s, 0)
<1>1. Garbled \in Content
  BY DEF Content
<1>2. Torn(s) \in Seq(Content) /\ Len(Torn(s)) = Len(s)
  BY <1>1 DEF Torn
<1>3. \A i \in 1 .. Len(s) : Torn(s)[i] = s[i] \/ Torn(s)[i] = Garbled
  BY DEF Torn
<1> QED
  BY <1>2, <1>3 DEF IsRest

LEMMA NothingIsTaken ==
  ASSUME NEW s \in Seq(Content)
  PROVE  IsRest(s, s, 0)
BY DEF IsRest

\* A read takes the head and leaves the tail as it is, or returns Garbled.
LEMMA ReadsSplit ==
  ASSUME NEW s \in Seq(Content), NEW k \in 1 .. Len(s),
         NEW content, NEW rest, Reads(s, k, content, rest)
  PROVE  /\ IsRest(rest, s, k)
         /\ content \in Content
         /\ content # Garbled => k = 1 /\ content = s[1]
         /\ k = Len(s) => rest = << >>
         /\ Len(s) = 1 => content = s[1]
<1>1. k \in 0 .. Len(s) /\ s[1] \in Content /\ Garbled \in Content
  BY DEF Content
<1>2. CASE content = (IF k = 1 THEN s[1] ELSE Garbled) /\ rest = After(s, k)
  <2>1. IsRest(rest, s, k)
    BY <1>1, <1>2, AfterIsRest
  <2>2. k = Len(s) => rest = << >>
    BY <2>1 DEF IsRest
  <2>3. CASE k = 1
    BY <1>1, <1>2, <2>1, <2>2, <2>3
  <2>4. CASE k # 1
    <3>1. Len(s) # 1
      <4>1. \A x \in Nat : k \in 1 .. x => x # 1
        BY <2>4
      <4> QED
        BY <4>1
    <3>2. content = Garbled
      BY <1>2, <2>4
    <3> QED
      BY <1>1, <2>1, <2>2, <3>1, <3>2
  <2> QED
    BY <2>3, <2>4
<1>3. CASE k < Len(s) /\ content = Garbled /\ rest = Torn(After(s, k))
  <2>1. IsRest(rest, s, k)
    BY <1>1, <1>3, TornIsRest
  <2>2. Len(s) # 1
    <3>1. \A x \in Nat : k \in 1 .. x /\ k < x => x # 1
      OBVIOUS
    <3> QED
      BY <1>3, <3>1
  <2>3. k # Len(s)
    BY <1>3
  <2> QED
    BY <1>1, <1>3, <2>1, <2>2, <2>3
<1> QED
  BY <1>2, <1>3 DEF Reads

-----------------------------------------------------------------------------
(* Types.                                                                  *)

DrainedCanSend == pc = "drained" => n < MaxRequests

TypeInv == TypeOK /\ DrainedCanSend

LEMMA TypeInvInductive == Spec => []TypeInv
<1>1. Init => TypeInv
  BY MaxRequestsAssumption DEF Init, TypeInv, TypeOK, DrainedCanSend, Request, Content, Garbled, TimedOut
<1>2. TypeInv /\ [Next]_vars => TypeInv'
  <2> SUFFICES ASSUME TypeInv, [Next]_vars PROVE TypeInv'
    OBVIOUS
  <2> USE MaxRequestsAssumption DEF TypeInv, DrainedCanSend
  <2>types. Garbled \in Content
    BY DEF Content
  <2>1. CASE Drain
    <3>1. arrived \in 0 .. Len(replies) /\ replies \in Seq(Content)
      BY DEF TypeOK
    <3>2. \E k \in 0 .. Len(replies) : IsRest(replies', replies, k)
      BY <2>1, <3>1, AfterIsRest, TornIsRest DEF Drain
    <3>3. replies' \in Seq(Content) /\ 0 \in 0 .. Len(replies')
      BY <3>2 DEF IsRest
    <3> QED
      BY <2>1, <3>3 DEF Drain, TypeOK
  <2>2. CASE Send
    <3>1. n + 1 \in Content /\ n + 1 \in 0 .. MaxRequests
      BY <2>2 DEF Send, TypeOK, Content, Request
    <3>2. requests' \in Seq(Content)
      BY <2>2, <3>1 DEF Send, TypeOK
    <3> QED
      BY <2>2, <3>1, <3>2 DEF Send, TypeOK
  <2>3. CASE Receive
    <3>1. PICK k \in 1 .. arrived : Reads(replies, k, reply', replies') /\ arrived' = arrived - k
      BY <2>3 DEF Receive
    <3>2. k \in 1 .. Len(replies) /\ replies \in Seq(Content)
      BY <3>1 DEF TypeOK
    <3>3. IsRest(replies', replies, k) /\ reply' \in Content
      BY <3>1, <3>2, ReadsSplit
    <3>4. replies' \in Seq(Content) /\ arrived' \in 0 .. Len(replies')
      BY <3>1, <3>2, <3>3 DEF IsRest, TypeOK
    <3>5. reply' # Garbled => reply' \in 0 .. MaxRequests
      BY <3>3 DEF Content, Request
    <3>6. answered' \in 0 .. MaxRequests
      BY <2>3, <3>5 DEF Receive, TypeOK
    <3> QED
      BY <2>3, <3>3, <3>4, <3>6 DEF Receive, TypeOK
  <2>4. CASE Timeout
    <3>1. IsRest(replies', replies, 0)
      BY <2>4, TornKeepsLength, NothingIsTaken DEF Timeout, TypeOK
    <3>2. replies' \in Seq(Content) /\ Len(replies') = Len(replies)
      BY <3>1 DEF IsRest, TypeOK
    <3> QED
      BY <2>4, <3>2 DEF Timeout, TypeOK
  <2>5. CASE ServerReads
    <3>1. PICK k \in 1 .. Len(requests), content \in Content :
            /\ Reads(requests, k, content, requests')
            /\ hand' = <<content>>
            /\ executed' = IF content = Garbled THEN executed ELSE content
      BY <2>5 DEF ServerReads
    <3>2. requests' \in Seq(Content)
      BY <3>1, ReadsSplit DEF TypeOK, IsRest
    <3>3. hand' \in Seq(Content) /\ Len(hand') <= 1
      BY <3>1
    <3>4. content # Garbled => content \in 0 .. MaxRequests
      BY <3>1 DEF Content, Request
    <3>5. executed' \in 0 .. MaxRequests
      BY <3>1, <3>4 DEF TypeOK
    <3> QED
      BY <2>5, <3>2, <3>3, <3>5 DEF ServerReads, TypeOK
  <2>6. CASE ServerReplies
    <3>1. replies' \in Seq(Content) /\ Len(replies') = Len(replies) + Len(hand)
      BY <2>6 DEF ServerReplies, TypeOK
    <3>2. arrived \in 0 .. Len(replies')
      BY <3>1 DEF TypeOK
    <3> QED
      BY <2>6, <3>1, <3>2 DEF ServerReplies, TypeOK
  <2>7. CASE Arrive
    BY <2>7 DEF Arrive, TypeOK
  <2>8. CASE UNCHANGED vars
    BY <2>8 DEF vars, TypeOK
  <2> QED
    BY <2>1, <2>2, <2>3, <2>4, <2>5, <2>6, <2>7, <2>8 DEF Next, ClientWrites, Server
<1> QED
  BY <1>1, <1>2, PTL DEF Spec

\* Everything keeps its type, and no more than one message is in the callback.
THEOREM RequestReplyTypeCorrect == Spec => []TypeOK
<1>1. TypeInv => TypeOK
  BY DEF TypeInv
<1> QED
  BY <1>1, TypeInvInductive, PTL

-----------------------------------------------------------------------------
(* Order.  Leaving Garbled aside, request numbers increase along the way    *)
(* that a request and its reply take: from the client's answers through     *)
(* replies, hand and requests to the last number sent.                      *)

Increasing(s) ==
  \A i, j \in 1 .. Len(s) : i < j /\ s[i] # Garbled /\ s[j] # Garbled => s[i] < s[j]

\* All of s is later than a, and not later than b.
Between(s, a, b) == \A i \in 1 .. Len(s) : s[i] # Garbled => a < s[i] /\ s[i] <= b

HandIsLast ==
  \A i \in 1 .. Len(replies), j \in 1 .. Len(hand) :
    replies[i] # Garbled /\ hand[j] # Garbled => replies[i] < hand[j]

OrderInv ==
  /\ answered <= executed
  /\ executed <= n
  /\ Increasing(replies) /\ Between(replies, answered, executed)
  /\ HandIsLast /\ Between(hand, answered, executed)
  /\ Increasing(requests) /\ Between(requests, executed, n)

\* What is left of an increasing stream increases, and keeps its limits.
LEMMA RestKeepsOrder ==
  ASSUME NEW s \in Seq(Content), NEW k \in 0 .. Len(s), NEW rest, IsRest(rest, s, k),
         NEW a \in Nat, NEW b \in Nat, Increasing(s), Between(s, a, b)
  PROVE  Increasing(rest) /\ Between(rest, a, b)
<1>1. \A i \in 1 .. Len(rest) :
        /\ i + k \in 1 .. Len(s)
        /\ rest[i] # Garbled => rest[i] = s[i + k]
  BY DEF IsRest
<1>2. Increasing(rest)
  <2> SUFFICES ASSUME NEW i \in 1 .. Len(rest), NEW j \in 1 .. Len(rest), i < j,
                      rest[i] # Garbled, rest[j] # Garbled
               PROVE  rest[i] < rest[j]
    BY DEF Increasing
  <2>1. i + k < j + k
    OBVIOUS
  <2> QED
    BY <1>1, <2>1 DEF Increasing
<1>3. Between(rest, a, b)
  BY <1>1 DEF Between
<1> QED
  BY <1>2, <1>3

\* After the head of an increasing stream comes only what is later.
LEMMA RestIsLater ==
  ASSUME NEW s \in Seq(Content), Len(s) >= 1, NEW rest, IsRest(rest, s, 1),
         NEW a \in Nat, NEW b \in Nat, Increasing(s), Between(s, a, b), s[1] # Garbled
  PROVE  Between(rest, s[1], b)
<1> SUFFICES ASSUME NEW i \in 1 .. Len(rest), rest[i] # Garbled
             PROVE  s[1] < rest[i] /\ rest[i] <= b
  BY DEF Between
<1>1. i + 1 \in 1 .. Len(s) /\ 1 \in 1 .. Len(s) /\ 1 < i + 1
  BY DEF IsRest
<1>2. rest[i] = s[i + 1]
  BY DEF IsRest
<1> QED
  BY <1>1, <1>2 DEF Increasing, Between

LEMMA OrderInvInductive == Spec => []OrderInv
<1>1. Init => OrderInv
  BY DEF Init, OrderInv, Increasing, Between, HandIsLast
<1>2. TypeInv /\ OrderInv /\ [Next]_vars => OrderInv'
  <2> SUFFICES ASSUME TypeOK, OrderInv, [Next]_vars PROVE OrderInv'
    BY DEF TypeInv
  <2>types. /\ replies \in Seq(Content) /\ hand \in Seq(Content) /\ requests \in Seq(Content)
        /\ answered \in Nat /\ executed \in Nat /\ n \in Nat
        /\ arrived \in 0 .. Len(replies)
    BY MaxRequestsAssumption DEF TypeOK
  \* A reply that is lost or torn changes nothing for the others.
  <2>a. ASSUME NEW k \in 0 .. Len(replies), IsRest(replies', replies, k),
               UNCHANGED <<n, requests, hand, executed, answered>>
        PROVE  OrderInv'
    <3>1. Increasing(replies') /\ Between(replies', answered, executed)
      BY <2>types, <2>a, RestKeepsOrder DEF OrderInv
    <3>2. \A i \in 1 .. Len(replies') :
            /\ i + k \in 1 .. Len(replies)
            /\ replies'[i] # Garbled => replies'[i] = replies[i + k]
      BY <2>types, <2>a DEF IsRest
    <3>3. HandIsLast'
      BY <2>a, <3>2 DEF HandIsLast, OrderInv
    <3> QED
      BY <2>a, <3>1, <3>3 DEF OrderInv
  <2>1. CASE Drain
    <3>1. \E k \in 0 .. Len(replies) : IsRest(replies', replies, k)
      BY <2>1, <2>types, AfterIsRest, TornIsRest DEF Drain
    <3> QED
      BY <2>1, <3>1, <2>a DEF Drain
  <2>2. CASE Send
    <3>1. n' = n + 1 /\ requests' = Append(requests, n + 1)
      BY <2>2 DEF Send
    <3>2. Len(requests') = Len(requests) + 1
      BY <2>types, <3>1
    <3>3. \A i \in 1 .. Len(requests') :
            \/ i \in 1 .. Len(requests) /\ requests'[i] = requests[i]
            \/ i = Len(requests) + 1 /\ requests'[i] = n + 1
      BY <2>types, <3>1, <3>2
    <3>4. \A i \in 1 .. Len(requests) :
            requests[i] # Garbled => executed < requests[i] /\ requests[i] <= n
      BY DEF OrderInv, Between
    <3>5. Increasing(requests')
      <4> SUFFICES ASSUME NEW i \in 1 .. Len(requests'), NEW j \in 1 .. Len(requests'), i < j,
                          requests'[i] # Garbled, requests'[j] # Garbled
                   PROVE  requests'[i] < requests'[j]
        BY DEF Increasing
      <4>1. i \in 1 .. Len(requests) /\ requests'[i] = requests[i] /\ requests[i] \in Nat
        BY <2>types, <3>2, <3>3 DEF Content, Request, Garbled
      <4>2. CASE j \in 1 .. Len(requests) /\ requests'[j] = requests[j]
        BY <4>1, <4>2 DEF OrderInv, Increasing
      <4>3. CASE requests'[j] = n + 1
        BY <4>1, <4>3, <3>4, <2>types
      <4> QED
        BY <4>2, <4>3, <3>3
    <3>6. Between(requests', executed, n + 1)
      <4> SUFFICES ASSUME NEW i \in 1 .. Len(requests'), requests'[i] # Garbled
                   PROVE  executed < requests'[i] /\ requests'[i] <= n + 1
        BY DEF Between
      <4>1. CASE i \in 1 .. Len(requests) /\ requests'[i] = requests[i]
        <5>1. requests[i] \in Nat
          BY <2>types, <4>1 DEF Content, Request, Garbled
        <5> QED
          BY <4>1, <5>1, <3>4, <2>types
      <4>2. CASE requests'[i] = n + 1
        BY <4>2, <2>types DEF OrderInv
      <4> QED
        BY <4>1, <4>2, <3>3
    <3>7. UNCHANGED <<hand, replies, executed, answered>>
      BY <2>2 DEF Send
    <3>8. executed <= n + 1
      BY <2>types DEF OrderInv
    <3> QED
      BY <3>1, <3>5, <3>6, <3>7, <3>8 DEF OrderInv, HandIsLast
  <2>3. CASE Receive
    <3>1. PICK k \in 1 .. arrived : Reads(replies, k, reply', replies') /\ arrived' = arrived - k
      BY <2>3 DEF Receive
    <3>2. k \in 1 .. Len(replies) /\ k \in 0 .. Len(replies)
      BY <2>types
    <3>3. IsRest(replies', replies, k) /\ (reply' # Garbled => k = 1 /\ reply' = replies[1])
      BY <2>types, <3>1, <3>2, ReadsSplit
    <3>4. UNCHANGED <<n, requests, hand, executed>>
      BY <2>3 DEF Receive
    <3>5. CASE reply' = Garbled
      <4>1. answered' = answered
        BY <2>3, <3>5 DEF Receive
      <4> QED
        BY <3>2, <3>3, <3>4, <4>1, <2>a
    <3>6. CASE reply' # Garbled
      <4>1. answered' = replies[1] /\ replies[1] # Garbled /\ Len(replies) >= 1
        BY <2>3, <3>2, <3>3, <3>6 DEF Receive
      <4>2. k = 1 /\ IsRest(replies', replies, 1)
        BY <3>3, <3>6
      <4>3. Increasing(replies') /\ Between(replies', replies[1], executed)
        BY <2>types, <3>2, <3>3, <4>1, <4>2, RestKeepsOrder, RestIsLater DEF OrderInv
      <4>4. \A i \in 1 .. Len(replies') :
              /\ i + 1 \in 1 .. Len(replies)
              /\ replies'[i] # Garbled => replies'[i] = replies[i + 1]
        BY <2>types, <4>2 DEF IsRest
      <4>5. HandIsLast'
        BY <3>4, <4>4 DEF HandIsLast, OrderInv
      <4>6. 1 \in 1 .. Len(replies) /\ replies[1] \in Nat
        BY <2>types, <4>1 DEF Content, Request, Garbled
      <4>7. Between(hand, replies[1], executed)
        BY <4>1, <4>6 DEF OrderInv, HandIsLast, Between
      <4>8. replies[1] <= executed
        BY <4>1, <4>6 DEF OrderInv, Between
      <4> QED
        BY <3>4, <4>1, <4>3, <4>5, <4>7, <4>8 DEF OrderInv
    <3> QED
      BY <3>5, <3>6
  <2>4. CASE Timeout
    <3>1. IsRest(replies', replies, 0)
      BY <2>4, <2>types, TornKeepsLength, NothingIsTaken DEF Timeout
    <3>2. 0 \in 0 .. Len(replies)
      BY <2>types
    <3> QED
      BY <2>4, <3>1, <3>2, <2>a DEF Timeout
  <2>5. CASE ServerReads
    <3>1. PICK k \in 1 .. Len(requests), content \in Content :
            /\ Reads(requests, k, content, requests')
            /\ hand' = <<content>>
            /\ executed' = IF content = Garbled THEN executed ELSE content
      BY <2>5 DEF ServerReads
    <3>2. IsRest(requests', requests, k) /\ (content # Garbled => k = 1 /\ content = requests[1])
      BY <2>types, <3>1, ReadsSplit
    <3>3. UNCHANGED <<n, replies, answered>>
      BY <2>5 DEF ServerReads
    <3>4. Increasing(requests') /\ Between(requests', executed, n)
      BY <2>types, <3>2, RestKeepsOrder DEF OrderInv
    <3>5. Len(hand') = 1 /\ hand'[1] = content
      BY <3>1
    <3>6. CASE content = Garbled
      <4>1. executed' = executed
        BY <3>1, <3>6
      <4>2. \A j \in 1 .. Len(hand') : hand'[j] = Garbled
        BY <3>5, <3>6
      <4>3. HandIsLast' /\ Between(hand', answered, executed)
        BY <4>2 DEF HandIsLast, Between
      <4> QED
        BY <3>3, <3>4, <4>1, <4>3 DEF OrderInv
    <3>7. CASE content # Garbled
      <4>1. executed' = content /\ content = requests[1] /\ k = 1
        BY <3>1, <3>2, <3>7
      <4>2. content \in Nat /\ 1 \in 1 .. Len(requests) /\ Len(requests) >= 1
        BY <2>types, <3>1 DEF Content, Request, Garbled
      <4>3. executed < content /\ content <= n
        BY <3>7, <4>1, <4>2 DEF OrderInv, Between
      <4>4. Between(requests', content, n)
        <5>1. requests[1] # Garbled /\ IsRest(requests', requests, 1)
          BY <3>2, <3>7, <4>1
        <5> QED
          BY <2>types, <4>1, <4>2, <5>1, RestIsLater DEF OrderInv
      <4>5. answered < content
        BY <2>types, <4>2, <4>3 DEF OrderInv
      <4>6. Between(hand', answered, content)
        BY <3>5, <4>2, <4>5 DEF Between
      <4>7. \A i \in 1 .. Len(replies) : replies[i] # Garbled =>
              /\ replies[i] \in Nat
              /\ answered < replies[i] /\ replies[i] <= executed
        BY <2>types DEF OrderInv, Between, Content, Request, Garbled
      <4>8. \A i \in 1 .. Len(replies) : replies[i] # Garbled =>
              replies[i] < content /\ replies[i] <= content
        BY <2>types, <4>2, <4>3, <4>7
      <4>9. HandIsLast' /\ Between(replies, answered, content)
        <5>1. HandIsLast'
          BY <3>3, <3>5, <4>8 DEF HandIsLast
        <5>2. Between(replies, answered, content)
          BY <4>7, <4>8 DEF Between
        <5> QED
          BY <5>1, <5>2
      <4>10. answered <= content
        BY <2>types, <4>2, <4>5
      <4> QED
        BY <3>3, <3>4, <4>1, <4>3, <4>4, <4>6, <4>9, <4>10 DEF OrderInv
    <3> QED
      BY <3>6, <3>7
  <2>6. CASE ServerReplies
    <3>1. replies' = replies \o hand /\ hand' = << >> /\ Len(hand') = 0
      BY <2>6 DEF ServerReplies
    <3>2. UNCHANGED <<n, requests, executed, answered>>
      BY <2>6 DEF ServerReplies
    <3>3. Len(hand) \in 0 .. 1 /\ Len(replies') = Len(replies) + Len(hand)
      <4>1. Len(hand) <= 1
        BY DEF TypeOK
      <4>2. Len(hand) \in Nat
        BY <2>types
      <4>4. Len(hand) \in 0 .. 1
        <5>1. \A x \in Nat : x <= 1 => x \in 0 .. 1
          OBVIOUS
        <5> QED
          BY <4>1, <4>2, <5>1
      <4>3. Len(replies') = Len(replies) + Len(hand)
        BY <2>types, <3>1
      <4> QED
        BY <4>3, <4>4
    <3>4. \A i \in 1 .. Len(replies') :
            \/ i \in 1 .. Len(replies) /\ replies'[i] = replies[i]
            \/ i = Len(replies) + 1 /\ 1 \in 1 .. Len(hand) /\ replies'[i] = hand[1]
      BY <2>types, <3>1, <3>3
    <3>5. Between(replies', answered, executed)
      BY <3>4 DEF OrderInv, Between
    <3>6. Increasing(replies')
      <4> SUFFICES ASSUME NEW i \in 1 .. Len(replies'), NEW j \in 1 .. Len(replies'), i < j,
                          replies'[i] # Garbled, replies'[j] # Garbled
                   PROVE  replies'[i] < replies'[j]
        BY DEF Increasing
      <4>1. i \in 1 .. Len(replies) /\ replies'[i] = replies[i]
        BY <2>types, <3>3, <3>4
      <4>2. CASE j \in 1 .. Len(replies) /\ replies'[j] = replies[j]
        BY <4>1, <4>2 DEF OrderInv, Increasing
      <4>3. CASE 1 \in 1 .. Len(hand) /\ replies'[j] = hand[1]
        BY <4>1, <4>3 DEF OrderInv, HandIsLast
      <4> QED
        BY <4>2, <4>3, <3>4
    <3>7. HandIsLast' /\ Between(hand', answered, executed)
      BY <3>1 DEF HandIsLast, Between
    <3> QED
      BY <3>2, <3>5, <3>6, <3>7 DEF OrderInv
  <2>7. CASE Arrive
    BY <2>7 DEF Arrive, OrderInv, HandIsLast
  <2>8. CASE UNCHANGED vars
    BY <2>8 DEF vars, OrderInv, HandIsLast
  <2> QED
    BY <2>1, <2>2, <2>3, <2>4, <2>5, <2>6, <2>7, <2>8 DEF Next, ClientWrites, Server
<1> QED
  BY <1>1, <1>2, TypeInvInductive, PTL DEF Spec

\* No request is executed twice, and none before an earlier one.
THEOREM RequestsExecutedInOrder == Spec => ExecutedInOrder
<1>1. TypeInv /\ OrderInv /\ [Next]_vars
        => [hand = << >> /\ hand' # << >> /\ hand'[1] # Garbled
              => hand'[1] > executed /\ hand'[1] <= n]_vars
  <2> SUFFICES ASSUME TypeOK, OrderInv, Next, hand = << >>, hand' # << >>, hand'[1] # Garbled
               PROVE  hand'[1] > executed /\ hand'[1] <= n
    BY DEF TypeInv
  <2>1. ServerReads
    BY DEF Next, ClientWrites, Server, Drain, Send, Receive, Timeout, ServerReplies, Arrive
  <2>2. PICK k \in 1 .. Len(requests), content \in Content :
          /\ Reads(requests, k, content, requests')
          /\ hand' = <<content>>
    BY <2>1 DEF ServerReads
  <2>3. requests \in Seq(Content) /\ executed \in Nat /\ n \in Nat
    BY MaxRequestsAssumption DEF TypeOK
  <2>4. hand'[1] = content /\ content # Garbled
    BY <2>2
  <2>5. content = requests[1] /\ 1 \in 1 .. Len(requests)
    BY <2>2, <2>3, <2>4, ReadsSplit
  <2>6. executed < content /\ content <= n
    BY <2>4, <2>5 DEF OrderInv, Between
  <2>7. content \in Nat
    BY <2>2 DEF Content, Request, Garbled
  <2> QED
    BY <2>3, <2>4, <2>6, <2>7
<1> QED
  BY <1>1, TypeInvInductive, OrderInvInductive, PTL DEF Spec, ExecutedInOrder

\* No reply is given twice, and none to an earlier request after one to a later.
THEOREM RepliesGivenInOrder == Spec => RepliesInOrder
<1>1. TypeInv /\ OrderInv /\ [Next]_vars
        => [WriteReturns /\ reply' \in Request => reply' > answered /\ reply' <= executed]_vars
  <2> SUFFICES ASSUME TypeOK, OrderInv, Next, WriteReturns, reply' \in Request
               PROVE  reply' > answered /\ reply' <= executed
    BY DEF TypeInv
  <2>types. reply' # Garbled /\ reply' # TimedOut
    BY MaxRequestsAssumption DEF Request, Garbled, TimedOut
  <2>1. Receive
    BY <2>types DEF Next, ClientWrites, Server, Drain, Send, Timeout, ServerReads, ServerReplies, Arrive, WriteReturns
  <2>2. PICK k \in 1 .. arrived : Reads(replies, k, reply', replies')
    BY <2>1 DEF Receive
  <2>3. replies \in Seq(Content) /\ k \in 1 .. Len(replies) /\ answered \in Nat /\ executed \in Nat
    BY MaxRequestsAssumption DEF TypeOK
  <2>4. reply' = replies[1] /\ 1 \in 1 .. Len(replies)
    BY <2>types, <2>2, <2>3, ReadsSplit
  <2>5. answered < reply' /\ reply' <= executed
    BY <2>types, <2>4 DEF OrderInv, Between
  <2>6. reply' \in Nat
    BY DEF Request
  <2> QED
    BY <2>3, <2>5, <2>6
<1> QED
  BY <1>1, TypeInvInductive, OrderInvInductive, PTL DEF Spec, RepliesInOrder

-----------------------------------------------------------------------------
(* Getting back in step.                                                   *)

\* If all was settled when write was called, then nothing but its own request
\* and the reply is on the way, in one place.
SettledInv ==
  /\ pc = "drained" /\ settled => replies = << >> /\ hand = << >> /\ requests = << >>
  /\ pc = "waiting" /\ settled =>
       /\ Len(replies) + Len(hand) + Len(requests) <= 1
       /\ \A i \in 1 .. Len(replies) : replies[i] = n
       /\ \A i \in 1 .. Len(hand) : hand[i] = n
       /\ \A i \in 1 .. Len(requests) : requests[i] = n

LEMMA OneInThree ==
  ASSUME NEW x \in Nat, NEW y \in Nat, NEW z \in Nat, x + y + z <= 1
  PROVE  /\ y >= 1 => x = 0 /\ y = 1 /\ z = 0
         /\ z >= 1 => x = 0 /\ y = 0 /\ z = 1
OBVIOUS

LEMMA SettledInvInductive == Spec => []SettledInv
<1>1. Init => SettledInv
  BY DEF Init, SettledInv
<1>2. TypeInv /\ SettledInv /\ [Next]_vars => SettledInv'
  <2> SUFFICES ASSUME TypeOK, SettledInv, [Next]_vars PROVE SettledInv'
    BY DEF TypeInv
  <2>types. /\ replies \in Seq(Content) /\ hand \in Seq(Content) /\ requests \in Seq(Content)
        /\ n \in Nat /\ arrived \in 0 .. Len(replies)
    BY MaxRequestsAssumption DEF TypeOK
  <2>len. Len(replies) \in Nat /\ Len(hand) \in Nat /\ Len(requests) \in Nat
    BY <2>types
  <2>1. CASE Drain
    <3>1. pc' = "drained"
      BY <2>1 DEF Drain
    <3>2. ASSUME settled' PROVE replies' = << >> /\ hand' = << >> /\ requests' = << >>
      <4>1. requests = << >> /\ hand = << >> /\ arrived = Len(replies) /\ UNCHANGED <<requests, hand>>
        BY <2>1, <3>2 DEF Drain
      <4>2. arrived \notin 1 .. Len(replies) - 1
        BY <4>1, <2>types
      <4>3. replies' = After(replies, arrived)
        BY <2>1, <4>2 DEF Drain
      <4>4. replies' = << >>
        BY <2>types, <4>1, <4>3, AfterIsRest DEF IsRest
      <4> QED
        BY <4>1, <4>4
    <3> QED
      BY <3>1, <3>2 DEF SettledInv
  <2>2. CASE Send
    <3>1. pc = "drained" /\ pc' = "waiting" /\ n' = n + 1 /\ requests' = Append(requests, n + 1)
          /\ UNCHANGED <<replies, hand, settled>>
      BY <2>2 DEF Send
    <3>2. ASSUME settled PROVE replies' = << >> /\ hand' = << >> /\ requests' = <<n + 1>>
      BY <3>1, <3>2 DEF SettledInv
    <3> QED
      BY <3>1, <3>2 DEF SettledInv
  <2>3. CASE Receive \/ Timeout
    BY <2>3 DEF Receive, Timeout, SettledInv
  <2>4. CASE ServerReads
    <3>1. PICK k \in 1 .. Len(requests), content \in Content :
            /\ Reads(requests, k, content, requests')
            /\ hand' = <<content>>
      BY <2>4 DEF ServerReads
    <3>2. hand = << >> /\ UNCHANGED <<pc, n, settled, replies>>
      BY <2>4 DEF ServerReads
    <3>3. Len(requests) >= 1
      BY <2>types, <3>1
    <3>4. ~ (pc = "drained" /\ settled)
      BY <3>3 DEF SettledInv
    <3>5. ASSUME pc = "waiting", settled
          PROVE  /\ Len(replies) = 0 /\ Len(requests') = 0
                 /\ Len(hand') = 1 /\ hand'[1] = n
      <4>1. Len(replies) + Len(hand) + Len(requests) <= 1
        BY <3>5 DEF SettledInv
      <4>2. Len(requests) = 1 /\ Len(replies) = 0
        BY <2>len, <3>3, <4>1, OneInThree
      <4>3. k = Len(requests)
        BY <4>2
      <4>4. content = requests[1] /\ requests' = << >>
        <5>1. /\ k = Len(requests) => requests' = << >>
              /\ Len(requests) = 1 => content = requests[1]
          BY <2>types, <3>1, ReadsSplit
        <5> QED
          BY <4>2, <4>3, <5>1
      <4>5. requests[1] = n
        BY <3>5, <4>2 DEF SettledInv
      <4> QED
        BY <3>1, <4>2, <4>4, <4>5
    <3> QED
      BY <3>2, <3>4, <3>5 DEF SettledInv
  <2>5. CASE ServerReplies
    <3>1. hand # << >> /\ replies' = replies \o hand /\ hand' = << >>
          /\ UNCHANGED <<pc, n, settled, requests>>
      BY <2>5 DEF ServerReplies
    <3>2. Len(hand) >= 1
      BY <2>types, <3>1
    <3>3. ~ (pc = "drained" /\ settled)
      BY <3>1 DEF SettledInv
    <3>4. ASSUME pc = "waiting", settled
          PROVE  /\ Len(requests) = 0 /\ Len(hand') = 0
                 /\ Len(replies') = 1 /\ replies'[1] = n
      <4>1. Len(replies) + Len(hand) + Len(requests) <= 1
        BY <3>4 DEF SettledInv
      <4>2. Len(hand) = 1 /\ Len(replies) = 0 /\ Len(requests) = 0
        BY <2>len, <3>2, <4>1, OneInThree
      <4>3. Len(replies') = 1 /\ replies'[1] = hand[1]
        BY <2>types, <3>1, <4>2
      <4>4. hand[1] = n
        BY <3>4, <4>2 DEF SettledInv
      <4> QED
        BY <3>1, <4>2, <4>3, <4>4
    <3> QED
      BY <3>1, <3>3, <3>4 DEF SettledInv
  <2>6. CASE Arrive
    BY <2>6 DEF Arrive, SettledInv
  <2>7. CASE UNCHANGED vars
    BY <2>7 DEF vars, SettledInv
  <2> QED
    BY <2>1, <2>2, <2>3, <2>4, <2>5, <2>6, <2>7 DEF Next, ClientWrites, Server
<1> QED
  BY <1>1, <1>2, TypeInvInductive, PTL DEF Spec

\* Once everything has been answered and has arrived, the next write returns the
\* reply to its own request, or times out.
THEOREM ClientGetsBackInStep == Spec => SettledRepliesAreOwn
<1>1. TypeInv /\ SettledInv /\ [Next]_vars
        => [WriteReturns /\ settled => reply' \in {n, TimedOut}]_vars
  <2> SUFFICES ASSUME TypeOK, SettledInv, Next, WriteReturns, settled
               PROVE  reply' \in {n, TimedOut}
    BY DEF TypeInv
  <2>1. pc = "waiting" /\ pc' = "idle"
    BY DEF WriteReturns
  <2>2. Receive \/ Timeout
    BY <2>1 DEF Next, ClientWrites, Server, Drain, Send, ServerReads, ServerReplies, Arrive
  <2>3. CASE Timeout
    BY <2>3 DEF Timeout
  <2>4. CASE Receive
    <3>1. PICK k \in 1 .. arrived : Reads(replies, k, reply', replies')
      BY <2>4 DEF Receive
    <3>2. /\ replies \in Seq(Content) /\ hand \in Seq(Content) /\ requests \in Seq(Content)
          /\ k \in 1 .. Len(replies)
      BY DEF TypeOK
    <3>3. Len(replies) + Len(hand) + Len(requests) <= 1
      BY <2>1 DEF SettledInv
    <3>4. Len(replies) = 1
      BY <3>2, <3>3
    <3>5. reply' = replies[1]
      BY <3>1, <3>2, <3>4, ReadsSplit
    <3>6. replies[1] = n
      BY <2>1, <3>4 DEF SettledInv
    <3> QED
      BY <3>5, <3>6
  <2> QED
    BY <2>2, <2>3, <2>4
<1> QED
  BY <1>1, TypeInvInductive, SettledInvInductive, PTL DEF Spec, SettledRepliesAreOwn

=============================================================================
