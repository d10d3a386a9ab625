------------------------- MODULE PromptLimitsProofs -------------------------
(***************************************************************************)
(* Proofs about PromptLimits, for any threads, rates and backoffs.         *)
(***************************************************************************)
EXTENDS PromptLimits, TLAPS

\* What a step leaves behind or finds of the types, apart from the line.
Types ==
    /\ pc \in [Threads -> PC] /\ left \in [Threads -> 0..Backoff]
    /\ line \in Seq(Threads)
    /\ bucket \in 0..MaxTokens /\ sent \in Nat /\ panics \in Nat
    /\ backoff \in BOOLEAN /\ timers \in [0..Backoff -> Nat]
    /\ asked \in [Threads -> Nat]

\* The line holds the threads that wait, each once.
LineOK ==
    /\ \A t \in Threads : pc[t] = "line" <=> \E i \in 1..Len(line) : line[i] = t
    /\ \A i, k \in 1..Len(line) : line[i] = line[k] => i = k

\* A thread joins at the end, and leaves from the front.
LEMMA Joins ==
    ASSUME NEW t \in Threads, Types, LineOK, pc[t] # "line",
           pc' = [pc EXCEPT ![t] = "line"], line' = Append(line, t)
    PROVE  line' \in Seq(Threads) /\ LineOK'
<1> DEFINE n == Len(line)
<1>1. /\ line' \in Seq(Threads) /\ Len(line') = n + 1 /\ n \in Nat
      /\ \A i \in 1..n : line'[i] = line[i]
      /\ line'[n + 1] = t
  BY DEF Types
<1>2. \A i \in 1..n : line[i] # t /\ line[i] \in Threads
  <2>1. \A i \in 1..n : line[i] # t
    BY DEF LineOK
  <2>2. \A i \in 1..n : line[i] \in Threads
    BY DEF Types
  <2> QED BY <2>1, <2>2
<1>3. \A u \in Threads : pc'[u] = "line" <=> (pc[u] = "line" \/ u = t)
  BY DEF Types
<1>4. 1..Len(line') = (1..n) \cup {n + 1}
  BY <1>1
<1> HIDE DEF n
<1>5. \A u \in Threads : pc'[u] = "line" <=> \E i \in 1..Len(line') : line'[i] = u
  BY <1>1, <1>3, <1>4 DEF LineOK, n
<1>6. \A i, k \in 1..Len(line') : line'[i] = line'[k] => i = k
  BY <1>1, <1>2, <1>4 DEF LineOK, n
<1> QED BY <1>1, <1>5, <1>6 DEF LineOK

LEMMA Leaves ==
    ASSUME Types, LineOK, line # <<>>, line' = Tail(line),
           pc' = [pc EXCEPT ![Head(line)] = "prompt"]
    PROVE  /\ Head(line) \in Threads /\ pc[Head(line)] = "line"
           /\ line' \in Seq(Threads) /\ LineOK'
<1> DEFINE n == Len(line)
<1>1. /\ line' \in Seq(Threads) /\ n \in Nat \ {0} /\ Len(line') = n - 1
      /\ \A i \in 1..(n - 1) : line'[i] = line[i + 1]
      /\ Head(line) = line[1] /\ line[1] \in Threads
  BY DEF Types
<1>2. \A i \in 2..n : line[i] # line[1]
  BY <1>1 DEF LineOK
<1>3. \A u \in Threads : pc'[u] = "line" <=> (pc[u] = "line" /\ u # line[1])
  BY <1>1 DEF Types
<1>4. \A u \in Threads : pc[u] = "line" <=> \E i \in 1..n : line[i] = u
  BY DEF LineOK
<1>5. \A u \in Threads : pc'[u] = "line" <=> \E i \in 1..Len(line') : line'[i] = u
  <2> SUFFICES ASSUME NEW u \in Threads
               PROVE  pc'[u] = "line" <=> \E i \in 1..Len(line') : line'[i] = u
    OBVIOUS
  <2>1. ASSUME pc'[u] = "line" PROVE \E i \in 1..Len(line') : line'[i] = u
    <3>1. PICK i \in 1..n : line[i] = u
      BY <2>1, <1>3, <1>4
    <3>2. i # 1 /\ i - 1 \in 1..(n - 1) /\ line'[i - 1] = u
      BY <3>1, <2>1, <1>3, <1>1
    <3> QED BY <3>2, <1>1
  <2>2. ASSUME NEW i \in 1..Len(line'), line'[i] = u PROVE pc'[u] = "line"
    <3>1. i + 1 \in 2..n /\ line[i + 1] = u
      BY <2>2, <1>1
    <3> QED BY <3>1, <1>1, <1>2, <1>3, <1>4
  <2> QED BY <2>1, <2>2
<1>6. \A i, k \in 1..Len(line') : line'[i] = line'[k] => i = k
  <2> SUFFICES ASSUME NEW i \in 1..Len(line'), NEW k \in 1..Len(line'), line'[i] = line'[k]
               PROVE  i = k
    OBVIOUS
  <2>1. i + 1 \in 1..n /\ k + 1 \in 1..n /\ line[i + 1] = line[k + 1]
    BY <1>1
  <2> QED BY <2>1, <1>1 DEF LineOK
<1>7. pc[line[1]] = "line"
  BY <1>1, <1>4
<1> QED BY <1>1, <1>5, <1>6, <1>7 DEF LineOK

\* A step that moves nobody into the line or out of it.
LEMMA Stays ==
    ASSUME Types, LineOK, UNCHANGED line,
           \A t \in Threads : pc'[t] = "line" <=> pc[t] = "line"
    PROVE  LineOK'
BY DEF LineOK

TypesInv == Types /\ LineOK

\* The types are inductive as they stand.
LEMMA TypesInvariant == Spec => []TypesInv
<1> USE LimitsAssumption DEF PC
<1>1. Init => Types /\ LineOK
  <2>1. ASSUME Init PROVE line \in Seq(Threads) /\ Len(line) = 0
    BY <2>1 DEF Init
  <2>2. ASSUME Init PROVE LineOK
    BY <2>1, <2>2 DEF Init, LineOK
  <2>3. ASSUME Init PROVE Types
    <3>1. 0 \in 0..Backoff /\ MaxTokens \in 0..MaxTokens
      OBVIOUS
    <3>2. /\ line \in Seq(Threads) /\ bucket \in 0..MaxTokens /\ sent \in Nat
          /\ panics \in Nat /\ backoff \in BOOLEAN
      BY <2>1, <2>3, <3>1 DEF Init
    <3>3. /\ pc \in [Threads -> PC] /\ left \in [Threads -> 0..Backoff]
          /\ timers \in [0..Backoff -> Nat] /\ asked \in [Threads -> Nat]
      BY <2>3, <3>1 DEF Init
    <3> QED BY <3>2, <3>3 DEF Types
  <2> QED BY <2>2, <2>3
<1>2. Types /\ LineOK /\ [Next]_vars => Types' /\ LineOK'
  <2> SUFFICES ASSUME Types, LineOK, [Next]_vars PROVE Types' /\ LineOK'
    OBVIOUS
  <2> USE DEF Types
  <2>1. ASSUME NEW t \in Threads, AcquireOne(t) PROVE Types' /\ LineOK'
    <3>1. CASE backoff
      <4>1. LineOK'
        BY <2>1, <3>1, Stays DEF AcquireOne
      <4>2. left' \in [Threads -> 0..Backoff] /\ pc' \in [Threads -> PC]
        <5>1. /\ left' = [left EXCEPT ![t] = Backoff]
              /\ pc' = [pc EXCEPT ![t] = "sleep"]
          BY <2>1, <3>1 DEF AcquireOne
        <5>2. Backoff \in 0..Backoff
          OBVIOUS
        <5> QED BY <5>1, <5>2
      <4>3. UNCHANGED <<line, bucket, backoff, timers, sent, asked, panics>>
        BY <2>1, <3>1 DEF AcquireOne
      <4> QED BY <4>1, <4>2, <4>3
    <3>2. CASE ~backoff
      <4>1. line' \in Seq(Threads) /\ LineOK'
        BY <2>1, <3>2, Joins DEF AcquireOne
      <4> QED BY <2>1, <3>2, <4>1 DEF AcquireOne
    <3> QED BY <3>1, <3>2
  <2>2. ASSUME NEW t \in Threads, Wake(t) PROVE Types' /\ LineOK'
    <3>1. line' \in Seq(Threads) /\ LineOK'
      BY <2>2, Joins DEF Wake
    <3> QED BY <2>2, <3>1 DEF Wake
  <2>3. ASSUME NEW t \in Threads, GetToken(t) PROVE Types' /\ LineOK'
    <3>1. line' \in Seq(Threads) /\ LineOK'
      BY <2>3, Leaves DEF GetToken, Sends
    <3>2. bucket' \in 0..MaxTokens /\ sent' \in Nat /\ pc' \in [Threads -> PC]
      BY <2>3 DEF GetToken, Sends
    <3>3. asked' \in [Threads -> Nat]
      <4>1. CASE backoff
        <5>1. asked' = [asked EXCEPT ![t] = @ + 1]
          BY <2>3, <4>1 DEF GetToken, Sends
        <5> QED BY <5>1
      <4>2. CASE ~backoff
        <5>1. asked' = asked
          BY <2>3, <4>2 DEF GetToken, Sends
        <5> QED BY <5>1
      <4> QED BY <4>1, <4>2
    <3>4. UNCHANGED <<left, backoff, timers, panics>>
      BY <2>3 DEF GetToken
    <3> QED BY <3>1, <3>2, <3>3, <3>4
  <2>4. ASSUME NEW t \in Threads, Panic(t) PROVE Types' /\ LineOK'
    <3>1. LineOK'
      BY <2>4, Stays DEF Panic
    <3> QED BY <2>4, <3>1 DEF Panic
  <2>5. ASSUME NEW t \in Threads, NEW reply \in Replies, Reply(t, reply)
        PROVE Types' /\ LineOK'
    <3>1. LineOK'
      BY <2>5, Stays DEF Reply
    <3>2. timers' \in [0..Backoff -> Nat] /\ backoff' \in BOOLEAN
      <4>1. CASE reply = "limited"
        <5>1. timers' = [timers EXCEPT ![Backoff] = @ + 1] /\ backoff' = TRUE
          BY <2>5, <4>1 DEF Reply, TriggerBackoff
        <5> QED BY <5>1
      <4>2. CASE reply # "limited"
        <5>1. UNCHANGED <<backoff, timers>>
          BY <2>5, <4>2 DEF Reply
        <5> QED BY <5>1
      <4> QED BY <4>1, <4>2
    <3> QED BY <2>5, <3>1, <3>2 DEF Reply
  <2>6. CASE BackoffExpired
    <3>1. LineOK'
      BY <2>6, Stays DEF BackoffExpired
    <3>2. timers' \in [0..Backoff -> Nat] /\ asked' \in [Threads -> Nat]
      BY <2>6 DEF BackoffExpired
    <3> QED BY <2>6, <3>1, <3>2 DEF BackoffExpired
  <2>7. CASE Tick
    <3>1. timers' \in [0..Backoff -> Nat]
      BY <2>7 DEF Tick
    <3>2. left' \in [Threads -> 0..Backoff]
      BY <2>7 DEF Tick, Due
    <3>3. bucket' \in 0..MaxTokens
      BY <2>7 DEF Tick, Refilled, Least
    <3>4. LineOK'
      BY <2>7, Stays DEF Tick
    <3> QED BY <2>7, <3>1, <3>2, <3>3, <3>4 DEF Tick
  <2>8. CASE UNCHANGED vars
    BY <2>8 DEF vars, LineOK
  <2> QED BY <2>1, <2>2, <2>3, <2>4, <2>5, <2>6, <2>7, <2>8 DEF Next
<1> QED BY <1>1, <1>2, PTL DEF Spec, TypesInv

\* The variables have the types of what they stand for, for any threads and rates.
THEOREM LimitsTyping == Spec => []TypeOK
<1>1. TypesInv => TypeOK
  BY DEF TypesInv, Types, LineOK, TypeOK
<1> QED BY <1>1, TypesInvariant, PTL

-----------------------------------------------------------------------------
(* The rate *)

\* A prompt takes a token, and a refill comes with a new interval.
RateInv == sent + bucket <= MaxTokens

\* However many workers wake at one time, an interval has no more prompts than
\* the limiter's maximum.
THEOREM PromptsKeepRate == Spec => []RateKept
<1> USE LimitsAssumption
<1>1. Init => RateInv
  BY DEF Init, RateInv
<1>2. TypesInv /\ RateInv /\ [Next]_vars => RateInv'
  <2> SUFFICES ASSUME TypesInv, RateInv, [Next]_vars PROVE RateInv'
    OBVIOUS
  <2> USE DEF RateInv
  <2>1. sent \in Nat /\ bucket \in Nat /\ bucket <= MaxTokens
    BY DEF TypesInv, Types
  <2>2. ASSUME NEW t \in Threads, GetToken(t) PROVE RateInv'
    BY <2>1, <2>2 DEF GetToken, Sends
  <2>3. CASE Tick
    <3>1. sent' = 0 /\ bucket' = Refilled
      BY <2>3 DEF Tick
    <3> QED BY <2>1, <3>1 DEF Refilled, Least
  <2>4. ASSUME NEW t \in Threads, AcquireOne(t) \/ Wake(t) \/ Panic(t) PROVE RateInv'
    BY <2>4 DEF AcquireOne, Wake, Panic
  <2>5. ASSUME NEW t \in Threads, NEW reply \in Replies, Reply(t, reply) PROVE RateInv'
    BY <2>5 DEF Reply
  <2>6. CASE BackoffExpired
    BY <2>6 DEF BackoffExpired
  <2>7. CASE UNCHANGED vars
    BY <2>7 DEF vars
  <2> QED BY <2>2, <2>3, <2>4, <2>5, <2>6, <2>7 DEF Next
<1>3. TypesInv /\ RateInv => RateKept
  BY DEF TypesInv, Types, RateInv, RateKept
<1> QED BY <1>1, <1>2, <1>3, TypesInvariant, PTL DEF Spec

-----------------------------------------------------------------------------
(* The backoff *)

Pending(k) == timers[k] > 0

\* Why a worker sends at most two prompts in a backoff: a sleep that began in it
\* ends no earlier than its timer, so that after such a sleep the timer is due,
\* and the clock stands until it has cleared the flag.
AskedOK(t) ==
    /\ asked[t] <= 2
    /\ asked[t] = 1 => /\ pc[t] = "sleep" => \E k \in 0..left[t] : Pending(k)
                       /\ pc[t] = "line" => Pending(0)
    /\ asked[t] = 2 => /\ Pending(0) /\ pc[t] # "line"
                       /\ pc[t] = "sleep" => left[t] = Backoff

BackoffInv ==
    /\ backoff => \E k \in 0..Backoff : Pending(k)
    /\ \A t \in Threads : asked[t] # 0 => backoff /\ AskedOK(t)

\* What one thread does leaves the others' part alone as long as no timer is lost.
LEMMA OthersKeep ==
    ASSUME TypesInv, NEW u \in Threads, asked[u] # 0 => AskedOK(u),
           asked'[u] = asked[u], pc'[u] = pc[u], left'[u] = left[u],
           \A k \in 0..Backoff : Pending(k) => Pending(k)'
    PROVE  asked'[u] # 0 => AskedOK(u)'
<1>1. left[u] \in 0..Backoff /\ asked[u] \in Nat
  BY DEF TypesInv, Types
<1>2. 0 \in 0..Backoff /\ Backoff \in Nat
  BY LimitsAssumption
<1> QED BY <1>1, <1>2 DEF AskedOK

LEMMA BackoffInvariant == Spec => []BackoffInv
<1> USE LimitsAssumption
<1>1. Init => BackoffInv
  BY DEF Init, BackoffInv
<1>2. TypesInv /\ BackoffInv /\ [Next]_vars => BackoffInv'
  <2> SUFFICES ASSUME TypesInv, BackoffInv, [Next]_vars PROVE BackoffInv'
    OBVIOUS
  <2>0. /\ pc \in [Threads -> PC] /\ left \in [Threads -> 0..Backoff]
        /\ timers \in [0..Backoff -> Nat] /\ asked \in [Threads -> Nat]
        /\ Backoff \in Nat \ {0} /\ 0 \in 0..Backoff /\ Backoff \in 0..Backoff
    BY DEF TypesInv, Types
  <2>1. ASSUME NEW t \in Threads, AcquireOne(t) PROVE BackoffInv'
    <3>1. timers' = timers /\ backoff' = backoff /\ asked' = asked
      BY <2>1 DEF AcquireOne
    <3>2. ASSUME NEW u \in Threads, u # t PROVE asked'[u] # 0 => AskedOK(u)'
      <4>1. pc'[u] = pc[u] /\ left'[u] = left[u]
        BY <2>0, <2>1, <3>2 DEF AcquireOne
      <4> QED BY <3>1, <4>1, OthersKeep DEF Pending, BackoffInv
    <3>3. ASSUME asked'[t] # 0 PROVE AskedOK(t)'
      <4>1. backoff /\ AskedOK(t) /\ \E k \in 0..Backoff : Pending(k)
        BY <3>1, <3>3 DEF BackoffInv
      <4>2. pc'[t] = "sleep" /\ left'[t] = Backoff
        BY <2>0, <2>1, <4>1 DEF AcquireOne
      <4> QED BY <3>1, <4>1, <4>2, <2>0 DEF AskedOK, Pending
    <3> QED BY <3>1, <3>2, <3>3 DEF BackoffInv, Pending
  <2>2. ASSUME NEW t \in Threads, Wake(t) PROVE BackoffInv'
    <3>1. timers' = timers /\ backoff' = backoff /\ asked' = asked /\ left' = left
      BY <2>2 DEF Wake
    <3>2. ASSUME NEW u \in Threads, u # t PROVE asked'[u] # 0 => AskedOK(u)'
      <4>1. pc'[u] = pc[u]
        BY <2>0, <2>2, <3>2 DEF Wake
      <4> QED BY <3>1, <4>1, OthersKeep DEF Pending, BackoffInv
    <3>3. ASSUME asked'[t] # 0 PROVE AskedOK(t)'
      <4>1. AskedOK(t) /\ pc[t] = "sleep" /\ left[t] = 0
        BY <2>2, <3>1, <3>3 DEF BackoffInv, Wake
      <4>2. asked[t] # 2
        BY <4>1, <2>0 DEF AskedOK
      <4>3. pc'[t] = "line"
        BY <2>0, <2>2 DEF Wake
      <4>4. asked[t] = 1 => Pending(0)
        BY <4>1 DEF AskedOK
      <4> QED BY <3>1, <4>1, <4>2, <4>3, <4>4 DEF AskedOK, Pending
    <3> QED BY <3>1, <3>2, <3>3 DEF BackoffInv, Pending
  <2>3. ASSUME NEW t \in Threads, GetToken(t) PROVE BackoffInv'
    <3>1. timers' = timers /\ backoff' = backoff /\ left' = left
      BY <2>3 DEF GetToken
    <3>2. pc[t] = "line" /\ pc' = [pc EXCEPT ![t] = "prompt"]
      BY <2>3, Leaves DEF GetToken, Sends, TypesInv
    <3>3. CASE ~backoff
      <4>1. asked' = asked
        BY <2>3, <3>3 DEF GetToken, Sends
      <4> QED BY <3>1, <3>3, <4>1 DEF BackoffInv
    <3>4. CASE backoff
      <4>1. asked' = [asked EXCEPT ![t] = @ + 1]
        BY <2>3, <3>4 DEF GetToken, Sends
      <4>2. ASSUME NEW u \in Threads, u # t PROVE asked'[u] # 0 => AskedOK(u)'
        <5>1. pc'[u] = pc[u] /\ asked'[u] = asked[u]
          BY <2>0, <3>2, <4>1, <4>2
        <5> QED BY <3>1, <5>1, OthersKeep DEF Pending, BackoffInv
      <4>3. AskedOK(t)'
        <5>1. pc'[t] = "prompt" /\ asked'[t] = asked[t] + 1 /\ asked[t] \in Nat
          BY <2>0, <3>2, <4>1
        <5>2. asked[t] = 0 \/ (asked[t] = 1 /\ Pending(0))
          <6>1. CASE asked[t] = 0
            BY <6>1
          <6>2. CASE asked[t] # 0
            BY <6>2, <3>2, <5>1 DEF BackoffInv, AskedOK
          <6> QED BY <6>1, <6>2
        <5> QED BY <3>1, <5>1, <5>2 DEF AskedOK, Pending
      <4> QED BY <3>1, <3>4, <4>2, <4>3 DEF BackoffInv, Pending
    <3> QED BY <3>3, <3>4
  <2>4. ASSUME NEW t \in Threads, Panic(t) PROVE BackoffInv'
    <3>1. /\ timers' = timers /\ backoff' = backoff /\ asked' = asked /\ left' = left
          /\ pc' = [pc EXCEPT ![t] = "panicked"]
      BY <2>4 DEF Panic
    <3>2. ASSUME NEW u \in Threads, asked[u] # 0 PROVE AskedOK(u)'
      BY <3>1, <3>2, <2>0 DEF BackoffInv, AskedOK, Pending
    <3> QED BY <3>1, <3>2 DEF BackoffInv, Pending
  <2>5. ASSUME NEW t \in Threads, NEW reply \in Replies, Reply(t, reply) PROVE BackoffInv'
    <3>1. /\ asked' = asked /\ left' = left /\ pc' = [pc EXCEPT ![t] = "idle"]
      BY <2>5 DEF Reply
    <3>2. /\ \A k \in 0..Backoff : Pending(k) => Pending(k)'
          /\ backoff => backoff'
          /\ backoff' => \E k \in 0..Backoff : Pending(k)'
      <4>1. CASE reply = "limited"
        <5>1. backoff' = TRUE /\ timers' = [timers EXCEPT ![Backoff] = @ + 1]
          BY <2>5, <4>1 DEF Reply, TriggerBackoff
        <5>2. timers'[Backoff] > 0
          BY <5>1, <2>0
        <5> QED BY <5>1, <5>2, <2>0 DEF Pending
      <4>2. CASE reply # "limited"
        <5>1. backoff' = backoff /\ timers' = timers
          BY <2>5, <4>2 DEF Reply
        <5> QED BY <5>1 DEF BackoffInv, Pending
      <4> QED BY <4>1, <4>2
    <3>3. ASSUME NEW u \in Threads, asked[u] # 0 PROVE AskedOK(u)'
      <4>1. AskedOK(u) /\ asked[u] \in Nat /\ left[u] \in 0..Backoff
        BY <3>3, <2>0 DEF BackoffInv
      <4>2. pc'[u] = pc[u] \/ pc'[u] = "idle"
        BY <3>1, <2>0
      <4> QED BY <3>1, <3>2, <4>1, <4>2, <2>0 DEF AskedOK
    <3> QED BY <3>1, <3>2, <3>3 DEF BackoffInv
  <2>6. CASE BackoffExpired
    <3>1. backoff' = FALSE /\ \A t \in Threads : asked'[t] = 0
      BY <2>6 DEF BackoffExpired
    <3> QED BY <3>1 DEF BackoffInv
  <2>7. CASE Tick
    <3>1. /\ backoff' = backoff /\ asked' = asked /\ pc' = pc
          /\ timers[0] = 0 /\ \A t \in Threads : ~Due(t)
      BY <2>7 DEF Tick
    <3>2. \A k \in 1..Backoff : timers'[k - 1] = timers[k]
      BY <2>7, <2>0 DEF Tick
    <3>3. \A t \in Threads : pc[t] = "sleep" => left'[t] = left[t] - 1 /\ left[t] \in 1..Backoff
      BY <2>7, <2>0 DEF Tick, Due
    <3>4. backoff => \E k \in 0..Backoff : Pending(k)'
      <4> SUFFICES ASSUME backoff PROVE \E k \in 0..Backoff : Pending(k)'
        OBVIOUS
      <4>1. PICK k \in 0..Backoff : timers[k] > 0
        BY DEF BackoffInv, Pending
      <4>2. k \in 1..Backoff /\ k - 1 \in 0..Backoff
        BY <4>1, <3>1, <2>0
      <4> QED BY <4>1, <4>2, <3>2 DEF Pending
    <3>5. ASSUME NEW t \in Threads, asked[t] # 0 PROVE AskedOK(t)'
      <4>1. AskedOK(t) /\ asked[t] \in Nat
        BY <3>5, <2>0 DEF BackoffInv
      <4>2. asked[t] = 1 /\ pc[t] # "line"
        BY <4>1, <3>1, <3>5, <2>0 DEF AskedOK, Pending
      <4>3. ASSUME pc[t] = "sleep" PROVE \E k \in 0..left'[t] : Pending(k)'
        <5>1. PICK k \in 0..left[t] : timers[k] > 0
          BY <4>1, <4>2, <4>3 DEF AskedOK, Pending
        <5>2. k \in 1..Backoff /\ k - 1 \in 0..left'[t]
          BY <5>1, <3>1, <3>3, <4>3, <2>0
        <5> QED BY <5>1, <5>2, <3>2 DEF Pending
      <4> QED BY <3>1, <4>2, <4>3 DEF AskedOK
    <3> QED BY <3>1, <3>4, <3>5 DEF BackoffInv
  <2>8. CASE UNCHANGED vars
    BY <2>8 DEF vars, BackoffInv, AskedOK, Pending
  <2> QED BY <2>1, <2>2, <2>3, <2>4, <2>5, <2>6, <2>7, <2>8 DEF Next
<1> QED BY <1>1, <1>2, TypesInvariant, PTL DEF Spec

\* In one backoff no worker sends more than two prompts, whatever the rate, the
\* length of the backoff and the number of workers.
THEOREM BackoffIsRespected == Spec => []FewPromptsInBackoff
<1>1. TypesInv /\ BackoffInv => FewPromptsInBackoff
  <2> SUFFICES ASSUME TypesInv, BackoffInv, NEW t \in Threads PROVE asked[t] <= 2
    BY DEF FewPromptsInBackoff
  <2>1. asked[t] \in Nat
    BY DEF TypesInv, Types
  <2>2. CASE asked[t] = 0
    BY <2>2
  <2>3. CASE asked[t] # 0
    BY <2>3 DEF BackoffInv, AskedOK
  <2> QED BY <2>2, <2>3
<1> QED BY <1>1, TypesInvariant, BackoffInvariant, PTL

=============================================================================
