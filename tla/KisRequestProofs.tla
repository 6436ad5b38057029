-------------------------- MODULE KisRequestProofs --------------------------
(***************************************************************************)
(* The safety of KisRequest for any number of processes, any retry budgets *)
(* and any life of a token.  The invariants are not inductive by           *)
(* themselves: a token outlives a request because it had more than the     *)
(* margin left when the request was sent, an order is accepted once        *)
(* because nothing was accepted before its send, and a query is bounded    *)
(* because each of its sends is paid for by one of the two counters.       *)
(***************************************************************************)
EXTENDS KisRequest, TLAPS

Calls ==
  [pc : Busy \cup {"idle", "done"}, op : Ops, stage : {"get", "post"}, tries : Nat,
   transient : Nat, life : Nat, late : BOOLEAN, gets : Nat, accepted : Nat, inquired : BOOLEAN]

\* The sends of a query so far, the one under way not counted, are no more than
\* the two counters; one less when the tries are used up, which they are only
\* by an answer of the server that counts as a refusal for now as well.
SendsPaid(c) ==
  /\ c.pc # "sent" => /\ c.gets <= c.tries + c.transient
                      /\ c.tries = MaxRetries => c.gets < MaxRetries + c.transient
  /\ c.pc = "sent" => /\ c.gets <= c.tries + c.transient + 1
                      /\ c.tries = MaxRetries => c.gets <= MaxRetries + c.transient

\* A call, also while an answer is being looked at.
CallInHand(c) ==
  /\ c \in Calls
  /\ c.tries <= MaxRetries /\ c.transient < TransientAttempts /\ c.life <= TokenLife
  /\ c.inquired => c.op = "order" /\ c.stage = "get"
  /\ c.pc = "sent" => c.life > 0 /\ (~c.late => c.life > Margin)
  /\ c.stage = "post" => c.gets = 0 /\ c.tries = 0 /\ c.transient = 0
  /\ c.accepted <= 1
  /\ SendsPaid(c)

\* Between the steps: before the answer to a send nothing is accepted.
CallOK(c) == CallInHand(c) /\ (c.stage = "post" => c.accepted = 0)

IInv ==
  /\ memory \in [Procs -> 0 .. TokenLife]
  /\ file \in [state : {"none", "torn", "whole"}, life : 0 .. TokenLife]
  /\ issued \in BOOLEAN
  /\ call \in [Procs -> Calls]
  /\ \A p \in Procs : CallOK(call[p])

-----------------------------------------------------------------------------
(* What the ends of a request leave.                                       *)

\* A call that begins is a proper one.
LEMMA BegunIsOK ==
  ASSUME NEW op \in Ops
  PROVE  CallOK([Idle EXCEPT !.pc = "headers", !.op = op,
                             !.stage = IF op = "query" THEN "get" ELSE "post"])
<1> DEFINE d == [Idle EXCEPT !.pc = "headers", !.op = op,
                             !.stage = IF op = "query" THEN "get" ELSE "post"]
<1>1. d \in Calls
  BY DEF Calls, Idle, Busy, Ops
<1>2. /\ d.pc = "headers" /\ d.tries = 0 /\ d.transient = 0 /\ d.life = 0
      /\ d.gets = 0 /\ d.accepted = 0 /\ d.inquired = FALSE
  BY DEF Idle
<1> HIDE DEF d
<1>3. CallOK(d)
  BY <1>1, <1>2, KisAssumption DEF CallOK, CallInHand, SendsPaid
<1> QED BY <1>3 DEF d

\* A client that has done nothing is a proper one.
LEMMA IdleIsOK == CallOK(Idle)
BY KisAssumption DEF CallOK, CallInHand, Calls, SendsPaid, Idle, Busy, Ops

\* A call that ends is a proper one.
LEMMA DoneIsOK ==
  ASSUME NEW c, CallInHand(c)
  PROVE  CallOK(Done(c))
<1> DEFINE d == Done(c)
<1>0. c \in Calls /\ (c.inquired => c.op = "order") /\ c.accepted <= 1
  BY DEF CallInHand
<1>1. d \in Calls
  BY <1>0 DEF Calls, Done, Idle, Busy, Ops
<1>2. /\ d.pc = "done" /\ d.stage = "get" /\ d.tries = 0 /\ d.transient = 0 /\ d.life = 0
      /\ d.gets = 0 /\ d.accepted = c.accepted /\ d.inquired = c.inquired /\ d.op = c.op
  BY DEF Done, Idle
<1> HIDE DEF d
<1>3. CallOK(d)
  BY <1>0, <1>1, <1>2, KisAssumption DEF CallOK, CallInHand, SendsPaid
<1> QED BY <1>3 DEF d

\* The inquiry starts with both budgets whole.
LEMMA InquiryIsOK ==
  ASSUME NEW c, CallInHand(c), c.stage = "post", c.op = "order"
  PROVE  CallOK(Inquire(c))
<1> DEFINE d == Inquire(c)
<1>0. c \in Calls /\ c.gets = 0 /\ c.tries = 0 /\ c.transient = 0 /\ c.accepted <= 1
  BY DEF CallInHand
<1>1. d \in Calls
  BY <1>0 DEF Calls, Inquire, Again, Busy
<1>2. /\ d.pc = "headers" /\ d.stage = "get" /\ d.tries = 0 /\ d.transient = 0 /\ d.life = 0
      /\ d.gets = 0 /\ d.accepted = c.accepted /\ d.op = "order"
  BY <1>0 DEF Inquire, Again, Calls
<1> HIDE DEF d
<1>3. CallOK(d)
  BY <1>0, <1>1, <1>2, KisAssumption DEF CallOK, CallInHand, SendsPaid
<1> QED BY <1>3 DEF d

\* What follows an answer or a KISError.
LEMMA EndedIsOK ==
  ASSUME NEW c, CallInHand(c)
  PROVE  CallOK(Ended(c))
<1>1. CASE c.stage = "post" /\ c.op = "order"
  BY <1>1, InquiryIsOK DEF Ended
<1>2. CASE ~(c.stage = "post" /\ c.op = "order")
  BY <1>2, DoneIsOK DEF Ended
<1> QED BY <1>1, <1>2

\* Before a request is made again.
LEMMA AgainIsACall ==
  ASSUME NEW c \in Calls
  PROVE  /\ Again(c) \in Calls
         /\ Again(c).tries = c.tries /\ Again(c).transient = c.transient
BY DEF Calls, Again, Busy

\* A try more is paid for by the first counter.
LEMMA RetriedIsOK ==
  ASSUME NEW c, CallInHand(c), c.stage = "get", c.tries + 1 < MaxRetries
  PROVE  CallOK(Retried(c))
<1> DEFINE d == Retried(c)
<1>0. c \in Calls
  BY DEF CallInHand
<1>1. d \in Calls
  <2> DEFINE a == Again(c)
  <2>1. a \in Calls /\ a.tries + 1 \in Nat
    BY <1>0, AgainIsACall DEF Calls
  <2> HIDE DEF a
  <2>2. [a EXCEPT !.tries = a.tries + 1] \in Calls
    BY <2>1 DEF Calls
  <2> QED BY <2>2 DEF a, Retried
<1>2. /\ d.pc = "headers" /\ d.stage = "get" /\ d.tries = c.tries + 1 /\ d.life = 0
      /\ d.transient = c.transient /\ d.gets = c.gets /\ d.accepted = c.accepted
      /\ d.op = c.op /\ d.inquired = c.inquired
  BY <1>0 DEF Retried, Again, Calls
<1>3. c.pc \in Busy \cup {"idle", "done"} /\ c.gets <= c.tries + c.transient + 1
  BY <1>0 DEF CallInHand, SendsPaid, Calls
<1> HIDE DEF d
<1>4. CallOK(d)
  BY <1>0, <1>1, <1>2, <1>3, KisAssumption DEF CallOK, CallInHand, SendsPaid, Calls
<1> QED BY <1>4 DEF d

\* No answer.
LEMMA UnreachableIsOK ==
  ASSUME NEW c, CallInHand(c)
  PROVE  CallOK(Unreachable(c))
<1>1. CASE c.stage = "post"
  BY <1>1, DoneIsOK DEF Unreachable, Raised
<1>2. CASE c.stage # "post" /\ c.tries + 1 < MaxRetries
  BY <1>2, RetriedIsOK DEF Unreachable, CallInHand, Calls
<1>3. CASE c.stage # "post" /\ ~(c.tries + 1 < MaxRetries)
  BY <1>3, EndedIsOK DEF Unreachable
<1> QED BY <1>1, <1>2, <1>3

\* A wait more is paid for by the second counter.
LEMMA WaitedIsOK ==
  ASSUME NEW c, CallInHand(c), c.stage = "get", c.transient + 1 < TransientAttempts
  PROVE  CallOK([Again(c) EXCEPT !.transient = @ + 1])
<1> DEFINE d == [Again(c) EXCEPT !.transient = @ + 1]
<1>0. c \in Calls
  BY DEF CallInHand
<1>1. d \in Calls
  <2> DEFINE a == Again(c)
  <2>1. a \in Calls /\ a.transient + 1 \in Nat
    BY <1>0, AgainIsACall DEF Calls
  <2> HIDE DEF a
  <2>2. [a EXCEPT !.transient = a.transient + 1] \in Calls
    BY <2>1 DEF Calls
  <2> QED BY <2>2 DEF a
<1>2. /\ d.pc = "headers" /\ d.stage = "get" /\ d.tries = c.tries /\ d.life = 0
      /\ d.transient = c.transient + 1 /\ d.gets = c.gets /\ d.accepted = c.accepted
      /\ d.op = c.op /\ d.inquired = c.inquired
  BY <1>0 DEF Again, Calls
<1>3. /\ c.gets <= c.tries + c.transient + 1
      /\ c.tries = MaxRetries => c.gets <= MaxRetries + c.transient
  BY <1>0, KisAssumption DEF CallInHand, SendsPaid, Calls
<1> HIDE DEF d
<1>4. CallOK(d)
  BY <1>0, <1>1, <1>2, <1>3, KisAssumption DEF CallOK, CallInHand, SendsPaid, Calls
<1> QED BY <1>4 DEF d

\* A refusal for now.
LEMMA LimitedIsOK ==
  ASSUME NEW c, CallInHand(c)
  PROVE  CallOK(Limited(c))
<1>0. c.transient \in Nat /\ TransientAttempts \in Nat /\ c.stage \in {"get", "post"}
  BY KisAssumption DEF CallInHand, Calls
<1>1. CASE c.stage = "post"
  BY <1>1, EndedIsOK DEF Limited
<1>2. CASE c.stage # "post" /\ c.transient + 1 >= TransientAttempts
  BY <1>2, EndedIsOK DEF Limited
<1>3. CASE c.stage # "post" /\ c.transient + 1 < TransientAttempts
  <2>1. CallOK([Again(c) EXCEPT !.transient = @ + 1])
    BY <1>0, <1>3, WaitedIsOK
  <2>2. Limited(c) = [Again(c) EXCEPT !.transient = @ + 1]
    BY <1>0, <1>3 DEF Limited
  <2> QED BY <2>1, <2>2
<1> QED BY <1>0, <1>1, <1>2, <1>3

\* An answer that is read.
LEMMA UnwrappedIsOK ==
  ASSUME NEW c, CallInHand(c), NEW end \in Unwrapped(c)
  PROVE  CallOK(end)
BY EndedIsOK, LimitedIsOK, DoneIsOK DEF Unwrapped, Raised

\* A server in trouble.
LEMMA ServerErrorIsOK ==
  ASSUME NEW c, CallInHand(c), c.pc = "sent", NEW end \in ServerError(c)
  PROVE  CallOK(end)
<1>0. c.stage \in {"get", "post"} /\ c.tries \in Nat /\ MaxRetries \in Nat
  BY KisAssumption DEF CallInHand, Calls
<1>1. CASE c.stage = "get" /\ c.tries + 1 < MaxRetries
  BY <1>1, RetriedIsOK DEF ServerError
<1>2. CASE c.stage = "get" /\ ~(c.tries + 1 < MaxRetries)
  <2>1. CallInHand([c EXCEPT !.tries = MaxRetries])
    BY <1>0, <1>2, KisAssumption DEF CallInHand, Calls, SendsPaid
  <2>2. end \in Unwrapped([c EXCEPT !.tries = MaxRetries])
    BY <1>2 DEF ServerError
  <2> QED BY <2>1, <2>2, UnwrappedIsOK
<1>3. CASE c.stage = "post"
  BY <1>3, UnwrappedIsOK DEF ServerError
<1> QED BY <1>0, <1>1, <1>2, <1>3

\* An order that was accepted: the first of its call.
LEMMA AcceptedIsInHand ==
  ASSUME NEW c, CallOK(c), c.stage = "post"
  PROVE  CallInHand(Accepted(c)) /\ Accepted(c).pc = c.pc
BY DEF CallOK, CallInHand, Calls, SendsPaid, Accepted

\* A request is sent with a token that has more than the margin left.
LEMMA SentIsOK ==
  ASSUME NEW c, CallOK(c), c.pc \in {"headers", "write"},
         NEW life \in 0 .. TokenLife, life > Margin
  PROVE  CallOK(Sent(c, life))
<1> DEFINE n == IF c.stage = "get" /\ c.gets < GetBound THEN c.gets + 1 ELSE c.gets
           d == Sent(c, life)
<1>0. /\ c \in Calls /\ c.tries \in Nat /\ c.transient \in Nat /\ c.gets \in Nat
      /\ life \in Nat /\ life <= TokenLife
  BY KisAssumption DEF CallOK, CallInHand, Calls
<1>1. n \in Nat /\ n <= c.gets + 1 /\ (c.stage = "post" => n = c.gets)
  BY <1>0, KisAssumption DEF GetBound
<1>2. c.gets <= c.tries + c.transient /\ (c.tries = MaxRetries => c.gets < MaxRetries + c.transient)
  BY DEF CallOK, CallInHand, SendsPaid
<1>3. d = [c EXCEPT !.pc = "sent", !.life = life, !.late = FALSE, !.gets = n]
  BY DEF Sent
<1> HIDE DEF n, d
<1>4. d \in Calls
  BY <1>0, <1>1, <1>3 DEF Calls, Busy
<1>5. /\ d.pc = "sent" /\ d.stage = c.stage /\ d.tries = c.tries /\ d.life = life
      /\ d.transient = c.transient /\ d.gets = n /\ d.accepted = c.accepted
      /\ d.op = c.op /\ d.inquired = c.inquired
  BY <1>0, <1>3 DEF Calls
<1>6. SendsPaid(d)
  BY <1>0, <1>1, <1>2, <1>5, KisAssumption DEF SendsPaid
<1>7. d.inquired => d.op = "order" /\ d.stage = "get"
  BY <1>5 DEF CallOK, CallInHand
<1>8. /\ d.tries <= MaxRetries /\ d.transient < TransientAttempts /\ d.life <= TokenLife
      /\ d.life > 0 /\ d.life > Margin /\ d.accepted <= 1
      /\ d.stage = "post" => d.gets = 0 /\ d.tries = 0 /\ d.transient = 0 /\ d.accepted = 0
  BY <1>0, <1>1, <1>5 DEF CallOK, CallInHand, Margin
<1>9. CallOK(d)
  BY <1>4, <1>6, <1>7, <1>8 DEF CallOK, CallInHand
<1> QED BY <1>9 DEF d

\* Looking for a token changes nothing of a call.
LEMMA TokenStepIsOK ==
  ASSUME NEW c, CallOK(c), c.pc # "sent", NEW pc \in {"issue", "write"}
  PROVE  CallOK([c EXCEPT !.pc = pc])
BY DEF CallOK, CallInHand, Calls, SendsPaid, Busy

-----------------------------------------------------------------------------
(* The steps.                                                              *)

\* A step of one process that leaves the tokens alone.
LEMMA OneCallStep ==
  ASSUME IInv, NEW p \in Procs, NEW c, CallOK(c),
         call' = [call EXCEPT ![p] = c], UNCHANGED <<memory, file, issued>>
  PROVE  IInv'
BY DEF IInv, CallOK, CallInHand

\* The invariant holds at the start.
LEMMA InitInv == Init => IInv
<1> SUFFICES ASSUME Init PROVE IInv
  OBVIOUS
<1>1. \A p \in Procs : CallOK(call[p])
  BY IdleIsOK DEF Init
<1>2. call \in [Procs -> Calls]
  BY IdleIsOK DEF Init, CallOK, CallInHand
<1>3. /\ memory \in [Procs -> 0 .. TokenLife]
      /\ issued \in BOOLEAN
  <2>1. 0 \in 0 .. TokenLife
    BY KisAssumption
  <2> QED BY <2>1 DEF Init
<1>4. file \in [state : {"none", "torn", "whole"}, life : 0 .. TokenLife]
  BY KisAssumption DEF Init
<1> QED BY <1>1, <1>2, <1>3, <1>4 DEF IInv

\* Finding the token.
LEMMA BearerStep ==
  ASSUME IInv, NEW p \in Procs, Bearer(p)
  PROVE  IInv'
<1>0. /\ call[p] \in Calls /\ CallOK(call[p]) /\ CallInHand(call[p])
      /\ memory[p] \in 0 .. TokenLife /\ file.life \in 0 .. TokenLife
      /\ TokenLife \in 0 .. TokenLife /\ TokenLife > Margin
  BY KisAssumption DEF IInv, CallOK, Margin
<1>1. CASE UseMemory(p)
  <2>1. CallOK(Sent(call[p], memory[p]))
    BY <1>0, <1>1, SentIsOK DEF UseMemory
  <2> QED BY <1>1, <2>1, OneCallStep DEF UseMemory
<1>2. CASE UseFile(p)
  <2>1. CallOK(Sent(call[p], file.life))
    BY <1>0, <1>2, SentIsOK DEF UseFile
  <2> QED BY <1>0, <1>2, <2>1 DEF UseFile, IInv, CallOK, CallInHand
<1>3. CASE ReadTornFile(p)
  <2>1. CallOK(Raised(call[p]))
    BY <1>0, DoneIsOK DEF Raised
  <2> QED BY <1>3, <2>1, OneCallStep DEF ReadTornFile
<1>4. CASE NeedToken(p)
  <2>1. CallOK([call[p] EXCEPT !.pc = "issue"])
    BY <1>0, <1>4, TokenStepIsOK DEF NeedToken
  <2>2. call' = [call EXCEPT ![p] = [call[p] EXCEPT !.pc = "issue"]]
    BY <1>4 DEF NeedToken
  <2> QED BY <1>4, <2>1, <2>2, OneCallStep DEF NeedToken
<1>5. CASE TokenIssued(p)
  <2>1. CallOK([call[p] EXCEPT !.pc = "write"])
    BY <1>0, <1>5, TokenStepIsOK DEF TokenIssued
  <2>2. call' = [call EXCEPT ![p] = [call[p] EXCEPT !.pc = "write"]]
    BY <1>5 DEF TokenIssued
  <2> QED BY <1>0, <1>5, <2>1, <2>2 DEF TokenIssued, IInv, CallOK, CallInHand
<1>6. CASE TokenWritten(p)
  <2>1. CallOK(Sent(call[p], TokenLife))
    BY <1>0, <1>6, SentIsOK DEF TokenWritten
  <2> QED BY <1>0, <1>6, <2>1 DEF TokenWritten, IInv, CallOK, CallInHand
<1>7. CASE TokenNotIssued(p)
  <2>1. PICK end \in {Ended(call[p]), Unreachable(call[p]), Raised(call[p])} :
          call' = [call EXCEPT ![p] = end]
    BY <1>7 DEF TokenNotIssued
  <2>2. CallOK(end)
    BY <1>0, EndedIsOK, UnreachableIsOK, DoneIsOK DEF Raised
  <2> QED BY <1>7, <2>1, <2>2, OneCallStep DEF TokenNotIssued
<1> QED BY <1>1, <1>2, <1>3, <1>4, <1>5, <1>6, <1>7 DEF Bearer

\* The end of a request.
LEMMA ReceiveStep ==
  ASSUME IInv, NEW p \in Procs, NEW ends, Receive(p, "sent", ends),
         \A end \in ends : CallOK(end)
  PROVE  IInv'
<1>1. PICK end \in ends : call' = [call EXCEPT ![p] = end]
  BY DEF Receive
<1> QED BY <1>1, OneCallStep DEF Receive

\* An answer, or none.
LEMMA ReplyStep ==
  ASSUME IInv, NEW p \in Procs, Reply(p)
  PROVE  IInv'
<1> DEFINE c == call[p]
<1>0. CallOK(c) /\ CallInHand(c) /\ (c.stage = "post" => CallInHand(Accepted(c)) /\ Accepted(c).pc = c.pc)
  BY AcceptedIsInHand DEF IInv, CallOK
<1>1. CASE QueryAnswered(p)
  <2>1. \A end \in Unwrapped(c) : CallOK(end)
    BY <1>0, UnwrappedIsOK
  <2> QED BY <1>1, <2>1, ReceiveStep DEF QueryAnswered
<1>2. CASE OrderAnswered(p)
  <2>0. c.stage = "post"
    BY <1>2 DEF OrderAnswered, At
  <2>1. CallOK(Ended(Accepted(c))) /\ CallOK(Ended(c)) /\ CallOK(Raised(c))
    BY <1>0, <2>0, EndedIsOK, DoneIsOK DEF Raised
  <2> QED BY <1>2, <2>1, ReceiveStep DEF OrderAnswered
<1>3. CASE ServerFails(p)
  <2>0. c.pc = "sent"
    BY <1>3 DEF ServerFails, Receive
  <2>1. \A end \in ServerError(c) : CallOK(end)
    BY <1>0, <2>0, ServerErrorIsOK
  <2>2. ASSUME c.stage = "post" PROVE \A end \in ServerError(Accepted(c)) : CallOK(end)
    BY <1>0, <2>0, <2>2, ServerErrorIsOK
  <2> QED BY <1>3, <2>1, <2>2, ReceiveStep DEF ServerFails
<1>4. CASE NoAnswer(p)
  <2>1. CallOK(Unreachable(c))
    BY <1>0, UnreachableIsOK
  <2>2. c.stage = "post" => CallOK(Unreachable(Accepted(c)))
    BY <1>0, UnreachableIsOK
  <2> QED BY <1>4, <2>1, <2>2, ReceiveStep DEF NoAnswer
<1> QED BY <1>1, <1>2, <1>3, <1>4 DEF Reply

\* Time: a request that was sent in time is still within the margin.
LEMMA TimeStep ==
  ASSUME IInv, TimePasses
  PROVE  IInv'
<1>1. ASSUME NEW p \in Procs, call[p].pc = "sent"
      PROVE  CallOK([call[p] EXCEPT !.life = Older(@), !.late = TRUE])
  <2> DEFINE c == call[p]
             d == [call[p] EXCEPT !.life = Older(@), !.late = TRUE]
  <2>0. c \in Calls /\ CallOK(c) /\ ~c.late /\ c.pc = "sent"
    BY <1>1 DEF TimePasses, IInv
  <2>1. c.life \in Nat /\ c.life > 1 /\ c.life <= TokenLife
    BY <2>0 DEF CallOK, CallInHand, Calls, Margin
  <2>2. /\ Older(c.life) \in Nat /\ Older(c.life) > 0
        /\ Older(c.life) <= TokenLife
    BY <2>1, KisAssumption DEF Older
  <2>3. d \in Calls
    BY <2>0, <2>2 DEF Calls
  <2>4. /\ d.pc = c.pc /\ d.stage = c.stage /\ d.tries = c.tries /\ d.life = Older(c.life)
        /\ d.transient = c.transient /\ d.gets = c.gets /\ d.accepted = c.accepted
        /\ d.op = c.op /\ d.inquired = c.inquired /\ d.late = TRUE
    BY <2>0 DEF Calls
  <2> HIDE DEF c, d
  <2>5. CallOK(d)
    BY <2>0, <2>2, <2>3, <2>4 DEF CallOK, CallInHand, SendsPaid
  <2> QED BY <2>5 DEF d
<1>2. \A p \in Procs : CallOK(call'[p])
  BY <1>1 DEF TimePasses, IInv
<1>3. call' \in [Procs -> Calls]
  BY <1>1 DEF TimePasses, IInv, CallOK, CallInHand
<1>0. \A life \in 0 .. TokenLife : Older(life) \in 0 .. TokenLife
  BY KisAssumption DEF Older
<1>4. memory' \in [Procs -> 0 .. TokenLife]
  BY <1>0 DEF TimePasses, IInv
<1>5. /\ file' \in [state : {"none", "torn", "whole"}, life : 0 .. TokenLife]
      /\ issued' \in BOOLEAN
  BY <1>0 DEF TimePasses, IInv
<1> QED BY <1>2, <1>3, <1>4, <1>5 DEF IInv

\* Every step keeps the invariant.
LEMMA NextInv == IInv /\ [Next]_vars => IInv'
<1> SUFFICES ASSUME IInv, [Next]_vars PROVE IInv'
  OBVIOUS
<1>1. ASSUME NEW p \in Procs, NEW op \in Ops, Begin(p, op) PROVE IInv'
  BY <1>1, BegunIsOK, OneCallStep DEF Begin
<1>2. ASSUME NEW p \in Procs, Bearer(p) PROVE IInv'
  BY <1>2, BearerStep
<1>3. ASSUME NEW p \in Procs, Reply(p) PROVE IInv'
  BY <1>3, ReplyStep
<1>4. ASSUME NEW p \in Procs, EndProcess(p) PROVE IInv'
  BY <1>4, IdleIsOK, KisAssumption DEF EndProcess, IInv, CallOK, CallInHand
<1>5. CASE TimePasses
  BY <1>5, TimeStep
<1>6. CASE MinutePasses
  BY <1>6 DEF MinutePasses, IInv
<1>7. CASE DeleteFile
  BY <1>7, KisAssumption DEF DeleteFile, IInv
<1>8. CASE UNCHANGED vars
  BY <1>8 DEF vars, IInv
<1> QED BY <1>1, <1>2, <1>3, <1>4, <1>5, <1>6, <1>7, <1>8 DEF Next

\* The invariant always holds.
LEMMA Inductive == Spec => []IInv
BY InitInv, NextInv, PTL DEF Spec

-----------------------------------------------------------------------------
(* Theorems.                                                               *)

\* The state is well typed: only an entry or an exit is inquired about, and the
\* counters stay within their budgets (KISClient, _get).
THEOREM KisTypes == Spec => []KisTypeOK
<1>1. IInv => KisTypeOK
  BY KisAssumption DEF IInv, KisTypeOK, CallOK, CallInHand, Calls, Busy, Ops
<1> QED BY <1>1, Inductive, PTL

\* No request is under way with an expired token, for any number of processes
\* that share the cache file (_bearer, _load_cached_token, _issue_token).
THEOREM TokensLive == Spec => []TokensAreLive
<1>1. IInv => TokensAreLive
  BY DEF IInv, TokensAreLive, CallOK, CallInHand
<1> QED BY <1>1, Inductive, PTL

\* No call brings about two orders at KIS (_post_order).
THEOREM OrdersOnce == Spec => []OrderAcceptedOnce
<1>1. IInv => OrderAcceptedOnce
  BY DEF IInv, OrderAcceptedOnce, CallOK, CallInHand
<1> QED BY <1>1, Inductive, PTL

\* A query is sent no more often than both retry budgets allow together (_get).
THEOREM QueriesAreBounded == Spec => []QueriesBounded
<1>1. IInv => QueriesBounded
  <2> SUFFICES ASSUME IInv, NEW p \in Procs PROVE call[p].gets < GetBound
    BY DEF QueriesBounded
  <2> DEFINE c == call[p]
  <2>1. CallInHand(c) /\ c.gets \in Nat /\ c.tries \in Nat /\ c.transient \in Nat
    BY DEF IInv, CallOK, Calls
  <2>2. /\ c.tries <= MaxRetries /\ c.transient < TransientAttempts
        /\ c.gets <= c.tries + c.transient + 1
        /\ c.tries = MaxRetries => c.gets <= MaxRetries + c.transient
    <3>1. CASE c.pc = "sent"
      BY <2>1, <3>1 DEF CallInHand, SendsPaid
    <3>2. CASE c.pc # "sent"
      BY <2>1, <3>2, KisAssumption DEF CallInHand, SendsPaid
    <3> QED BY <3>1, <3>2
  <2> HIDE DEF c
  <2>3. c.gets < GetBound
    BY <2>1, <2>2, KisAssumption DEF GetBound
  <2> QED BY <2>3 DEF c
<1> QED BY <1>1, Inductive, PTL
=============================================================================
