----------------------------- MODULE KisRequest -----------------------------
(***************************************************************************)
(* The requests of broker/kis_client.py: the access token and its cache    *)
(* file, the retries of a query (_get), the single send of an order        *)
(* (_post_order), and the calls made of them: a query, a stop (one send)   *)
(* and an entry or an exit (a send and the inquiry that follows it).       *)
(*                                                                         *)
(* Every process (cycle, watch, batch) has a client of its own with a      *)
(* token in memory; they share the cache file and KIS, which issues one    *)
(* token a minute.  A token is known by how long it still lives, in units  *)
(* of the ten minutes the client keeps as a margin.  Throttling and        *)
(* backoff only take time, which may pass between any two steps.           *)
(***************************************************************************)
EXTENDS Integers

CONSTANTS
  Procs,              \* the processes with a client
  MaxRetries,         \* rate_limits.toml: retry.max_retries
  TransientAttempts,  \* rate_limits.toml: retry.transient_max_attempts
  TokenLife           \* how long an issued token lives

ASSUME KisAssumption ==
  /\ MaxRetries \in Nat \ {0}
  /\ TransientAttempts \in Nat \ {0}
  /\ TokenLife \in Nat /\ TokenLife > 1

VARIABLES
  call,    \* for each process the call at hand, or the last one
  memory,  \* for each client the life of its token, 0 for none
  file,    \* the cache file: none, torn or whole, and the life of its token
  issued   \* KIS has issued a token within the last minute

vars == <<call, memory, file, issued>>

Margin == 1

Ops == {"query", "order", "stop"}
Busy == {"headers", "issue", "write", "sent"}

\* stage: the request at hand is a query or the send of an order; life: of the
\* token it carries; late: time has passed since it was sent.  gets, accepted
\* and inquired are histories of the call: its queries sent, the orders KIS has
\* accepted, whether the inquiry was begun.
Idle == [pc |-> "idle", op |-> "query", stage |-> "get", tries |-> 0, transient |-> 0,
         life |-> 0, late |-> FALSE, gets |-> 0, accepted |-> 0, inquired |-> FALSE]

Init ==
  /\ call = [p \in Procs |-> Idle]
  /\ memory = [p \in Procs |-> 0]
  /\ file \in [state : {"whole"}, life : 0 .. TokenLife] \cup [state : {"none"}, life : {0}]
  /\ issued = FALSE

At(p, pc, stage) == call[p].pc = pc /\ call[p].stage = stage

Begin(p, op) ==
  /\ call[p].pc \notin Busy
  /\ call' = [call EXCEPT ![p] = [Idle EXCEPT !.pc = "headers", !.op = op,
                                    !.stage = IF op = "query" THEN "get" ELSE "post"]]
  /\ UNCHANGED <<memory, file, issued>>

-----------------------------------------------------------------------------
(* How a request ends.  c is the call it belongs to; the result is the call *)
(* afterwards.                                                             *)

Done(c) ==
  [Idle EXCEPT !.pc = "done", !.op = c.op, !.accepted = c.accepted, !.inquired = c.inquired]

Again(c) == [c EXCEPT !.pc = "headers", !.life = 0, !.late = FALSE]

\* Mutant of Inquire: it asks by sending again.
InquireBySend(c) == [Again(c) EXCEPT !.inquired = TRUE]

\* After the send of an entry or an exit, whatever came of it, its inquiry.
Inquire(c) == [Again(c) EXCEPT !.stage = "get", !.inquired = TRUE]

\* An answer or a KISError, which is what a query ends with and what place_entry,
\* place_exit and place_stop catch.
Ended(c) == IF c.stage = "post" /\ c.op = "order" THEN Inquire(c) ELSE Done(c)

\* No other exception is caught here: the caller gets it.
Raised(c) == Done(c)

Retried(c) == [Again(c) EXCEPT !.tries = @ + 1]

\* Mutant of Unreachable: an order without an answer is sent again.
UnreachableResent(c) ==
  IF c.tries + 1 < MaxRetries THEN Retried(c) ELSE Ended(c)

\* No answer: a query is retried max_retries times in all, an order never.
Unreachable(c) ==
  IF c.stage = "post" THEN Raised(c)
  ELSE IF c.tries + 1 < MaxRetries THEN Retried(c) ELSE Ended(c)

\* Mutant of Limited: a new round of retries after each wait.
LimitedAnew(c) ==
  IF c.stage = "post" THEN Ended(c)
  ELSE IF c.transient + 1 >= TransientAttempts THEN Ended(c)
  ELSE [Again(c) EXCEPT !.transient = @ + 1, !.tries = 0]

\* Refused for now: a budget of its own.
Limited(c) ==
  IF c.stage = "post" THEN Ended(c)
  ELSE IF c.transient + 1 >= TransientAttempts THEN Ended(c)
  ELSE [Again(c) EXCEPT !.transient = @ + 1]

\* _unwrap: the body may say ok (a body without rt_cd does), refuse, refuse for
\* now, or be no JSON at all.
Unwrapped(c) == {Ended(c), Limited(c), Raised(c)}

\* Mutant of ServerError: a server in trouble is waited for.
ServerErrorForever(c) ==
  IF c.stage = "get" THEN {[Again(c) EXCEPT !.tries = MaxRetries - 1]} ELSE Unwrapped(c)

\* 5xx: retried as if unreachable, and then taken for what its body says.  It
\* counts as a try then, too.
ServerError(c) ==
  IF c.stage = "get" /\ c.tries + 1 < MaxRetries THEN {Retried(c)}
  ELSE IF c.stage = "get" THEN Unwrapped([c EXCEPT !.tries = MaxRetries])
  ELSE Unwrapped(c)

-----------------------------------------------------------------------------
(* The token: in memory, in the file, or a new one.                        *)

\* gets is counted up to GetBound, which no call should reach.
GetBound == MaxRetries + TransientAttempts

Sent(c, life) ==
  [c EXCEPT !.pc = "sent", !.life = life, !.late = FALSE,
            !.gets = IF c.stage = "get" /\ @ < GetBound THEN @ + 1 ELSE @]

\* Mutant of UseMemory: a token in memory is not looked at again.
UseMemoryUnchecked(p) ==
  /\ call[p].pc = "headers" /\ memory[p] > 0
  /\ call' = [call EXCEPT ![p] = Sent(@, memory[p])]
  /\ UNCHANGED <<memory, file, issued>>

UseMemory(p) ==
  /\ call[p].pc = "headers" /\ memory[p] > Margin
  /\ call' = [call EXCEPT ![p] = Sent(@, memory[p])]
  /\ UNCHANGED <<memory, file, issued>>

UseFile(p) ==
  /\ call[p].pc = "headers" /\ memory[p] <= Margin
  /\ file.state = "whole" /\ file.life > Margin
  /\ memory' = [memory EXCEPT ![p] = file.life]
  /\ call' = [call EXCEPT ![p] = Sent(@, file.life)]
  /\ UNCHANGED <<file, issued>>

\* A file another process is writing, or died writing, is no JSON.
ReadTornFile(p) ==
  /\ call[p].pc = "headers" /\ memory[p] <= Margin
  /\ file.state = "torn"
  /\ call' = [call EXCEPT ![p] = Raised(@)]
  /\ UNCHANGED <<memory, file, issued>>

NeedToken(p) ==
  /\ call[p].pc = "headers" /\ memory[p] <= Margin
  /\ file.state # "torn" /\ file.life <= Margin
  /\ call' = [call EXCEPT ![p].pc = "issue"]
  /\ UNCHANGED <<memory, file, issued>>

\* write_text empties the file before it fills it.
TokenIssued(p) ==
  /\ call[p].pc = "issue" /\ ~issued
  /\ issued' = TRUE
  /\ file' = [state |-> "torn", life |-> 0]
  /\ call' = [call EXCEPT ![p].pc = "write"]
  /\ UNCHANGED memory

TokenWritten(p) ==
  /\ call[p].pc = "write"
  /\ file' = [state |-> "whole", life |-> TokenLife]
  /\ memory' = [memory EXCEPT ![p] = TokenLife]
  /\ call' = [call EXCEPT ![p] = Sent(@, TokenLife)]
  /\ UNCHANGED issued

\* KIS refuses a token (always so within a minute of the last), or answers
\* nothing, or nothing that is JSON.
TokenNotIssued(p) ==
  /\ call[p].pc = "issue"
  /\ \E end \in {Ended(call[p]), Unreachable(call[p]), Raised(call[p])} :
       call' = [call EXCEPT ![p] = end]
  /\ UNCHANGED <<memory, file, issued>>

-----------------------------------------------------------------------------
(* What comes back.  An order may have been accepted whatever comes back.  *)

Receive(p, pc, ends) ==
  /\ call[p].pc = pc
  /\ \E end \in ends : call' = [call EXCEPT ![p] = end]
  /\ UNCHANGED <<memory, file, issued>>

Accepted(c) == [c EXCEPT !.accepted = @ + 1]

QueryAnswered(p) ==
  At(p, "sent", "get") /\ Receive(p, "sent", Unwrapped(call[p]))

OrderAnswered(p) ==
  /\ At(p, "sent", "post")
  /\ Receive(p, "sent",
       {Ended(Accepted(call[p])), Ended(call[p]), Raised(call[p])})

ServerFails(p) ==
  Receive(p, "sent",
    ServerError(call[p]) \cup
      (IF call[p].stage = "post" THEN ServerError(Accepted(call[p])) ELSE {}))

NoAnswer(p) ==
  Receive(p, "sent",
    {Unreachable(call[p])} \cup
      (IF call[p].stage = "post" THEN {Unreachable(Accepted(call[p]))} ELSE {}))

-----------------------------------------------------------------------------
(* Time and the end of processes.                                          *)

Older(life) == IF life > 0 THEN life - 1 ELSE 0

\* A request is answered or times out in ten seconds, so that the margin
\* elapses at most once while it is under way.
TimePasses ==
  /\ \A p \in Procs : ~call[p].late
  /\ memory' = [p \in Procs |-> Older(memory[p])]
  /\ file' = [file EXCEPT !.life = Older(@)]
  /\ call' = [p \in Procs |-> IF call[p].pc = "sent"
                              THEN [call[p] EXCEPT !.life = Older(@), !.late = TRUE]
                              ELSE call[p]]
  /\ issued' = FALSE

MinutePasses == issued /\ issued' = FALSE /\ UNCHANGED <<call, memory, file>>

\* A process ends or dies, and its token in memory with it; the next one is
\* another client.
EndProcess(p) ==
  /\ call' = [call EXCEPT ![p] = Idle]
  /\ memory' = [memory EXCEPT ![p] = 0]
  /\ UNCHANGED <<file, issued>>

\* A person deletes a cache file that cannot be read.
DeleteFile ==
  /\ file.state = "torn" /\ \A p \in Procs : call[p].pc # "write"
  /\ file' = [state |-> "none", life |-> 0]
  /\ UNCHANGED <<call, memory, issued>>

-----------------------------------------------------------------------------
Bearer(p) ==
  \/ UseMemory(p) \/ UseFile(p) \/ ReadTornFile(p) \/ NeedToken(p)
  \/ TokenIssued(p) \/ TokenWritten(p) \/ TokenNotIssued(p)

Reply(p) == QueryAnswered(p) \/ OrderAnswered(p) \/ ServerFails(p) \/ NoAnswer(p)

Next ==
  \/ \E p \in Procs :
       \/ \E op \in Ops : Begin(p, op)
       \/ Bearer(p)
       \/ Reply(p)
       \/ EndProcess(p)
  \/ TimePasses
  \/ MinutePasses
  \/ DeleteFile

Spec == Init /\ [][Next]_vars

\* A process that has begun a call goes on with it, and every request is
\* answered or times out.
FairSpec == Spec /\ \A p \in Procs : WF_vars(Bearer(p) \/ Reply(p))

-----------------------------------------------------------------------------
(* Properties.                                                             *)

\* The variables have their types, only the process that was given a token
\* writes the file, and a call that is not a query ends with an answer.
KisTypeOK ==
  /\ memory \in [Procs -> 0 .. TokenLife]
  /\ file.state \in {"none", "torn", "whole"} /\ file.life \in 0 .. TokenLife
  /\ issued \in BOOLEAN
  /\ \A p \in Procs :
       /\ call[p].pc \in Busy \cup {"idle", "done"}
       /\ call[p].op \in Ops /\ call[p].stage \in {"get", "post"}
       /\ call[p].tries \in 0 .. MaxRetries /\ call[p].transient \in 0 .. TransientAttempts - 1
       /\ call[p].life \in 0 .. TokenLife /\ call[p].late \in BOOLEAN
       /\ call[p].inquired => call[p].op = "order" /\ call[p].stage = "get"

\* No request is under way with an expired token, however long its process has
\* run and whoever wrote the file (kis_client.py, _load_cached_token: tokens
\* are renewed ten minutes early).
TokensAreLive == \A p \in Procs : call[p].pc = "sent" => call[p].life > 0

\* No call brings about two orders at KIS, whatever was lost and retried
\* (_post_order: no retry, to prevent duplicate orders).
OrderAcceptedOnce == \A p \in Procs : call[p].accepted <= 1

\* The two budgets of _get share a loop and add up: a query is sent no more often
\* than both allow together.
QueriesBounded == \A p \in Procs : call[p].gets < GetBound

\* Every call ends, with an answer or an error, however often it is refused for
\* now, unreachable or in need of a token.
CallsEnd == \A p \in Procs : (call[p].pc \in Busy) ~> (call[p].pc \notin Busy)

\* An entry or exit that was sent is inquired about in the same call, whatever
\* came of the send, unless its process has died (10.2 of the operations guide: a failed
\* send leaves it unknown whether the order was accepted, so one inquiry follows).
SendIsInquired ==
  \A p \in Procs : call[p].pc = "done" /\ call[p].accepted > 0 /\ call[p].op = "order"
                     => call[p].inquired
=============================================================================
