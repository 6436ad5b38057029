---------------------------- MODULE IngestProofs ----------------------------
(***************************************************************************)
(* Proofs about the daily batch and what the cycle reads of it, for any    *)
(* number of stocks, halted ones among them, and any number of batches.    *)
(***************************************************************************)
EXTENDS Ingest, SumTheorems, TLAPS

Statuses == {"ok", "partial", "failed"}
Tables == FreshTables \cup {"symbols", "daily_flows", "market_indices"}
Hours == {"eve", "morning", "session"}

Results == [table : Tables, status : Statuses, wrote : BOOLEAN]
RunRows == [status : Statuses \cup {"none"}, wrote : BOOLEAN, hour : Hours \cup {"none"}]

Jobs ==
  [pc : JobSteps, date : BatchDates, resume : BOOLEAN, limit : 0 .. Listed,
   out : Seq(Results), targets : SUBSET Codes, gaps : SUBSET (Codes \ Halted),
   todo : SUBSET Codes, flowTodo : SUBSET Codes, barFail : SUBSET Codes,
   flowFail : SUBSET Codes, barOk : Nat, flowOk : Nat, wroteBars : BOOLEAN, second : BOOLEAN]

Cycles ==
  [pc : {"none", "checked", "loaded", "stopped"}, fresh : BOOLEAN,
   missed : SUBSET (Codes \ Halted), basis : [Codes -> {NoBar} \cup Days]]

Types ==
  /\ hour \in Hours /\ symbols \in {{}, Codes}
  /\ bars \in [Codes -> SUBSET Days]
  /\ scores \in [Days -> [Codes -> {NoBar} \cup Days]]
  /\ rows \in [FreshTables -> RunRows]
  /\ job \in Jobs /\ cycle \in Cycles
  /\ runs \in 0 .. MaxRuns /\ {died, late} \subseteq BOOLEAN
  /\ missed \in SUBSET (Codes \ Halted)

\* The stocks a sweep has no bars of, and those it has bars and no flows of.
NoBarsYet == job.barFail \cup job.todo
NoFlowsYet == job.flowFail \cup job.flowTodo

\* A batch that has not loaded its targets has counted nothing.
NewJob ==
  job.pc \in {"idle", "symbols", "load"} =>
    /\ job.targets = {} /\ job.gaps = {} /\ job.todo = {} /\ job.flowTodo = {} /\ job.barFail = {}
    /\ job.flowFail = {} /\ job.barOk = 0 /\ job.flowOk = 0
    /\ ~job.wroteBars /\ ~job.second

\* The four sets of a sweep do not meet, and what is in none of them is counted.
Counted(targets, todo, barFail, flowTodo, flowFail, barOk, flowOk) ==
  /\ barFail \cup todo \cup (flowFail \cup flowTodo) \subseteq targets
  /\ barFail \cap todo = {} /\ flowFail \cap flowTodo = {}
  /\ (barFail \cup todo) \cap (flowFail \cup flowTodo) = {}
  /\ barOk + Cardinality(barFail \cup todo) = Cardinality(targets)
  /\ flowOk + Cardinality((barFail \cup todo) \cup (flowFail \cup flowTodo))
       = Cardinality(targets)

SweepCounts ==
  /\ NoBarsYet \cup NoFlowsYet \subseteq job.targets
  /\ job.pc = "sweep" =>
       /\ Counted(job.targets, job.todo, job.barFail, job.flowTodo, job.flowFail,
                  job.barOk, job.flowOk)
       /\ ~job.second => job.flowTodo = {}

\* A batch at work in the session makes the day a late one.
LateKept == hour = "session" /\ job.pc # "idle" => late

\* Today's bar comes with the one of the day before, and only in the session.
BarsKept ==
  \A c \in Codes : Today \in bars[c] => Prev \in bars[c] /\ late

\* What a sweep has done is in the table.
SweepKept ==
  job.pc = "sweep" =>
    /\ symbols = Codes
    /\ job.date = Today =>
         \A c \in Codes \ (Halted \cup NoBarsYet \cup job.gaps) : Prev \in bars[c]
    /\ ~job.wroteBars => job.targets \ NoBarsYet \subseteq Halted \cup job.gaps

\* Every stock that trades and was not left out has the bar of the day before, or
\* is scored on it.
AllBars(left) == symbols = Codes /\ \A c \in Codes \ (Halted \cup left) : Prev \in bars[c]
AllScored(left) == \A c \in Codes \ (Halted \cup left) : scores[Prev][c] = Prev

Good(r) == r.status = "ok" /\ r.wrote

\* A good row of the bars is true, written or about to be.
RowsKept ==
  /\ Good(rows["daily_bars"]) => AllBars(missed)
  /\ \A i \in DOMAIN job.out : job.out[i].table = "daily_bars" =>
       /\ job.pc = "indices"
       /\ job.date = Today /\ Good(job.out[i]) => AllBars(job.gaps)

\* The bars of the run are recorded and its scores are not computed yet.
Between == job.pc \in {"indices", "scores"} /\ job.date = Today

\* On a quiet day the scores follow the bars before the next batch is started.
QuietKept ==
  ~died /\ ~late =>
    /\ Good(rows["daily_bars"]) => AllScored(missed) \/ Between
    /\ cycle.pc = "checked" /\ cycle.fresh => AllScored(cycle.missed) /\ AllBars(cycle.missed)
    /\ cycle.pc = "loaded" /\ cycle.fresh =>
         \A c \in Codes \ (Halted \cup cycle.missed) : cycle.basis[c] = Prev

FreshRow(t) == Good(rows[t]) /\ rows[t].hour \in {"morning", "session"}
NoFreshTable(out) == \A i \in DOMAIN out : out[i].table \notin FreshTables

\* A result is recorded, or is the next to be.
Has(t) == FreshRow(t) /\ NoFreshTable(job.out)
Reports(t) ==
  job.out # <<>> /\ Head(job.out) = StepResult(t, "ok", TRUE) /\ NoFreshTable(Tail(job.out))

Clean ==
  /\ job.date = Today /\ hour # "eve"
  /\ job.targets \ (Halted \cup job.gaps) # {} /\ job.barFail = {}

\* The row of the bars is recorded, with the stocks it leaves out.
HasBars == Has("daily_bars") /\ missed = job.gaps

\* What a whole run of the day has written by each of its last steps.
CleanKept ==
  Clean =>
    /\ job.pc = "indices" => Reports("daily_bars") \/ HasBars
    /\ job.pc = "scores" => HasBars
    /\ job.pc = "stop" =>
         FreshRow("daily_bars") /\ (Reports("daily_scores") \/ Has("daily_scores"))

IngestInv ==
  /\ Types /\ NewJob /\ SweepCounts /\ LateKept /\ BarsKept /\ SweepKept
  /\ RowsKept /\ QuietKept /\ CleanKept

-----------------------------------------------------------------------------
(* The operators.                                                          *)

\* The stocks are finitely many.
LEMMA CodesAre == Codes \subseteq Nat /\ IsFiniteSet(Codes)
BY IngestAssumption, FS_Interval DEF Codes

\* The batch takes a stock that is at hand.
LEMMA FirstIs ==
  ASSUME NEW stocks \in SUBSET Codes, stocks # {}
  PROVE  First(stocks) \in stocks
<1>1. \E c \in stocks : \A e \in stocks : c <= e
  BY CodesAre, LeastCounterexample
<1> QED BY <1>1 DEF First

\* The latest date is one of them, and none is later.
LEMMA LatestIs ==
  ASSUME NEW dates \in SUBSET Days
  PROVE  /\ dates = {} => LatestOf(dates) = NoBar
         /\ dates # {} => LatestOf(dates) \in dates /\ \A e \in dates : e <= LatestOf(dates)
<1>1. dates # {} => \E d \in dates : \A e \in dates : e <= d
  <2>1. \A e \in dates : e \in {1, 2, 3}
    BY DEF Days, Before, Today
  <2>2. CASE 3 \in dates
    BY <2>1, <2>2
  <2>3. CASE 3 \notin dates /\ 2 \in dates
    BY <2>1, <2>3
  <2>4. CASE 3 \notin dates /\ 2 \notin dates
    BY <2>1, <2>4
  <2> QED BY <2>2, <2>3, <2>4
<1> QED BY <1>1 DEF LatestOf

\* What a source offers: the bar of the day before, and today's only in the session.
LEMMA OfferedIs ==
  ASSUME NEW date \in BatchDates, NEW open, open = BarsOffered(date)
  PROVE  /\ open \in SUBSET Days
         /\ Today \in open => hour = "session"
         /\ Prev \in open
<1>1. Prev \in Days /\ Prev < Today
  BY DEF Days, Prev, Before, Today
<1>2. date \in {2, 3}
  BY DEF BatchDates, Prev, Today
<1>3. open = {d \in Days : d <= date /\ (d < Today \/ hour = "session")}
  BY DEF BarsOffered
<1>4. Prev \in open
  BY <1>1, <1>2, <1>3 DEF Prev
<1>5. Today \in open => hour = "session"
  BY <1>3 DEF Today
<1> QED BY <1>3, <1>4, <1>5

\* A result is a status and whether rows were written.
LEMMA StatusIs ==
  ASSUME NEW ok \in Nat, NEW targets \in Nat
  PROVE  /\ StatusOf(ok, targets) \in Statuses
         /\ StatusOf(ok, targets) = "ok" => ok = targets
         /\ ok = targets /\ targets > 0 => StatusOf(ok, targets) = "ok"
BY DEF StatusOf, Statuses

\* The fields of a result.
LEMMA ResultIs ==
  ASSUME NEW table \in Tables, NEW status \in Statuses, NEW wrote \in BOOLEAN
  PROVE  /\ StepResult(table, status, wrote) \in Results
         /\ StepResult(table, status, wrote).table = table
         /\ StepResult(table, status, wrote).status = status
         /\ StepResult(table, status, wrote).wrote = wrote
BY DEF StepResult, Results

\* One result to be recorded.
LEMMA OneResult ==
  ASSUME NEW r \in Results
  PROVE  /\ <<r>> \in Seq(Results) /\ DOMAIN <<r>> = {1} /\ <<r>>[1] = r
         /\ <<r>> # <<>> /\ Head(<<r>>) = r /\ Tail(<<r>>) = <<>>
OBVIOUS

\* Two results to be recorded.
LEMMA TwoResults ==
  ASSUME NEW r \in Results, NEW q \in Results
  PROVE  /\ <<r, q>> \in Seq(Results) /\ DOMAIN <<r, q>> = {1, 2}
         /\ <<r, q>>[1] = r /\ <<r, q>>[2] = q
         /\ <<r, q>> # <<>> /\ Head(<<r, q>>) = r /\ Tail(<<r, q>>) = <<q>>
OBVIOUS

-----------------------------------------------------------------------------
(* What each step of the batch does to its process.                        *)

\* The process that is not there.
LEMMA IdleIs ==
  /\ IdleJob \in Jobs /\ IdleJob.pc = "idle" /\ IdleJob.out = <<>>
  /\ IdleJob.targets = {} /\ IdleJob.gaps = {} /\ IdleJob.todo = {} /\ IdleJob.flowTodo = {}
  /\ IdleJob.barFail = {} /\ IdleJob.flowFail = {}
  /\ IdleJob.barOk = 0 /\ IdleJob.flowOk = 0
  /\ IdleJob.wroteBars = FALSE /\ IdleJob.second = FALSE
BY IngestAssumption DEF IdleJob, Jobs, JobSteps, BatchDates

\* A batch starts.
LEMMA StartIs ==
  ASSUME NEW date \in BatchDates, NEW resume \in BOOLEAN, NEW skip \in BOOLEAN,
         NEW limit \in 0 .. Listed, StartBatch(date, resume, skip, limit)
  PROVE  /\ job' \in Jobs /\ job'.pc \in {"symbols", "load"} /\ job'.out = <<>>
         /\ job'.targets = {} /\ job'.gaps = {} /\ job'.todo = {} /\ job'.flowTodo = {}
         /\ job'.barFail = {} /\ job'.flowFail = {} /\ job'.barOk = 0 /\ job'.flowOk = 0
         /\ ~job'.wroteBars /\ ~job'.second
<1>1. job' = [IdleJob EXCEPT !.pc = IF skip THEN "load" ELSE "symbols",
                            !.date = date, !.resume = resume, !.limit = limit]
  BY DEF StartBatch
<1> DEFINE pc == IF skip THEN "load" ELSE "symbols"
<1>2. pc \in {"symbols", "load"} /\ pc \in JobSteps
  BY DEF JobSteps
<1> HIDE DEF pc
<1>3. job' = [IdleJob EXCEPT !.pc = pc, !.date = date, !.resume = resume, !.limit = limit]
  BY <1>1 DEF pc
<1>4. job' \in Jobs
  BY <1>2, <1>3, IdleIs DEF Jobs
<1> QED BY <1>2, <1>3, <1>4, IdleIs DEF Jobs

\* Another step of the process, or another list of results, and nothing else.
MovesTo(pc, out) ==
  /\ job'.pc = pc /\ job'.out = out
  /\ job'.date = job.date /\ job'.resume = job.resume /\ job'.gaps = job.gaps
  /\ job'.targets = job.targets /\ job'.todo = job.todo /\ job'.flowTodo = job.flowTodo
  /\ job'.barFail = job.barFail /\ job'.flowFail = job.flowFail
  /\ job'.barOk = job.barOk /\ job'.flowOk = job.flowOk
  /\ job'.wroteBars = job.wroteBars /\ job'.second = job.second

\* The next result is recorded.
LEMMA RecordIs ==
  ASSUME job \in Jobs, Record
  PROVE  job' \in Jobs /\ MovesTo(job.pc, Tail(job.out)) /\ Head(job.out) \in Results
<1>1. job.out # <<>> /\ job' = [job EXCEPT !.out = Tail(@)]
  BY DEF Record
<1>2. job.out \in Seq(Results)
  BY DEF Jobs
<1>3. Tail(job.out) \in Seq(Results) /\ Head(job.out) \in Results
  BY <1>1, <1>2
<1>4. job' \in Jobs
  BY <1>1, <1>3 DEF Jobs
<1> QED BY <1>1, <1>3, <1>4 DEF Jobs, MovesTo

\* The symbols are read, or cannot be.
LEMMA SymbolsIs ==
  ASSUME job \in Jobs, IngestSymbols
  PROVE  /\ job' \in Jobs
         /\ \/ /\ symbols' = Codes
               /\ MovesTo("load", <<StepResult("symbols", "ok", Codes # {})>>)
            \/ /\ symbols' = symbols
               /\ MovesTo("stop", <<StepResult("symbols", "failed", FALSE)>>)
<1>1. <<StepResult("symbols", "ok", Codes # {})>> \in Seq(Results)
  BY ResultIs, OneResult DEF Tables, Statuses
<1>2. <<StepResult("symbols", "failed", FALSE)>> \in Seq(Results)
  BY ResultIs, OneResult DEF Tables, Statuses
<1> DEFINE good == <<StepResult("symbols", "ok", Codes # {})>>
           bad == <<StepResult("symbols", "failed", FALSE)>>
<1>3. \/ symbols' = Codes /\ job' = [job EXCEPT !.pc = "load", !.out = good]
      \/ symbols' = symbols /\ job' = [job EXCEPT !.pc = "stop", !.out = bad]
  BY DEF IngestSymbols, UpsertSymbols
<1> HIDE DEF good, bad
<1>4. CASE symbols' = Codes /\ job' = [job EXCEPT !.pc = "load", !.out = good]
  <2>1. job' \in Jobs
    BY <1>1, <1>4 DEF good, Jobs, JobSteps
  <2>2. MovesTo("load", good)
    BY <1>4 DEF Jobs, MovesTo
  <2> QED BY <1>4, <2>1, <2>2 DEF good
<1>5. CASE symbols' = symbols /\ job' = [job EXCEPT !.pc = "stop", !.out = bad]
  <2>1. job' \in Jobs
    BY <1>2, <1>5 DEF bad, Jobs, JobSteps
  <2>2. MovesTo("stop", bad)
    BY <1>5 DEF Jobs, MovesTo
  <2> QED BY <1>5, <2>1, <2>2 DEF bad
<1> QED BY <1>3, <1>4, <1>5

\* The stocks of the run are loaded, or there are none and it ends.
LEMMA LoadIs ==
  ASSUME job \in Jobs, symbols \in {{}, Codes}, LoadTargets
  PROVE  /\ job' \in Jobs /\ job.pc = "load" /\ job.out = <<>>
         /\ \/ job' = IdleJob
            \/ \E targets \in SUBSET Codes, gaps \in SUBSET (Codes \ Halted) :
                /\ symbols = Codes
                /\ \A c \in Codes \ targets :
                     c \in Halted \cup gaps \/ (job.resume /\ c \in AlreadyDone(job.date))
                /\ job'.pc = "sweep" /\ job'.out = job.out /\ job'.gaps = gaps
                /\ job'.date = job.date /\ job'.resume = job.resume
                /\ job'.targets = targets /\ job'.todo = targets
                /\ job'.flowTodo = job.flowTodo
                /\ job'.barFail = job.barFail /\ job'.flowFail = job.flowFail
                /\ job'.barOk = job.barOk /\ job'.flowOk = job.flowOk
                /\ job'.wroteBars = job.wroteBars /\ job'.second = job.second
<1> DEFINE codes == LimitedTo(job.limit)
           targets == codes \ (IF job.resume THEN AlreadyDone(job.date) ELSE {})
           gaps == symbols \ (codes \cup Halted)
<1>1. /\ job.pc = "load" /\ job.out = <<>>
      /\ job' = IF codes = {} THEN IdleJob
                ELSE [job EXCEPT !.pc = "sweep", !.limit = 0, !.targets = targets,
                        !.todo = targets, !.gaps = gaps]
  BY DEF LoadTargets, Running
<1>2. codes \in SUBSET symbols /\ symbols \in SUBSET Codes
  BY DEF LimitedTo
<1>3. /\ targets \in SUBSET Codes /\ gaps \in SUBSET (Codes \ Halted)
      /\ codes # {} => symbols = Codes
      /\ \A c \in symbols \ targets :
           c \in Halted \cup gaps \/ (job.resume /\ c \in AlreadyDone(job.date))
  BY <1>2
<1> HIDE DEF codes, targets, gaps
<1>4. CASE codes = {}
  BY <1>1, <1>4, IdleIs
<1>5. CASE codes # {}
  <2>1. job' = [job EXCEPT !.pc = "sweep", !.limit = 0, !.targets = targets,
                  !.todo = targets, !.gaps = gaps]
    BY <1>1, <1>5
  <2>2. job' \in Jobs
    <3>1. 0 \in 0 .. Listed
      BY IngestAssumption
    <3> QED BY <1>3, <2>1, <3>1 DEF Jobs, JobSteps
  <2>3. /\ job'.pc = "sweep" /\ job'.out = job.out /\ job'.gaps = gaps
        /\ job'.date = job.date /\ job'.resume = job.resume
        /\ job'.targets = targets /\ job'.todo = targets
        /\ job'.flowTodo = job.flowTodo
        /\ job'.barFail = job.barFail /\ job'.flowFail = job.flowFail
        /\ job'.barOk = job.barOk /\ job'.flowOk = job.flowOk
        /\ job'.wroteBars = job.wroteBars /\ job'.second = job.second
    BY <2>1 DEF Jobs
  <2> QED BY <1>1, <1>3, <1>5, <2>2, <2>3
<1> QED BY <1>4, <1>5

\* What a step of the sweep leaves alone.
Sweeps ==
  /\ job.pc = "sweep" /\ job.out = <<>> /\ job'.pc = "sweep" /\ job'.out = <<>>
  /\ job'.date = job.date /\ job'.resume = job.resume /\ job'.targets = job.targets

\* The bars of a stock do not come.
LEMMA BarsFailIs ==
  ASSUME job \in Jobs, NEW c \in Codes, BarsFail(c)
  PROVE  /\ job' \in Jobs /\ Sweeps /\ c \in job.todo /\ job'.gaps = job.gaps
         /\ job'.todo = job.todo \ {c} /\ job'.barFail = job.barFail \cup {c}
         /\ job'.flowTodo = job.flowTodo /\ job'.flowFail = job.flowFail
         /\ job'.barOk = job.barOk /\ job'.flowOk = job.flowOk
         /\ job'.wroteBars = job.wroteBars /\ job'.second = job.second
<1>1. /\ job.pc = "sweep" /\ job.out = <<>> /\ job.todo # {} /\ c = First(job.todo)
      /\ job' = [job EXCEPT !.todo = @ \ {c}, !.barFail = @ \cup {c}]
  BY DEF BarsFail, Running
<1>2. job.todo \in SUBSET Codes
  BY DEF Jobs
<1>3. c \in job.todo
  BY <1>1, <1>2, FirstIs
<1>4. job' \in Jobs
  BY <1>1 DEF Jobs
<1> QED BY <1>1, <1>3, <1>4 DEF Jobs, Sweeps

\* A stock is answered with no bars.
LEMMA NoBarsIs ==
  ASSUME job \in Jobs, NEW c \in Codes, NoBars(c)
  PROVE  /\ job' \in Jobs /\ Sweeps /\ c \in job.todo
         /\ job'.gaps = job.gaps \cup ({c} \ Halted)
         /\ job'.todo = job.todo \ {c} /\ job'.barFail = job.barFail
         /\ job'.flowTodo = job.flowTodo /\ job'.flowFail = job.flowFail
         /\ job'.barOk = job.barOk + 1 /\ job'.flowOk = job.flowOk + 1
         /\ job'.wroteBars = job.wroteBars /\ job'.second = job.second
<1>1. /\ job.pc = "sweep" /\ job.out = <<>> /\ job.todo # {} /\ c = First(job.todo)
      /\ job' = [job EXCEPT !.todo = @ \ {c}, !.barOk = @ + 1, !.flowOk = @ + 1,
                   !.gaps = @ \cup ({c} \ Halted)]
  BY DEF NoBars, Running
<1>2. job.todo \in SUBSET Codes
  BY DEF Jobs
<1>3. c \in job.todo
  BY <1>1, <1>2, FirstIs
<1>4. job' \in Jobs
  <2> DEFINE b == job.barOk + 1
             f == job.flowOk + 1
  <2>1. b \in Nat /\ f \in Nat
    BY DEF Jobs
  <2>2. job' = [job EXCEPT !.todo = @ \ {c}, !.barOk = b, !.flowOk = f,
                  !.gaps = @ \cup ({c} \ Halted)]
    BY <1>1
  <2> HIDE DEF b, f
  <2> QED BY <2>1, <2>2 DEF Jobs
<1> QED BY <1>1, <1>3, <1>4 DEF Jobs, Sweeps

\* The bars of a stock are stored, and its flows are or are not.
LEMMA StoreIs ==
  ASSUME job \in Jobs, NEW c \in Codes, StoreBars(c)
  PROVE  /\ job' \in Jobs /\ Sweeps /\ c \in job.todo /\ c \notin Halted
         /\ job'.gaps = job.gaps
         /\ bars' = [bars EXCEPT ![c] = @ \cup BarsOffered(job.date)]
         /\ job'.todo = job.todo \ {c} /\ job'.barFail = job.barFail
         /\ job'.flowTodo = job.flowTodo /\ job'.barOk = job.barOk + 1
         /\ job'.wroteBars = TRUE /\ job'.second = job.second
         /\ \/ job'.flowFail = job.flowFail \cup {c} /\ job'.flowOk = job.flowOk
            \/ job'.flowFail = job.flowFail /\ job'.flowOk = job.flowOk + 1
<1>1. /\ job.pc = "sweep" /\ job.out = <<>> /\ job.todo # {} /\ c = First(job.todo)
      /\ c \notin Halted
      /\ bars' = [bars EXCEPT ![c] = @ \cup BarsOffered(job.date)]
  BY DEF StoreBars, Running, UpsertDailyBars
<1>2. job.todo \in SUBSET Codes
  BY DEF Jobs
<1>3. c \in job.todo
  BY <1>1, <1>2, FirstIs
<1>4. \/ job' = [job EXCEPT !.todo = @ \ {c}, !.barOk = @ + 1, !.wroteBars = TRUE,
                   !.flowFail = @ \cup {c}, !.flowOk = @]
      \/ job' = [job EXCEPT !.todo = @ \ {c}, !.barOk = @ + 1, !.wroteBars = TRUE,
                   !.flowFail = @, !.flowOk = @ + 1]
  <2>1. PICK fail \in BOOLEAN :
          job' = [job EXCEPT !.todo = @ \ {c}, !.barOk = @ + 1, !.wroteBars = TRUE,
                   !.flowFail = IF fail THEN @ \cup {c} ELSE @,
                   !.flowOk = IF fail THEN @ ELSE @ + 1]
    BY DEF StoreBars
  <2>2. CASE fail
    BY <2>1, <2>2
  <2>3. CASE ~fail
    BY <2>1, <2>3
  <2> QED BY <2>2, <2>3
<1>5. CASE job' = [job EXCEPT !.todo = @ \ {c}, !.barOk = @ + 1, !.wroteBars = TRUE,
                   !.flowFail = @ \cup {c}, !.flowOk = @]
  <2>1. job' \in Jobs
    <3> DEFINE b == job.barOk + 1
               f == job.flowOk + 1
    <3>1. b \in Nat /\ f \in Nat
      BY DEF Jobs
    <3>2. job' = [job EXCEPT !.todo = @ \ {c}, !.barOk = b, !.wroteBars = TRUE,
                    !.flowFail = @ \cup {c}, !.flowOk = @]
      BY <1>5
    <3> HIDE DEF b, f
    <3> QED BY <3>1, <3>2 DEF Jobs
  <2> QED BY <1>1, <1>3, <1>5, <2>1 DEF Jobs, Sweeps
<1>6. CASE job' = [job EXCEPT !.todo = @ \ {c}, !.barOk = @ + 1, !.wroteBars = TRUE,
                   !.flowFail = @, !.flowOk = @ + 1]
  <2>1. job' \in Jobs
    <3> DEFINE b == job.barOk + 1
               f == job.flowOk + 1
    <3>1. b \in Nat /\ f \in Nat
      BY DEF Jobs
    <3>2. job' = [job EXCEPT !.todo = @ \ {c}, !.barOk = b, !.wroteBars = TRUE,
                    !.flowFail = @, !.flowOk = f]
      BY <1>6
    <3> HIDE DEF b, f
    <3> QED BY <3>1, <3>2 DEF Jobs
  <2> QED BY <1>1, <1>3, <1>6, <2>1 DEF Jobs, Sweeps
<1> QED BY <1>4, <1>5, <1>6

\* What failed is tried again.
LEMMA RetryIs ==
  ASSUME job \in Jobs, Retry
  PROVE  /\ job' \in Jobs /\ Sweeps /\ job.todo = {} /\ ~job.second /\ job'.second
         /\ job'.gaps = job.gaps
         /\ job'.todo = job.barFail /\ job'.flowTodo = job.flowFail
         /\ job'.barFail = {} /\ job'.flowFail = {}
         /\ job'.barOk = job.barOk /\ job'.flowOk = job.flowOk
         /\ job'.wroteBars = job.wroteBars
<1>1. /\ job.pc = "sweep" /\ job.out = <<>> /\ job.todo = {} /\ ~job.second
      /\ job' = [job EXCEPT !.second = TRUE, !.todo = job.barFail, !.flowTodo = job.flowFail,
                   !.barFail = {}, !.flowFail = {}]
  BY DEF Retry, Running
<1>2. job' \in Jobs
  BY <1>1 DEF Jobs
<1> QED BY <1>1, <1>2 DEF Jobs, Sweeps

\* The flows of a stock are tried again.
LEMMA RetryFlowsIs ==
  ASSUME job \in Jobs, NEW c \in Codes, RetryFlows(c)
  PROVE  /\ job' \in Jobs /\ Sweeps /\ job.todo = {} /\ c \in job.flowTodo
         /\ job'.gaps = job.gaps
         /\ job'.todo = job.todo /\ job'.flowTodo = job.flowTodo \ {c}
         /\ job'.barFail = job.barFail /\ job'.barOk = job.barOk
         /\ job'.wroteBars = job.wroteBars /\ job'.second = job.second
         /\ \/ job'.flowFail = job.flowFail \cup {c} /\ job'.flowOk = job.flowOk
            \/ job'.flowFail = job.flowFail /\ job'.flowOk = job.flowOk + 1
<1>1. /\ job.pc = "sweep" /\ job.out = <<>> /\ job.todo = {}
      /\ job.flowTodo # {} /\ c = First(job.flowTodo)
      /\ \/ job' = [job EXCEPT !.flowTodo = @ \ {c}, !.flowFail = @ \cup {c}]
         \/ job' = [job EXCEPT !.flowTodo = @ \ {c}, !.flowOk = @ + 1]
  BY DEF RetryFlows, Running
<1>2. job.flowTodo \in SUBSET Codes
  BY DEF Jobs
<1>3. c \in job.flowTodo
  BY <1>1, <1>2, FirstIs
<1>4. CASE job' = [job EXCEPT !.flowTodo = @ \ {c}, !.flowFail = @ \cup {c}]
  <2>1. job' \in Jobs
    BY <1>4 DEF Jobs
  <2> QED BY <1>1, <1>3, <1>4, <2>1 DEF Jobs, Sweeps
<1>5. CASE job' = [job EXCEPT !.flowTodo = @ \ {c}, !.flowOk = @ + 1]
  <2>1. job' \in Jobs
    <3> DEFINE f == job.flowOk + 1
    <3>1. f \in Nat
      BY DEF Jobs
    <3>2. job' = [job EXCEPT !.flowTodo = @ \ {c}, !.flowOk = f]
      BY <1>5
    <3> HIDE DEF f
    <3> QED BY <3>1, <3>2 DEF Jobs
  <2> QED BY <1>1, <1>3, <1>5, <2>1 DEF Jobs, Sweeps
<1> QED BY <1>1, <1>4, <1>5

\* Both tables are counted.
LEMMA DoneIs ==
  ASSUME job \in Jobs, BarsAndFlowsDone
  PROVE  \E bar \in Results, flow \in Results :
         /\ bar = StepResult("daily_bars", StatusOf(job.barOk, Cardinality(job.targets)),
                             job.wroteBars)
         /\ flow.table = "daily_flows"
         /\ job' \in Jobs /\ job.pc = "sweep" /\ job.out = <<>>
         /\ job.todo = {} /\ job.flowTodo = {}
         /\ job'.pc = "indices" /\ job'.out = <<bar, flow>>
         /\ job'.date = job.date /\ job'.resume = job.resume /\ job'.gaps = job.gaps
         /\ job'.targets = job.targets /\ job'.todo = {} /\ job'.flowTodo = {}
         /\ job'.barFail = job.barFail /\ job'.flowFail = {}
<1> DEFINE n == Cardinality(job.targets)
           bar == StepResult("daily_bars", StatusOf(job.barOk, n), job.wroteBars)
           flow == StepResult("daily_flows", StatusOf(job.flowOk, n), job.wroteBars)
<1>1. /\ job.pc = "sweep" /\ job.out = <<>> /\ job.todo = {} /\ job.flowTodo = {}
      /\ job' = [IdleJob EXCEPT !.pc = "indices", !.date = job.date, !.resume = job.resume,
                   !.gaps = job.gaps, !.targets = job.targets, !.barFail = job.barFail,
                   !.out = <<bar, flow>>]
  BY DEF BarsAndFlowsDone, SweepOver, Running
<1>2. /\ job.barOk \in Nat /\ job.flowOk \in Nat /\ job.wroteBars \in BOOLEAN
      /\ job.date \in BatchDates /\ job.resume \in BOOLEAN /\ job.gaps \in SUBSET (Codes \ Halted)
      /\ job.targets \in SUBSET Codes /\ job.barFail \in SUBSET Codes
  BY DEF Jobs
<1>3. n \in Nat
  BY <1>2, CodesAre, FS_Subset, FS_CardinalityType
<1> HIDE DEF n
<1>4. bar \in Results /\ flow \in Results /\ flow.table = "daily_flows"
  <2>1. StatusOf(job.barOk, n) \in Statuses /\ StatusOf(job.flowOk, n) \in Statuses
    BY <1>2, <1>3, StatusIs
  <2> QED BY <1>2, <2>1, ResultIs DEF Tables, FreshTables
<1> HIDE DEF bar, flow
<1>5. <<bar, flow>> \in Seq(Results)
  BY <1>4, TwoResults
<1> DEFINE out == <<bar, flow>>
<1> HIDE DEF out
<1>6. job' = [IdleJob EXCEPT !.pc = "indices", !.date = job.date, !.resume = job.resume,
                !.gaps = job.gaps, !.targets = job.targets, !.barFail = job.barFail,
                !.out = out]
  BY <1>1 DEF out
<1>7. out \in Seq(Results)
  BY <1>5 DEF out
<1>8. job' \in Jobs
  BY <1>2, <1>6, <1>7, IdleIs DEF Jobs, JobSteps
<1>9. /\ job'.pc = "indices" /\ job'.out = out
      /\ job'.date = job.date /\ job'.resume = job.resume /\ job'.gaps = job.gaps
      /\ job'.targets = job.targets /\ job'.todo = {} /\ job'.flowTodo = {}
      /\ job'.barFail = job.barFail /\ job'.flowFail = {}
  BY <1>6, IdleIs DEF Jobs
<1> QED BY <1>1, <1>4, <1>8, <1>9 DEF bar, n, out

\* The indices are read.
LEMMA IndicesIs ==
  ASSUME job \in Jobs, IngestIndices
  PROVE  /\ job' \in Jobs /\ job.pc = "indices" /\ job.out = <<>>
         /\ \E r \in Results : r.table = "market_indices" /\ MovesTo("scores", <<r>>)
<1>1. PICK ok \in 0 .. Markets :
        job' = [job EXCEPT !.pc = "scores", !.out =
                  <<StepResult("market_indices", StatusOf(ok, Markets), ok > 0)>>]
  BY DEF IngestIndices
<1> DEFINE r == StepResult("market_indices", StatusOf(ok, Markets), ok > 0)
           out == <<r>>
<1>2. r \in Results /\ r.table = "market_indices"
  <2>1. StatusOf(ok, Markets) \in Statuses
    BY StatusIs DEF Markets
  <2>2. (ok > 0) \in BOOLEAN
    OBVIOUS
  <2> QED BY <2>1, <2>2, ResultIs DEF Tables
<1> HIDE DEF r
<1>3. out \in Seq(Results)
  BY <1>2, OneResult
<1> HIDE DEF out
<1>4. job' = [job EXCEPT !.pc = "scores", !.out = out]
  BY <1>1 DEF r, out
<1>5. job' \in Jobs
  BY <1>3, <1>4 DEF Jobs, JobSteps
<1>6. MovesTo("scores", out)
  BY <1>4 DEF Jobs, MovesTo
<1> QED BY <1>2, <1>5, <1>6 DEF out, IngestIndices, Running

\* The scores are computed, or there is no stock to score.
LEMMA ScoresIs ==
  ASSUME job \in Jobs, ComputeDailyScores
  PROVE  /\ job' \in Jobs /\ job.pc = "scores" /\ job.out = <<>>
         /\ \/ /\ BarSymbols(job.date) = {} /\ scores' = scores
               /\ MovesTo("stop", <<StepResult("daily_scores", "failed", FALSE)>>)
            \/ /\ BarSymbols(job.date) # {}
               /\ UpsertDailyScores(LatestBarDate(job.date), Panel(job.date))
               /\ MovesTo("stop", <<StepResult("daily_scores", "ok", TRUE)>>)
<1> DEFINE good == <<StepResult("daily_scores", "ok", TRUE)>>
           bad == <<StepResult("daily_scores", "failed", FALSE)>>
<1>1. good \in Seq(Results) /\ bad \in Seq(Results)
  BY ResultIs, OneResult DEF Tables, FreshTables, Statuses
<1>2. /\ job.pc = "scores" /\ job.out = <<>>
      /\ \/ /\ BarSymbols(job.date) = {} /\ scores' = scores
            /\ job' = [job EXCEPT !.pc = "stop", !.out = bad]
         \/ /\ BarSymbols(job.date) # {}
            /\ UpsertDailyScores(LatestBarDate(job.date), Panel(job.date))
            /\ job' = [job EXCEPT !.pc = "stop", !.out = good]
  BY DEF ComputeDailyScores, Running
<1> HIDE DEF good, bad
<1>3. ASSUME NEW out \in {good, bad}, job' = [job EXCEPT !.pc = "stop", !.out = out]
      PROVE  job' \in Jobs /\ MovesTo("stop", out)
  <2>1. job' \in Jobs
    BY <1>1, <1>3 DEF Jobs, JobSteps
  <2>2. MovesTo("stop", out)
    BY <1>3 DEF Jobs, MovesTo
  <2> QED BY <2>1, <2>2
<1> QED BY <1>2, <1>3 DEF good, bad

\* The table of the scores after an upsert: what is on another date, and what a stock with
\* no bar had, stays.
LEMMA ScoredIs ==
  ASSUME Types, BarSymbols(job.date) # {},
         UpsertDailyScores(LatestBarDate(job.date), Panel(job.date))
  PROVE  /\ scores' \in [Days -> [Codes -> {NoBar} \cup Days]]
         /\ LatestBarDate(job.date) \in Days
         /\ \A d \in Days, c \in Codes :
              scores'[d][c] = IF d = LatestBarDate(job.date) /\ Panel(job.date)[c] # NoBar
                              THEN Panel(job.date)[c] ELSE scores[d][c]
         /\ \A c \in Codes : /\ BarDates(c, job.date) \in SUBSET Days
                             /\ Panel(job.date)[c] = LatestOf(BarDates(c, job.date))
<1> DEFINE panel == Panel(job.date)
           date == LatestBarDate(job.date)
           all == UNION {BarDates(c, job.date) : c \in Codes}
<1>1. \A c \in Codes : /\ BarDates(c, job.date) \in SUBSET Days
                       /\ panel[c] = LatestOf(BarDates(c, job.date))
  BY DEF Types, BarDates, Panel
<1>2. all \in SUBSET Days /\ all # {}
  BY <1>1 DEF BarSymbols
<1> HIDE DEF all
<1>3. date \in Days
  BY <1>2, LatestIs DEF LatestBarDate, all
<1>4. \A c \in Codes : panel[c] \in {NoBar} \cup Days
  BY <1>1, LatestIs
<1> HIDE DEF panel, date
<1>5. scores' = [scores EXCEPT ![date] =
                   [c \in Codes |-> IF panel[c] = NoBar THEN @[c] ELSE panel[c]]]
  BY DEF UpsertDailyScores, panel, date
<1>6. scores \in [Days -> [Codes -> {NoBar} \cup Days]]
  BY DEF Types
<1>7. scores' \in [Days -> [Codes -> {NoBar} \cup Days]]
  BY <1>3, <1>4, <1>5, <1>6
<1>8. \A d \in Days, c \in Codes :
        scores'[d][c] = IF d = date /\ panel[c] # NoBar THEN panel[c] ELSE scores[d][c]
  BY <1>3, <1>5, <1>6
<1> QED BY <1>1, <1>3, <1>7, <1>8 DEF panel, date

-----------------------------------------------------------------------------
(* Types.                                                                  *)

\* The row a result becomes.
LEMMA RowIs ==
  ASSUME Types, Record, NEW r, r = Head(job.out)
  PROVE  /\ rows' \in [FreshTables -> RunRows]
         /\ \A t \in FreshTables :
              IF job.date = Today /\ r.table = t
              THEN rows'[t].status = r.status /\ rows'[t].wrote = r.wrote /\ rows'[t].hour = hour
              ELSE rows'[t] = rows[t]
<1>1. r \in Results /\ rows \in [FreshTables -> RunRows] /\ hour \in Hours
  BY RecordIs DEF Types
<1> DEFINE row == [status |-> r.status, wrote |-> r.wrote, hour |-> hour]
<1>2. row \in RunRows /\ row.status = r.status /\ row.wrote = r.wrote /\ row.hour = hour
  BY <1>1 DEF RunRows, Results
<1>3. rows' = IF job.date = Today /\ r.table \in FreshTables
              THEN [rows EXCEPT ![r.table] = row] ELSE rows
  BY DEF Record, RecordIngestRun
<1> HIDE DEF row
<1>4. CASE job.date = Today /\ r.table \in FreshTables
  <2>1. rows' = [rows EXCEPT ![r.table] = row]
    BY <1>3, <1>4
  <2> QED BY <1>1, <1>2, <1>4, <2>1
<1>5. CASE ~(job.date = Today /\ r.table \in FreshTables)
  BY <1>1, <1>3, <1>5
<1> QED BY <1>4, <1>5

\* The stocks the row leaves out.
LEMMA MissedIs ==
  ASSUME Types, Record, NEW r, r = Head(job.out)
  PROVE  /\ missed' \in SUBSET (Codes \ Halted)
         /\ r.table # "daily_bars" \/ job.date # Today => missed' = missed
         /\ r.table = "daily_bars" /\ job.date = Today /\ r.wrote => missed' = job.gaps
  BY DEF Types, Record, Gaps, Jobs

\* Bars are only added.
LEMMA BarsAre ==
  ASSUME Types, NEW c \in Codes, StoreBars(c)
  PROVE  /\ bars' \in [Codes -> SUBSET Days]
         /\ bars'[c] = bars[c] \cup BarsOffered(job.date)
         /\ \A e \in Codes : e # c => bars'[e] = bars[e]
<1>1. bars' = [bars EXCEPT ![c] = @ \cup BarsOffered(job.date)]
  BY StoreIs DEF Types
<1>2. BarsOffered(job.date) \in SUBSET Days
  BY DEF BarsOffered
<1> QED BY <1>1, <1>2 DEF Types

\* Every step keeps the types.
LEMMA TypesStep ==
  ASSUME Types, [Next]_vars
  PROVE  Types'
<1>0. /\ hour \in Hours /\ symbols \in {{}, Codes} /\ bars \in [Codes -> SUBSET Days]
      /\ scores \in [Days -> [Codes -> {NoBar} \cup Days]]
      /\ rows \in [FreshTables -> RunRows] /\ job \in Jobs /\ cycle \in Cycles
      /\ runs \in 0 .. MaxRuns /\ died \in BOOLEAN /\ late \in BOOLEAN
      /\ missed \in SUBSET (Codes \ Halted)
  BY DEF Types
<1>1. ASSUME NEW date \in BatchDates, NEW resume \in BOOLEAN, NEW skip \in BOOLEAN,
             NEW limit \in 0 .. Listed, StartBatch(date, resume, skip, limit)
      PROVE  Types'
  <2>1. job' \in Jobs
    BY <1>1, StartIs
  <2>2. /\ runs < MaxRuns /\ runs' = runs + 1 /\ late' = (late \/ hour = "session")
        /\ UNCHANGED <<hour, symbols, bars, scores, rows, cycle, died, missed>>
    BY <1>1 DEF StartBatch, marketVars
  <2>3. runs' \in 0 .. MaxRuns
    BY <1>0, <2>2, IngestAssumption
  <2>4. late' \in BOOLEAN
    BY <1>0, <2>2
  <2> QED BY <1>0, <2>1, <2>2, <2>3, <2>4 DEF Types
<1>2. CASE Record
  <2>1. /\ job' \in Jobs /\ rows' \in [FreshTables -> RunRows]
        /\ missed' \in SUBSET (Codes \ Halted)
    BY <1>0, <1>2, RecordIs, RowIs, MissedIs
  <2>2. UNCHANGED <<hour, symbols, bars, scores, cycle, runs, died, late>>
    BY <1>2 DEF Record, marketVars, historyVars
  <2> QED BY <1>0, <2>1, <2>2 DEF Types
<1>3. CASE IngestSymbols
  <2>1. job' \in Jobs /\ symbols' \in {{}, Codes}
    BY <1>0, <1>3, SymbolsIs
  <2>2. UNCHANGED <<hour, bars, scores, rows, cycle, runs, died, missed, late>>
    BY <1>3 DEF IngestSymbols, historyVars
  <2> QED BY <1>0, <2>1, <2>2 DEF Types
<1>4. CASE LoadTargets
  <2>1. job' \in Jobs
    BY <1>0, <1>4, LoadIs, IdleIs
  <2>2. UNCHANGED <<hour, symbols, bars, scores, rows, cycle, runs, died, missed, late>>
    BY <1>4 DEF LoadTargets, marketVars, historyVars
  <2> QED BY <1>0, <2>1, <2>2 DEF Types
<1>5. ASSUME NEW c \in Codes, BarsFail(c) \/ NoBars(c) \/ StoreBars(c) \/ RetryFlows(c)
      PROVE  Types'
  <2>1. job' \in Jobs
    BY <1>0, <1>5, BarsFailIs, NoBarsIs, StoreIs, RetryFlowsIs
  <2>2. UNCHANGED <<hour, symbols, scores, rows, cycle, runs, died, missed, late>>
    BY <1>5 DEF BarsFail, NoBars, StoreBars, RetryFlows, marketVars, historyVars
  <2>3. bars' \in [Codes -> SUBSET Days]
    <3>1. CASE StoreBars(c)
      BY <3>1, BarsAre
    <3>2. CASE ~StoreBars(c)
      <4>1. bars' = bars
        BY <1>5, <3>2 DEF BarsFail, NoBars, RetryFlows, marketVars
      <4> QED BY <1>0, <4>1
    <3> QED BY <3>1, <3>2
  <2> QED BY <1>0, <2>1, <2>2, <2>3 DEF Types
<1>6. CASE Retry
  <2>1. job' \in Jobs
    BY <1>0, <1>6, RetryIs
  <2>2. UNCHANGED <<hour, symbols, bars, scores, rows, cycle, runs, died, missed, late>>
    BY <1>6 DEF Retry, marketVars, historyVars
  <2> QED BY <1>0, <2>1, <2>2 DEF Types
<1>7. CASE BarsAndFlowsDone
  <2>1. job' \in Jobs
    BY <1>0, <1>7, DoneIs
  <2>2. UNCHANGED <<hour, symbols, bars, scores, rows, cycle, runs, died, missed, late>>
    BY <1>7 DEF BarsAndFlowsDone, marketVars, historyVars
  <2> QED BY <1>0, <2>1, <2>2 DEF Types
<1>8. CASE IngestIndices
  <2>1. job' \in Jobs
    BY <1>0, <1>8, IndicesIs
  <2>2. UNCHANGED <<hour, symbols, bars, scores, rows, cycle, runs, died, missed, late>>
    BY <1>8 DEF IngestIndices, marketVars, historyVars
  <2> QED BY <1>0, <2>1, <2>2 DEF Types
<1>9. CASE ComputeDailyScores
  <2>1. job' \in Jobs /\ scores' \in [Days -> [Codes -> {NoBar} \cup Days]]
    BY <1>0, <1>9, ScoresIs, ScoredIs
  <2>2. UNCHANGED <<hour, symbols, bars, rows, cycle, runs, died, missed, late>>
    BY <1>9 DEF ComputeDailyScores, historyVars
  <2> QED BY <1>0, <2>1, <2>2 DEF Types
<1>10. CASE EndBatch \/ DieHalfway
  <2>1. job' \in Jobs /\ died' \in BOOLEAN
    BY <1>0, <1>10, IdleIs DEF EndBatch, DieHalfway, historyVars
  <2>2. UNCHANGED <<hour, symbols, bars, scores, rows, cycle, runs, missed, late>>
    BY <1>10 DEF EndBatch, DieHalfway, marketVars, historyVars
  <2> QED BY <1>0, <2>1, <2>2 DEF Types
<1>11. CASE HourPasses
  <2>1. hour' \in Hours /\ late' \in BOOLEAN
    BY <1>0, <1>11 DEF HourPasses, Hours
  <2>2. UNCHANGED <<symbols, bars, scores, rows, job, cycle, runs, died, missed>>
    BY <1>11 DEF HourPasses, marketVars, historyVars
  <2> QED BY <1>0, <2>1, <2>2 DEF Types
<1>12. CASE CycleChecksFreshness \/ CycleLoadsCandidates
  <2>1. cycle' \in Cycles
    <3>1. CASE CycleChecksFreshness
      <4>1. cycle' = [cycle EXCEPT !.pc = "checked", !.fresh = Fresh, !.missed = missed]
        BY <3>1 DEF CycleChecksFreshness
      <4>2. Fresh \in BOOLEAN
        BY DEF Fresh
      <4> DEFINE fresh == Fresh
      <4> HIDE DEF fresh
      <4>3. cycle' = [cycle EXCEPT !.pc = "checked", !.fresh = fresh, !.missed = missed] /\ fresh \in BOOLEAN
        BY <4>1, <4>2 DEF fresh
      <4> QED BY <1>0, <4>3 DEF Cycles
    <3>2. CASE CycleLoadsCandidates
      <4> DEFINE pc == IF Candidates(Prev) = {} THEN "stopped" ELSE "loaded"
      <4>1. cycle' = [cycle EXCEPT !.pc = pc, !.basis = scores[Prev]]
        BY <3>2 DEF CycleLoadsCandidates
      <4>2. pc \in {"none", "checked", "loaded", "stopped"}
        OBVIOUS
      <4>3. scores[Prev] \in [Codes -> {NoBar} \cup Days]
        BY <1>0 DEF Days, Before, Prev, Today
      <4> HIDE DEF pc
      <4> QED BY <1>0, <4>1, <4>2, <4>3 DEF Cycles
    <3> QED BY <1>12, <3>1, <3>2
  <2>2. UNCHANGED <<hour, symbols, bars, scores, rows, job, runs, died, missed, late>>
    BY <1>12 DEF CycleChecksFreshness, CycleLoadsCandidates, marketVars, historyVars
  <2> QED BY <1>0, <2>1, <2>2 DEF Types
<1>13. CASE UNCHANGED vars
  BY <1>13 DEF Types, vars, marketVars, historyVars
<1> QED BY <1>1, <1>2, <1>3, <1>4, <1>5, <1>6, <1>7, <1>8, <1>9, <1>10, <1>11, <1>12, <1>13
        DEF Next

-----------------------------------------------------------------------------
(* Counting.                                                               *)

\* The steps that leave the batch alone.
Elsewhere == HourPasses \/ CycleChecksFreshness \/ CycleLoadsCandidates \/ UNCHANGED vars

\* They leave the tables of the batch alone as well.
LEMMA ElsewhereIs ==
  ASSUME Elsewhere
  PROVE  UNCHANGED <<job, symbols, bars, scores, rows, died, missed>>
BY DEF Elsewhere, HourPasses, CycleChecksFreshness, CycleLoadsCandidates, vars, marketVars,
       historyVars

\* A batch that has not loaded its targets still has counted nothing.
LEMMA NewJobStep ==
  ASSUME Types, NewJob, [Next]_vars
  PROVE  NewJob'
<1>0. job \in Jobs /\ symbols \in {{}, Codes}
  BY DEF Types
<1>1. ASSUME NEW date \in BatchDates, NEW resume \in BOOLEAN, NEW skip \in BOOLEAN,
             NEW limit \in 0 .. Listed, StartBatch(date, resume, skip, limit)
      PROVE  NewJob'
  BY <1>1, StartIs DEF NewJob
<1>2. CASE Record
  BY <1>0, <1>2, RecordIs DEF NewJob, MovesTo
<1>3. CASE IngestSymbols
  <2>1. job.pc = "symbols" /\ MovesTo(job'.pc, job'.out)
    BY <1>0, <1>3, SymbolsIs DEF IngestSymbols, Running, MovesTo
  <2> QED BY <2>1 DEF NewJob, MovesTo
<1>4. CASE LoadTargets
  <2>1. job' = IdleJob \/ job'.pc = "sweep"
    BY <1>0, <1>4, LoadIs
  <2> QED BY <2>1, IdleIs DEF NewJob
<1>5. ASSUME NEW c \in Codes, BarsFail(c) \/ NoBars(c) \/ StoreBars(c) \/ RetryFlows(c)
      PROVE  NewJob'
  <2>1. job'.pc = "sweep"
    BY <1>0, <1>5, BarsFailIs, NoBarsIs, StoreIs, RetryFlowsIs DEF Sweeps
  <2> QED BY <2>1 DEF NewJob
<1>6. CASE Retry \/ BarsAndFlowsDone \/ IngestIndices \/ ComputeDailyScores
  <2>1. job'.pc \in {"sweep", "indices", "scores", "stop"}
    BY <1>0, <1>6, RetryIs, DoneIs, IndicesIs, ScoresIs DEF Sweeps, MovesTo
  <2> QED BY <2>1 DEF NewJob
<1>7. CASE EndBatch \/ DieHalfway
  <2>1. job' = IdleJob
    BY <1>7 DEF EndBatch, DieHalfway
  <2> QED BY <2>1, IdleIs DEF NewJob
<1>8. CASE Elsewhere
  BY <1>8, ElsewhereIs DEF NewJob
<1> QED BY <1>1, <1>2, <1>3, <1>4, <1>5, <1>6, <1>7, <1>8 DEF Next, Elsewhere

\* A stock is taken off a set: one less.
LEMMA OneLess ==
  ASSUME NEW stocks \in SUBSET Codes, NEW c \in stocks
  PROVE  /\ Cardinality(stocks \ {c}) \in Nat
         /\ Cardinality(stocks) = Cardinality(stocks \ {c}) + 1
<1>1. IsFiniteSet(stocks)
  BY CodesAre, FS_Subset
<1>2. IsFiniteSet(stocks \ {c}) /\ Cardinality(stocks \ {c}) = Cardinality(stocks) - 1
  BY <1>1, FS_RemoveElement
<1>3. Cardinality(stocks) \in Nat /\ Cardinality(stocks \ {c}) \in Nat
  BY <1>1, <1>2, FS_CardinalityType
<1> QED BY <1>2, <1>3

\* A stock with no bars is counted twice, one with bars once or twice, one whose flows
\* come late once.
LEMMA CountedOnce ==
  ASSUME NEW targets \in SUBSET Codes, NEW todo, NEW barFail, NEW flowTodo, NEW flowFail,
         NEW barOk \in Nat, NEW flowOk \in Nat,
         Counted(targets, todo, barFail, flowTodo, flowFail, barOk, flowOk), NEW c \in targets
  PROVE  /\ c \in todo =>
              /\ Counted(targets, todo \ {c}, barFail \cup {c}, flowTodo, flowFail, barOk, flowOk)
              /\ Counted(targets, todo \ {c}, barFail, flowTodo, flowFail, barOk + 1, flowOk + 1)
              /\ Counted(targets, todo \ {c}, barFail, flowTodo, flowFail \cup {c},
                         barOk + 1, flowOk)
         /\ c \in flowTodo =>
              /\ Counted(targets, todo, barFail, flowTodo \ {c}, flowFail \cup {c}, barOk, flowOk)
              /\ Counted(targets, todo, barFail, flowTodo \ {c}, flowFail, barOk, flowOk + 1)
<1> DEFINE bad == barFail \cup todo
           flows == flowFail \cup flowTodo
           all == bad \cup flows
<1>1. /\ all \subseteq targets /\ barFail \cap todo = {} /\ flowFail \cap flowTodo = {}
      /\ bad \cap flows = {}
      /\ barOk + Cardinality(bad) = Cardinality(targets)
      /\ flowOk + Cardinality(all) = Cardinality(targets)
  BY DEF Counted
<1>2. bad \in SUBSET Codes /\ all \in SUBSET Codes
  BY <1>1
<1>3. Cardinality(targets) \in Nat
  BY CodesAre, FS_Subset, FS_CardinalityType
<1>4. ASSUME c \in todo
      PROVE  /\ Counted(targets, todo \ {c}, barFail \cup {c}, flowTodo, flowFail, barOk, flowOk)
             /\ Counted(targets, todo \ {c}, barFail, flowTodo, flowFail, barOk + 1, flowOk + 1)
             /\ Counted(targets, todo \ {c}, barFail, flowTodo, flowFail \cup {c},
                        barOk + 1, flowOk)
  <2>1. /\ Cardinality(bad \ {c}) \in Nat /\ Cardinality(bad) = Cardinality(bad \ {c}) + 1
        /\ Cardinality(all \ {c}) \in Nat /\ Cardinality(all) = Cardinality(all \ {c}) + 1
    BY <1>2, <1>4, OneLess
  <2>2. /\ barOk + 1 + Cardinality(bad \ {c}) = Cardinality(targets)
        /\ flowOk + 1 + Cardinality(all \ {c}) = Cardinality(targets)
    BY <1>1, <1>3, <2>1
  <2>3. (barFail \cup {c}) \cup (todo \ {c}) = bad
    BY <1>4
  <2>4. barFail \cup (todo \ {c}) = bad \ {c}
    BY <1>1, <1>4
  <2>5. (bad \ {c}) \cup flows = all \ {c}
    BY <1>1, <1>4
  <2>6. (bad \ {c}) \cup ((flowFail \cup {c}) \cup flowTodo) = all
    BY <1>4
  <2>7. Counted(targets, todo \ {c}, barFail \cup {c}, flowTodo, flowFail, barOk, flowOk)
    <3>1. (barFail \cup {c}) \cap (todo \ {c}) = {}
      BY <1>1
    <3> QED BY <1>1, <2>3, <3>1 DEF Counted
  <2>8. Counted(targets, todo \ {c}, barFail, flowTodo, flowFail, barOk + 1, flowOk + 1)
    <3>1. barFail \cap (todo \ {c}) = {} /\ (bad \ {c}) \cap flows = {}
          /\ (bad \ {c}) \cup flows \subseteq targets
      BY <1>1
    <3> QED BY <1>1, <2>2, <2>4, <2>5, <3>1 DEF Counted
  <2>9. Counted(targets, todo \ {c}, barFail, flowTodo, flowFail \cup {c}, barOk + 1, flowOk)
    <3>1. /\ barFail \cap (todo \ {c}) = {}
          /\ (bad \ {c}) \cap ((flowFail \cup {c}) \cup flowTodo) = {}
          /\ (flowFail \cup {c}) \cap flowTodo = {}
      BY <1>1, <1>4
    <3> QED BY <1>1, <2>2, <2>4, <2>6, <3>1 DEF Counted
  <2> QED BY <2>7, <2>8, <2>9
<1>5. ASSUME c \in flowTodo
      PROVE  /\ Counted(targets, todo, barFail, flowTodo \ {c}, flowFail \cup {c}, barOk, flowOk)
             /\ Counted(targets, todo, barFail, flowTodo \ {c}, flowFail, barOk, flowOk + 1)
  <2>1. Cardinality(all \ {c}) \in Nat /\ Cardinality(all) = Cardinality(all \ {c}) + 1
    BY <1>2, <1>5, OneLess
  <2>2. flowOk + 1 + Cardinality(all \ {c}) = Cardinality(targets)
    BY <1>1, <1>3, <2>1
  <2>3. (flowFail \cup {c}) \cup (flowTodo \ {c}) = flows
    BY <1>5
  <2>4. bad \cup (flowFail \cup (flowTodo \ {c})) = all \ {c}
    BY <1>1, <1>5
  <2>5. Counted(targets, todo, barFail, flowTodo \ {c}, flowFail \cup {c}, barOk, flowOk)
    <3>1. (flowFail \cup {c}) \cap (flowTodo \ {c}) = {}
      BY <1>1
    <3> QED BY <1>1, <2>3, <3>1 DEF Counted
  <2>6. Counted(targets, todo, barFail, flowTodo \ {c}, flowFail, barOk, flowOk + 1)
    <3>1. /\ flowFail \cap (flowTodo \ {c}) = {}
          /\ bad \cap (flowFail \cup (flowTodo \ {c})) = {}
          /\ bad \cup (flowFail \cup (flowTodo \ {c})) \subseteq targets
      BY <1>1
    <3> QED BY <1>1, <2>2, <2>4, <3>1 DEF Counted
  <2> QED BY <2>5, <2>6
<1> QED BY <1>4, <1>5

\* The counts of the next state, when the batch is still in the sweep.
LEMMA StillCounted ==
  ASSUME Counted(job'.targets, job'.todo, job'.barFail, job'.flowTodo, job'.flowFail,
                 job'.barOk, job'.flowOk),
         ~job'.second => job'.flowTodo = {}
  PROVE  SweepCounts'
BY DEF SweepCounts, Counted, NoBarsYet, NoFlowsYet

\* Every step of the batch keeps the counts.
LEMMA CountsStep ==
  ASSUME Types, NewJob, SweepCounts, [Next]_vars
  PROVE  SweepCounts'
<1>0. /\ job \in Jobs /\ symbols \in {{}, Codes}
      /\ job.targets \in SUBSET Codes /\ job.barOk \in Nat /\ job.flowOk \in Nat
  BY DEF Types, Jobs
<1>00. ASSUME job.pc = "sweep"
       PROVE  /\ Counted(job.targets, job.todo, job.barFail, job.flowTodo, job.flowFail,
                         job.barOk, job.flowOk)
              /\ ~job.second => job.flowTodo = {}
  BY <1>00 DEF SweepCounts
<1>1. ASSUME NEW date \in BatchDates, NEW resume \in BOOLEAN, NEW skip \in BOOLEAN,
             NEW limit \in 0 .. Listed, StartBatch(date, resume, skip, limit)
      PROVE  SweepCounts'
  BY <1>1, StartIs DEF SweepCounts, NoBarsYet, NoFlowsYet
<1>2. CASE Record
  BY <1>0, <1>2, RecordIs DEF SweepCounts, MovesTo, NoBarsYet, NoFlowsYet
<1>3. CASE IngestSymbols
  <2>1. job'.pc # "sweep" /\ MovesTo(job'.pc, job'.out)
    BY <1>0, <1>3, SymbolsIs DEF MovesTo
  <2> QED BY <2>1 DEF SweepCounts, MovesTo, NoBarsYet, NoFlowsYet
<1>4. CASE LoadTargets
  <2>1. CASE job' = IdleJob
    BY <2>1, IdleIs DEF SweepCounts, NoBarsYet, NoFlowsYet
  <2>2. CASE job' # IdleJob
    <3>1. /\ job.pc = "load" /\ job'.targets \in SUBSET Codes /\ job'.todo = job'.targets
          /\ job'.flowTodo = job.flowTodo /\ job'.barFail = job.barFail
          /\ job'.flowFail = job.flowFail /\ job'.barOk = job.barOk /\ job'.flowOk = job.flowOk
      BY <1>0, <1>4, <2>2, LoadIs
    <3>2. /\ job'.flowTodo = {} /\ job'.barFail = {} /\ job'.flowFail = {}
          /\ job'.barOk = 0 /\ job'.flowOk = 0
      BY <3>1 DEF NewJob
    <3>3. Cardinality(job'.targets) \in Nat
      BY <3>1, CodesAre, FS_Subset, FS_CardinalityType
    <3>4. 0 + Cardinality(job'.targets) = Cardinality(job'.targets)
      BY <3>3
    <3>5. {} \cup job'.targets = job'.targets /\ job'.targets \cup ({} \cup {}) = job'.targets
      OBVIOUS
    <3>6. Counted(job'.targets, job'.todo, job'.barFail, job'.flowTodo, job'.flowFail,
                  job'.barOk, job'.flowOk)
      BY <3>1, <3>2, <3>4, <3>5 DEF Counted
    <3> QED BY <3>2, <3>6, StillCounted
  <2> QED BY <2>1, <2>2
<1>5. ASSUME NEW c \in Codes, BarsFail(c)  PROVE SweepCounts'
  <2>1. /\ Sweeps /\ c \in job.todo
        /\ job'.todo = job.todo \ {c} /\ job'.barFail = job.barFail \cup {c}
        /\ job'.flowTodo = job.flowTodo /\ job'.flowFail = job.flowFail
        /\ job'.barOk = job.barOk /\ job'.flowOk = job.flowOk /\ job'.second = job.second
    BY <1>0, <1>5, BarsFailIs
  <2>2. c \in job.targets
    BY <1>00, <2>1 DEF Counted, Sweeps
  <2>3. Counted(job.targets, job.todo \ {c}, job.barFail \cup {c}, job.flowTodo, job.flowFail,
                job.barOk, job.flowOk)
    BY <1>0, <1>00, <2>1, <2>2, CountedOnce DEF Sweeps
  <2> QED BY <1>00, <2>1, <2>3, StillCounted DEF Sweeps
<1>6. ASSUME NEW c \in Codes, NoBars(c)  PROVE SweepCounts'
  <2>1. /\ Sweeps /\ c \in job.todo
        /\ job'.todo = job.todo \ {c} /\ job'.barFail = job.barFail
        /\ job'.flowTodo = job.flowTodo /\ job'.flowFail = job.flowFail
        /\ job'.barOk = job.barOk + 1 /\ job'.flowOk = job.flowOk + 1
        /\ job'.second = job.second
    BY <1>0, <1>6, NoBarsIs
  <2>2. c \in job.targets
    BY <1>00, <2>1 DEF Counted, Sweeps
  <2>3. Counted(job.targets, job.todo \ {c}, job.barFail, job.flowTodo, job.flowFail,
                job.barOk + 1, job.flowOk + 1)
    BY <1>0, <1>00, <2>1, <2>2, CountedOnce DEF Sweeps
  <2> QED BY <1>00, <2>1, <2>3, StillCounted DEF Sweeps
<1>7. ASSUME NEW c \in Codes, StoreBars(c)  PROVE SweepCounts'
  <2>1. /\ Sweeps /\ c \in job.todo
        /\ job'.todo = job.todo \ {c} /\ job'.barFail = job.barFail
        /\ job'.flowTodo = job.flowTodo /\ job'.barOk = job.barOk + 1
        /\ job'.second = job.second
        /\ \/ job'.flowFail = job.flowFail \cup {c} /\ job'.flowOk = job.flowOk
           \/ job'.flowFail = job.flowFail /\ job'.flowOk = job.flowOk + 1
    BY <1>0, <1>7, StoreIs
  <2>2. c \in job.targets
    BY <1>00, <2>1 DEF Counted, Sweeps
  <2>3. /\ Counted(job.targets, job.todo \ {c}, job.barFail, job.flowTodo, job.flowFail,
                   job.barOk + 1, job.flowOk + 1)
        /\ Counted(job.targets, job.todo \ {c}, job.barFail, job.flowTodo, job.flowFail \cup {c},
                   job.barOk + 1, job.flowOk)
    BY <1>0, <1>00, <2>1, <2>2, CountedOnce DEF Sweeps
  <2> QED BY <1>00, <2>1, <2>3, StillCounted DEF Sweeps
<1>8. ASSUME NEW c \in Codes, RetryFlows(c)  PROVE SweepCounts'
  <2>1. /\ Sweeps /\ c \in job.flowTodo
        /\ job'.todo = job.todo /\ job'.flowTodo = job.flowTodo \ {c}
        /\ job'.barFail = job.barFail /\ job'.barOk = job.barOk /\ job'.second = job.second
        /\ \/ job'.flowFail = job.flowFail \cup {c} /\ job'.flowOk = job.flowOk
           \/ job'.flowFail = job.flowFail /\ job'.flowOk = job.flowOk + 1
    BY <1>0, <1>8, RetryFlowsIs
  <2>2. c \in job.targets
    BY <1>00, <2>1 DEF Counted, Sweeps
  <2>3. /\ Counted(job.targets, job.todo, job.barFail, job.flowTodo \ {c}, job.flowFail \cup {c},
                   job.barOk, job.flowOk)
        /\ Counted(job.targets, job.todo, job.barFail, job.flowTodo \ {c}, job.flowFail,
                   job.barOk, job.flowOk + 1)
    BY <1>0, <1>00, <2>1, <2>2, CountedOnce DEF Sweeps
  <2> QED BY <1>00, <2>1, <2>3, StillCounted DEF Sweeps
<1>9. CASE Retry
  <2>1. /\ Sweeps /\ job.todo = {} /\ ~job.second /\ job'.second
        /\ job'.todo = job.barFail /\ job'.flowTodo = job.flowFail
        /\ job'.barFail = {} /\ job'.flowFail = {}
        /\ job'.barOk = job.barOk /\ job'.flowOk = job.flowOk
    BY <1>0, <1>9, RetryIs
  <2>2. job.flowTodo = {}
    BY <1>00, <2>1 DEF Sweeps
  <2>3. Counted(job.targets, job.barFail, {}, job.flowFail, {}, job.barOk, job.flowOk)
    <3>1. /\ {} \cup job.barFail = job.barFail /\ job.barFail \cup {} = job.barFail
          /\ {} \cup job.flowFail = job.flowFail /\ job.flowFail \cup {} = job.flowFail
      OBVIOUS
    <3>2. Counted(job.targets, {}, job.barFail, {}, job.flowFail, job.barOk, job.flowOk)
      BY <1>00, <2>1, <2>2 DEF Sweeps
    <3> QED BY <3>1, <3>2 DEF Counted
  <2> QED BY <2>1, <2>3, StillCounted DEF Sweeps
<1>10. CASE BarsAndFlowsDone
  <2>1. /\ job'.pc = "indices" /\ job'.targets = job.targets /\ job'.todo = {}
        /\ job'.flowTodo = {} /\ job'.barFail = job.barFail /\ job'.flowFail = {}
    BY <1>0, <1>10, DoneIs
  <2>2. job.barFail \subseteq job.targets
    BY DEF SweepCounts, NoBarsYet
  <2> QED BY <2>1, <2>2 DEF SweepCounts, NoBarsYet, NoFlowsYet
<1>11. CASE IngestIndices \/ ComputeDailyScores
  <2>1. job'.pc # "sweep" /\ MovesTo(job'.pc, job'.out)
    BY <1>0, <1>11, IndicesIs, ScoresIs DEF MovesTo
  <2> QED BY <2>1 DEF SweepCounts, MovesTo, NoBarsYet, NoFlowsYet
<1>12. CASE EndBatch \/ DieHalfway
  <2>1. job' = IdleJob
    BY <1>12 DEF EndBatch, DieHalfway
  <2> QED BY <2>1, IdleIs DEF SweepCounts, NoBarsYet, NoFlowsYet
<1>13. CASE Elsewhere
  <2>1. job' = job
    BY <1>13, ElsewhereIs
  <2> QED BY <2>1 DEF SweepCounts, NoBarsYet, NoFlowsYet
<1> QED BY <1>1, <1>2, <1>3, <1>4, <1>5, <1>6, <1>7, <1>8, <1>9, <1>10, <1>11, <1>12, <1>13
        DEF Next, Elsewhere

-----------------------------------------------------------------------------
(* Bars, and what the sweep has stored.                                    *)

\* A batch at work in the session is late, and today's bar comes only then.
LEMMA LateStep ==
  ASSUME Types, LateKept, BarsKept, [Next]_vars
  PROVE  LateKept' /\ BarsKept'
<1>0. /\ job \in Jobs /\ hour \in Hours /\ late \in BOOLEAN /\ job.date \in BatchDates
  BY DEF Types, Jobs
<1>1. ASSUME NEW date \in BatchDates, NEW resume \in BOOLEAN, NEW skip \in BOOLEAN,
             NEW limit \in 0 .. Listed, StartBatch(date, resume, skip, limit)
      PROVE  LateKept' /\ BarsKept'
  <2>1. late' = (late \/ hour = "session") /\ hour' = hour /\ bars' = bars
    BY <1>1 DEF StartBatch, marketVars
  <2> QED BY <1>0, <2>1 DEF LateKept, BarsKept
<1>2. ASSUME NEW c \in Codes, StoreBars(c)
      PROVE  LateKept' /\ BarsKept'
  <2>1. /\ job.pc = "sweep" /\ hour' = hour /\ late' = late
        /\ bars'[c] = bars[c] \cup BarsOffered(job.date)
        /\ \A e \in Codes : e # c => bars'[e] = bars[e]
    BY <1>2, <1>0, BarsAre DEF StoreBars, Running, historyVars
  <2>2. Today \in BarsOffered(job.date) =>
          Prev \in BarsOffered(job.date) /\ hour = "session"
    BY <1>0, OfferedIs
  <2>3. hour = "session" => late
    BY <2>1 DEF LateKept
  <2>4. Today \in bars'[c] => Prev \in bars'[c] /\ late
    BY <2>1, <2>2, <2>3 DEF BarsKept
  <2> QED BY <2>1, <2>3, <2>4 DEF LateKept, BarsKept
<1>3. CASE HourPasses
  <2>1. late' = (late \/ job.pc # "idle") /\ job' = job /\ bars' = bars
    BY <1>3 DEF HourPasses, marketVars
  <2> QED BY <1>0, <2>1 DEF LateKept, BarsKept
<1>4. CASE IngestSymbols \/ LoadTargets \/ Retry \/ BarsAndFlowsDone
             \/ IngestIndices \/ ComputeDailyScores
             \/ \E c \in Codes : BarsFail(c) \/ NoBars(c) \/ RetryFlows(c)
  <2>1. job.pc # "idle"
    BY <1>4 DEF IngestSymbols, LoadTargets, Retry, BarsAndFlowsDone,
         IngestIndices, ComputeDailyScores, BarsFail, NoBars, RetryFlows, Running
  <2>2. hour' = hour /\ late' = late /\ bars' = bars
    BY <1>4 DEF IngestSymbols, LoadTargets, Retry, BarsAndFlowsDone,
         IngestIndices, ComputeDailyScores, BarsFail, NoBars, RetryFlows, marketVars
  <2> QED BY <2>1, <2>2 DEF LateKept, BarsKept
<1>7. CASE Record
  <2>1. job'.pc = job.pc
    BY <1>0, <1>7, RecordIs DEF MovesTo
  <2>2. hour' = hour /\ late' = late /\ bars' = bars
    BY <1>7 DEF Record, marketVars
  <2> QED BY <2>1, <2>2 DEF LateKept, BarsKept
<1>5. CASE EndBatch \/ DieHalfway
  <2>1. job' = IdleJob /\ bars' = bars /\ late' = late
    BY <1>5 DEF EndBatch, DieHalfway, marketVars
  <2> QED BY <2>1, IdleIs DEF LateKept, BarsKept
<1>6. CASE CycleChecksFreshness \/ CycleLoadsCandidates \/ UNCHANGED vars
  <2>1. UNCHANGED <<hour, late, bars, job>>
    BY <1>6 DEF CycleChecksFreshness, CycleLoadsCandidates, vars, marketVars
  <2> QED BY <2>1 DEF LateKept, BarsKept
<1> QED BY <1>1, <1>2, <1>3, <1>4, <1>5, <1>6, <1>7 DEF Next

\* All the bars of the day before in the next state.
AllBarsNext(left) == symbols' = Codes /\ \A c \in Codes \ (Halted \cup left) : Prev \in bars'[c]
AllScoredNext(left) == \A c \in Codes \ (Halted \cup left) : scores'[Prev][c] = Prev

\* Bars and symbols are only added.
LEMMA TablesGrow ==
  ASSUME Types, [Next]_vars
  PROVE  /\ symbols = Codes => symbols' = Codes
         /\ \A c \in Codes : bars[c] \subseteq bars'[c]
         /\ \A left \in SUBSET Codes : AllBars(left) => AllBarsNext(left)
<1>1. CASE IngestSymbols
  <2>1. symbols' \in {symbols, Codes} /\ bars' = bars
    BY <1>1 DEF IngestSymbols, UpsertSymbols
  <2> QED BY <2>1 DEF AllBars, AllBarsNext
<1>2. ASSUME NEW c \in Codes, StoreBars(c)
      PROVE  symbols' = symbols /\ \A e \in Codes : bars[e] \subseteq bars'[e]
  BY <1>2, BarsAre DEF StoreBars
<1>3. CASE ~IngestSymbols /\ ~ \E c \in Codes : StoreBars(c)
  <2>1. symbols' = symbols /\ bars' = bars
    BY <1>3 DEF Next, vars, marketVars, StartBatch, Record, LoadTargets, BarsFail, NoBars,
         RetryFlows, Retry, BarsAndFlowsDone, IngestIndices, ComputeDailyScores, EndBatch,
         DieHalfway, HourPasses, CycleChecksFreshness, CycleLoadsCandidates
  <2> QED BY <2>1 DEF AllBars, AllBarsNext
<1> QED BY <1>1, <1>2, <1>3 DEF AllBars, AllBarsNext

\* Every step of the sweep does what its sets say.
LEMMA SweepStep ==
  ASSUME Types, NewJob, SweepCounts, BarsKept, SweepKept, [Next]_vars
  PROVE  SweepKept'
<1>0. job \in Jobs /\ symbols \in {{}, Codes} /\ job.date \in BatchDates
  BY DEF Types, Jobs
<1>1. CASE LoadTargets
  <2>1. SUFFICES ASSUME job'.pc = "sweep"  PROVE SweepKept'
    BY DEF SweepKept
  <2>2. symbols' = symbols /\ bars' = bars /\ job' # IdleJob
    BY <1>1, <2>1, IdleIs DEF LoadTargets, marketVars
  <2>3. /\ symbols = Codes /\ job.pc = "load" /\ job'.date = job.date
        /\ \A c \in Codes \ job'.targets :
             c \in Halted \cup job'.gaps \/ c \in AlreadyDone(job.date)
        /\ job'.todo = job'.targets /\ job'.wroteBars = job.wroteBars
    BY <1>0, <1>1, <2>2, LoadIs
  <2>4. ~job'.wroteBars
    BY <2>3 DEF NewJob
  <2>5. ASSUME job'.date = Today, NEW c \in Codes,
               c \notin job'.targets, c \notin Halted \cup job'.gaps
        PROVE  Prev \in bars'[c]
    BY <2>2, <2>3, <2>5 DEF AlreadyDone, BarsKept
  <2> QED BY <1>0, <2>2, <2>3, <2>4, <2>5 DEF SweepKept, NoBarsYet
<1>2. ASSUME NEW c \in Codes, BarsFail(c)  PROVE SweepKept'
  <2>1. /\ Sweeps /\ c \in job.todo /\ job'.gaps = job.gaps
        /\ job'.todo = job.todo \ {c} /\ job'.barFail = job.barFail \cup {c}
        /\ job'.wroteBars = job.wroteBars /\ symbols' = symbols /\ bars' = bars
    BY <1>0, <1>2, BarsFailIs DEF BarsFail, marketVars
  <2>2. NoBarsYet' = NoBarsYet
    BY <2>1 DEF NoBarsYet
  <2> QED BY <2>1, <2>2 DEF SweepKept, Sweeps
<1>3. ASSUME NEW c \in Codes, NoBars(c)  PROVE SweepKept'
  <2>1. /\ Sweeps /\ c \in job.todo /\ job'.gaps = job.gaps \cup ({c} \ Halted)
        /\ job'.todo = job.todo \ {c} /\ job'.barFail = job.barFail
        /\ job'.wroteBars = job.wroteBars /\ symbols' = symbols /\ bars' = bars
    BY <1>0, <1>3, NoBarsIs DEF NoBars, marketVars
  <2>2. c \in Halted \cup job'.gaps
    BY <2>1
  <2>3. NoBarsYet \subseteq NoBarsYet' \cup {c}
    BY <2>1 DEF NoBarsYet
  <2> QED BY <2>1, <2>2, <2>3 DEF SweepKept, Sweeps
<1>4. ASSUME NEW c \in Codes, StoreBars(c)  PROVE SweepKept'
  <2>1. /\ Sweeps /\ c \in job.todo /\ job'.gaps = job.gaps
        /\ job'.todo = job.todo \ {c} /\ job'.barFail = job.barFail
        /\ job'.wroteBars = TRUE /\ symbols' = symbols
    BY <1>0, <1>4, StoreIs DEF StoreBars
  <2>2. Prev \in BarsOffered(job.date)
    BY <1>0, OfferedIs
  <2>3. NoBarsYet \subseteq NoBarsYet' \cup {c}
    BY <2>1 DEF NoBarsYet
  <2>4. /\ bars'[c] = bars[c] \cup BarsOffered(job.date)
        /\ \A e \in Codes : e # c => bars'[e] = bars[e]
    BY <1>4, BarsAre
  <2> QED BY <2>1, <2>2, <2>3, <2>4 DEF SweepKept, Sweeps
<1>5. CASE Retry
  <2>1. /\ Sweeps /\ job.todo = {} /\ job'.todo = job.barFail /\ job'.barFail = {}
        /\ job'.gaps = job.gaps /\ job'.wroteBars = job.wroteBars
        /\ symbols' = symbols /\ bars' = bars
    BY <1>0, <1>5, RetryIs DEF Retry, marketVars
  <2>2. NoBarsYet' = NoBarsYet
    BY <2>1 DEF NoBarsYet
  <2> QED BY <2>1, <2>2 DEF SweepKept, Sweeps
<1>6. ASSUME NEW c \in Codes, RetryFlows(c)  PROVE SweepKept'
  <2>1. /\ Sweeps /\ job'.todo = job.todo /\ job'.barFail = job.barFail /\ job'.gaps = job.gaps
        /\ job'.wroteBars = job.wroteBars /\ symbols' = symbols /\ bars' = bars
    BY <1>0, <1>6, RetryFlowsIs DEF RetryFlows, marketVars
  <2>2. NoBarsYet' = NoBarsYet
    BY <2>1 DEF NoBarsYet
  <2> QED BY <2>1, <2>2 DEF SweepKept, Sweeps
<1>7. CASE Record
  <2>1. MovesTo(job.pc, Tail(job.out)) /\ symbols' = symbols /\ bars' = bars
    BY <1>0, <1>7, RecordIs DEF Record, marketVars
  <2>2. NoBarsYet' = NoBarsYet
    BY <2>1 DEF MovesTo, NoBarsYet
  <2> QED BY <2>1, <2>2 DEF SweepKept, MovesTo
<1>8. ASSUME NEW date \in BatchDates, NEW resume \in BOOLEAN, NEW skip \in BOOLEAN,
             NEW limit \in 0 .. Listed, StartBatch(date, resume, skip, limit)
      PROVE  SweepKept'
  <2>1. job'.pc # "sweep"
    BY <1>8, StartIs
  <2> QED BY <2>1 DEF SweepKept
<1>9. CASE IngestSymbols \/ BarsAndFlowsDone \/ IngestIndices \/ ComputeDailyScores
  <2>1. job'.pc # "sweep"
    BY <1>0, <1>9, SymbolsIs, DoneIs, IndicesIs, ScoresIs DEF MovesTo
  <2> QED BY <2>1 DEF SweepKept
<1>10. CASE EndBatch \/ DieHalfway
  <2>1. job' = IdleJob
    BY <1>10 DEF EndBatch, DieHalfway
  <2> QED BY <2>1, IdleIs DEF SweepKept
<1>11. CASE Elsewhere
  <2>1. job' = job /\ symbols' = symbols /\ bars' = bars
    BY <1>11, ElsewhereIs
  <2> QED BY <2>1 DEF SweepKept, NoBarsYet
<1> QED BY <1>1, <1>2, <1>3, <1>4, <1>5, <1>6, <1>7, <1>8, <1>9, <1>10, <1>11
        DEF Next, Elsewhere

\* When the sweep is over, an "ok" of the bars is the truth.
LEMMA OkIsAll ==
  ASSUME Types, SweepCounts, SweepKept, job.pc = "sweep", job.date = Today,
         StatusOf(job.barOk, Cardinality(job.targets)) = "ok", job.wroteBars
  PROVE  AllBars(job.gaps)
<1>1. /\ job.barOk \in Nat /\ job.targets \in SUBSET Codes /\ NoBarsYet \in SUBSET Codes
  BY DEF Types, Jobs, NoBarsYet
<1>2. /\ IsFiniteSet(NoBarsYet) /\ Cardinality(job.targets) \in Nat
      /\ Cardinality(NoBarsYet) \in Nat
  BY <1>1, CodesAre, FS_Subset, FS_CardinalityType
<1>3. job.barOk = Cardinality(job.targets)
  BY <1>1, <1>2, StatusIs
<1>4. job.barOk + Cardinality(NoBarsYet) = Cardinality(job.targets)
  BY DEF SweepCounts, Counted, NoBarsYet
<1>5. Cardinality(NoBarsYet) = 0
  BY <1>1, <1>2, <1>3, <1>4
<1>6. NoBarsYet = {}
  BY <1>2, <1>5, FS_EmptySet
<1> QED BY <1>6 DEF SweepKept, AllBars

\* A good row stays true, and what is to be recorded is.
LEMMA RowsStep ==
  ASSUME Types, NewJob, SweepCounts, SweepKept, RowsKept, [Next]_vars
  PROVE  RowsKept'
<1>0. /\ job \in Jobs /\ job.out \in Seq(Results) /\ symbols \in {{}, Codes}
      /\ job.gaps \in SUBSET Codes /\ missed \in SUBSET Codes
  BY DEF Types, Jobs
<1>1. /\ AllBars(missed) => AllBarsNext(missed)
      /\ AllBars(job.gaps) => AllBarsNext(job.gaps)
  BY <1>0, TablesGrow
<1>2. CASE Record
  <2> DEFINE r == Head(job.out)
  <2>1. /\ job.out # <<>> /\ r \in Results /\ MovesTo(job.pc, Tail(job.out))
    BY <1>0, <1>2, RecordIs DEF Record
  <2>2. r = job.out[1] /\ 1 \in DOMAIN job.out
    BY <1>0, <2>1
  <2>3. \A i \in DOMAIN Tail(job.out) :
          i + 1 \in DOMAIN job.out /\ Tail(job.out)[i] = job.out[i + 1]
    BY <1>0, <2>1
  <2>4. IF job.date = Today /\ r.table = "daily_bars"
        THEN rows'["daily_bars"].status = r.status /\ rows'["daily_bars"].wrote = r.wrote
        ELSE rows'["daily_bars"] = rows["daily_bars"]
    BY <1>2, RowIs DEF FreshTables
  <2>9. /\ r.table # "daily_bars" \/ job.date # Today => missed' = missed
        /\ r.table = "daily_bars" /\ job.date = Today /\ r.wrote => missed' = job.gaps
    BY <1>2, MissedIs
  <2>5. Good(rows'["daily_bars"]) => AllBarsNext(missed')
    BY <1>1, <2>2, <2>4, <2>9 DEF RowsKept, Good
  <2>6. \A i \in DOMAIN job'.out : job'.out[i].table = "daily_bars" =>
          /\ job'.pc = "indices"
          /\ job'.date = Today /\ Good(job'.out[i]) => AllBarsNext(job'.gaps)
    BY <1>1, <2>1, <2>3 DEF RowsKept, MovesTo
  <2> QED BY <2>5, <2>6 DEF RowsKept, AllBars, AllBarsNext
<1>4. ASSUME rows' = rows, missed' = missed, job'.out = <<>>  PROVE RowsKept'
  BY <1>1, <1>4 DEF RowsKept, AllBars, AllBarsNext
<1>5. ASSUME rows' = rows, missed' = missed, NEW r \in Results, job'.out = <<r>>, r.table # "daily_bars"
      PROVE  RowsKept'
  <2>1. DOMAIN job'.out = {1} /\ job'.out[1] = r
    BY <1>5, OneResult
  <2> QED BY <1>1, <1>5, <2>1 DEF RowsKept, AllBars, AllBarsNext
<1>6. ASSUME NEW date \in BatchDates, NEW resume \in BOOLEAN, NEW skip \in BOOLEAN,
             NEW limit \in 0 .. Listed, StartBatch(date, resume, skip, limit)
      PROVE  job'.out = <<>> /\ rows' = rows /\ missed' = missed
  BY <1>6, StartIs DEF StartBatch
<1>7. CASE IngestSymbols
  <2>1. rows' = rows /\ missed' = missed
    BY <1>7 DEF IngestSymbols, historyVars
  <2>2. PICK r \in Results : job'.out = <<r>> /\ r.table = "symbols"
    <3>1. \A ok \in BOOLEAN : /\ StepResult("symbols", "ok", ok) \in Results
                              /\ StepResult("symbols", "ok", ok).table = "symbols"
      BY ResultIs DEF Tables, Statuses
    <3>2. /\ StepResult("symbols", "failed", FALSE) \in Results
          /\ StepResult("symbols", "failed", FALSE).table = "symbols"
      BY ResultIs DEF Tables, Statuses
    <3> QED BY <1>0, <1>7, <3>1, <3>2, SymbolsIs DEF MovesTo
  <2> QED BY <2>1, <2>2, <1>5
<1>8. CASE LoadTargets \/ Retry
  <2>1. job'.out = <<>> /\ rows' = rows /\ missed' = missed
    BY <1>0, <1>8, LoadIs, RetryIs, IdleIs DEF LoadTargets, Retry, Sweeps, historyVars
  <2> QED BY <1>4, <2>1
<1>9. ASSUME NEW c \in Codes, BarsFail(c) \/ NoBars(c) \/ StoreBars(c) \/ RetryFlows(c)
      PROVE  RowsKept'
  <2>1. job'.out = <<>>
    BY <1>0, <1>9, BarsFailIs, NoBarsIs, StoreIs, RetryFlowsIs DEF Sweeps
  <2>2. rows' = rows /\ missed' = missed
    BY <1>9 DEF BarsFail, NoBars, StoreBars, RetryFlows, historyVars
  <2> QED BY <1>4, <2>1, <2>2
<1>10. CASE BarsAndFlowsDone
  <2>1. PICK bar \in Results, flow \in Results :
          /\ bar = StepResult("daily_bars", StatusOf(job.barOk, Cardinality(job.targets)),
                              job.wroteBars)
          /\ flow.table = "daily_flows" /\ job.pc = "sweep"
          /\ job'.pc = "indices" /\ job'.out = <<bar, flow>> /\ job'.date = job.date
          /\ job'.gaps = job.gaps
    BY <1>0, <1>10, DoneIs
  <2>2. rows' = rows /\ missed' = missed
    BY <1>10 DEF BarsAndFlowsDone, historyVars
  <2>3. DOMAIN job'.out = {1, 2} /\ job'.out[1] = bar /\ job'.out[2] = flow
    BY <2>1, TwoResults
  <2>4. ASSUME job'.date = Today, Good(bar)  PROVE AllBarsNext(job'.gaps)
    <3>1. StatusOf(job.barOk, Cardinality(job.targets)) = "ok" /\ job.wroteBars
      BY <2>1, <2>4 DEF Good, StepResult
    <3> QED BY <1>1, <2>1, <2>4, <3>1, OkIsAll
  <2>5. flow.table # "daily_bars"
    BY <2>1
  <2>6. AllBarsNext(job'.gaps) => AllBars(job.gaps)'
    BY DEF AllBars, AllBarsNext
  <2>7. Good(rows'["daily_bars"]) => AllBars(missed)'
    BY <1>1, <2>2 DEF RowsKept, AllBars, AllBarsNext
  <2> QED BY <2>1, <2>3, <2>4, <2>5, <2>6, <2>7 DEF RowsKept
<1>11. CASE IngestIndices
  <2>1. PICK r \in Results : job'.out = <<r>> /\ r.table = "market_indices"
    BY <1>0, <1>11, IndicesIs DEF MovesTo
  <2>2. rows' = rows /\ missed' = missed
    BY <1>11 DEF IngestIndices, historyVars
  <2> QED BY <1>5, <2>1, <2>2
<1>12. CASE ComputeDailyScores
  <2>1. PICK r \in Results : job'.out = <<r>> /\ r.table = "daily_scores"
    <3>1. /\ StepResult("daily_scores", "ok", TRUE) \in Results
          /\ StepResult("daily_scores", "ok", TRUE).table = "daily_scores"
          /\ StepResult("daily_scores", "failed", FALSE) \in Results
          /\ StepResult("daily_scores", "failed", FALSE).table = "daily_scores"
      BY ResultIs DEF Tables, FreshTables, Statuses
    <3> QED BY <1>0, <1>12, <3>1, ScoresIs DEF MovesTo
  <2>2. rows' = rows /\ missed' = missed
    BY <1>12 DEF ComputeDailyScores, historyVars
  <2> QED BY <1>5, <2>1, <2>2
<1>13. CASE EndBatch \/ DieHalfway
  <2>1. job'.out = <<>> /\ rows' = rows /\ missed' = missed
    BY <1>13, IdleIs DEF EndBatch, DieHalfway, historyVars
  <2> QED BY <1>4, <2>1
<1>14. CASE Elsewhere
  BY <1>1, <1>14, ElsewhereIs DEF RowsKept, AllBars, AllBarsNext
<1> QED BY <1>2, <1>4, <1>6, <1>7, <1>8, <1>9, <1>10, <1>11, <1>12, <1>13, <1>14
        DEF Next, Elsewhere

-----------------------------------------------------------------------------
(* The quiet day.                                                          *)

\* With every bar of the day before and none of today, whichever batch computes the
\* scores, the stocks that trade are scored on the day before.
LEMMA ScoresFollow ==
  ASSUME Types, BarsKept, NEW left, AllBars(left), ~late, ComputeDailyScores
  PROVE  AllScoredNext(left)
<1>0. job \in Jobs /\ job.date \in {Prev, Today}
  BY DEF Types, Jobs, BatchDates
<1>1. Prev \in Days /\ Prev = 2 /\ Today = 3 /\ Before = 1 /\ NoBar = 0 /\ Days = 1 .. 3
  BY DEF Days, Prev, Before, Today, NoBar
<1>2. ASSUME NEW c \in Codes
      PROVE  /\ BarDates(c, job.date) \in SUBSET Days /\ Today \notin BarDates(c, job.date)
             /\ c \notin Halted \cup left => Prev \in BarDates(c, job.date)
  <2>1. bars[c] \in SUBSET Days /\ Today \notin bars[c]
    BY <1>2 DEF Types, BarsKept
  <2>2. c \notin Halted \cup left => Prev \in bars[c]
    BY <1>2 DEF AllBars
  <2> QED BY <1>0, <1>1, <2>1, <2>2 DEF BarDates
<1>3. ASSUME NEW dates \in SUBSET Days, Prev \in dates, Today \notin dates
      PROVE  LatestOf(dates) = Prev
  <2>1. LatestOf(dates) \in dates /\ Prev <= LatestOf(dates)
    BY <1>3, LatestIs
  <2>2. LatestOf(dates) \in 1 .. 3 /\ LatestOf(dates) # 3
    BY <1>1, <1>3, <2>1
  <2> QED BY <1>1, <2>1, <2>2
<1>4. SUFFICES ASSUME NEW c \in Codes \ (Halted \cup left)  PROVE scores'[Prev][c] = Prev
  BY DEF AllScoredNext
<1>5. Prev \in BarDates(c, job.date)
  BY <1>2
<1>6. BarSymbols(job.date) # {}
  BY <1>5 DEF BarSymbols
<1>7. UpsertDailyScores(LatestBarDate(job.date), Panel(job.date))
  BY <1>0, <1>6, ScoresIs
<1>8. LatestBarDate(job.date) = Prev
  <2> DEFINE all == UNION {BarDates(e, job.date) : e \in Codes}
  <2>1. all \in SUBSET Days /\ Prev \in all /\ Today \notin all
    BY <1>2, <1>5
  <2> HIDE DEF all
  <2>2. LatestOf(all) = Prev
    BY <1>3, <2>1
  <2> QED BY <2>2 DEF all, LatestBarDate
<1>9. Panel(job.date)[c] = Prev
  <2>1. LatestOf(BarDates(c, job.date)) = Prev
    BY <1>2, <1>3, <1>5
  <2> QED BY <2>1 DEF Panel
<1>10. Prev # NoBar
  BY <1>1
<1> QED BY <1>1, <1>6, <1>7, <1>8, <1>9, <1>10, ScoredIs

\* What a quiet day keeps when the cycle and the rows do not move.
LEMMA QuietBatch ==
  ASSUME Types, QuietKept, RowsKept, [Next]_vars, ~died' /\ ~late' => ~died /\ ~late,
         cycle' = cycle, rows' = rows, missed' = missed,
         ~died' /\ ~late' => \A left \in SUBSET Codes :
           /\ AllScored(left) /\ AllBars(left) => AllScoredNext(left)
           /\ AllBars(left) /\ Between => AllScoredNext(left) \/ Between'
  PROVE  QuietKept'
<1>0. missed \in SUBSET Codes /\ cycle.missed \in SUBSET Codes
  BY DEF Types, Cycles
<1>1. AllBars(cycle.missed) => AllBarsNext(cycle.missed)
  BY <1>0, TablesGrow
<1>2. SUFFICES ASSUME ~died', ~late'
               PROVE  /\ Good(rows["daily_bars"]) => AllScoredNext(missed) \/ Between'
                      /\ cycle.pc = "checked" /\ cycle.fresh =>
                           AllScoredNext(cycle.missed) /\ AllBarsNext(cycle.missed)
                      /\ cycle.pc = "loaded" /\ cycle.fresh =>
                           \A c \in Codes \ (Halted \cup cycle.missed) : cycle.basis[c] = Prev
  BY DEF QuietKept, AllScored, AllScoredNext, AllBars, AllBarsNext
<1>3. Good(rows["daily_bars"]) => AllBars(missed) /\ (AllScored(missed) \/ Between)
  BY <1>2 DEF QuietKept, RowsKept
<1>4. cycle.pc = "checked" /\ cycle.fresh => AllScored(cycle.missed) /\ AllBars(cycle.missed)
  BY <1>2 DEF QuietKept
<1>5. cycle.pc = "loaded" /\ cycle.fresh =>
        \A c \in Codes \ (Halted \cup cycle.missed) : cycle.basis[c] = Prev
  BY <1>2 DEF QuietKept
<1> QED BY <1>0, <1>1, <1>2, <1>3, <1>4, <1>5

\* On a quiet day the scores follow the bars, and the cycle reads them.
LEMMA QuietStep ==
  ASSUME Types, LateKept, BarsKept, RowsKept, QuietKept, [Next]_vars
  PROVE  QuietKept'
<1>0. /\ job \in Jobs /\ job.out \in Seq(Results) /\ cycle \in Cycles /\ symbols \in {{}, Codes}
      /\ hour \in Hours /\ missed \in SUBSET Codes /\ cycle.missed \in SUBSET Codes
  BY DEF Types, Jobs, Cycles
<1>1. \A left \in SUBSET Codes : AllBars(left) => AllBarsNext(left)
  BY TablesGrow
<1>2. ASSUME scores' = scores, NEW left  PROVE AllScoredNext(left) <=> AllScored(left)
  BY <1>2 DEF AllScored, AllScoredNext
<1>3. ASSUME NEW date \in BatchDates, NEW resume \in BOOLEAN, NEW skip \in BOOLEAN,
             NEW limit \in 0 .. Listed, StartBatch(date, resume, skip, limit)
      PROVE  QuietKept'
  <2>1. /\ job.pc = "idle" /\ late' = (late \/ hour = "session")
        /\ UNCHANGED <<scores, rows, cycle, died, missed>>
    BY <1>3 DEF StartBatch, marketVars
  <2>2. ~Between
    BY <2>1 DEF Between
  <2> QED BY <1>2, <2>1, <2>2, QuietBatch
<1>4. CASE Record
  <2> DEFINE r == Head(job.out)
  <2>1. /\ job.out # <<>> /\ r \in Results /\ MovesTo(job.pc, Tail(job.out))
        /\ UNCHANGED <<scores, cycle, died, late>>
    BY <1>0, <1>4, RecordIs DEF Record, marketVars, historyVars
  <2>2. r = job.out[1] /\ 1 \in DOMAIN job.out
    BY <1>0, <2>1
  <2>3. IF job.date = Today /\ r.table = "daily_bars"
        THEN rows'["daily_bars"].status = r.status /\ rows'["daily_bars"].wrote = r.wrote
        ELSE rows'["daily_bars"] = rows["daily_bars"]
    BY <1>4, RowIs DEF FreshTables
  <2>4. Between' <=> Between
    BY <2>1 DEF Between, MovesTo
  <2>5. job.date = Today /\ r.table = "daily_bars" => Between
    BY <2>2 DEF RowsKept, Between
  <2>9. r.table # "daily_bars" \/ job.date # Today => missed' = missed
    BY <1>4, MissedIs
  <2>6. SUFFICES ASSUME ~died, ~late
                 PROVE  Good(rows'["daily_bars"]) => AllScored(missed') \/ Between
    <3>1. cycle.pc = "checked" /\ cycle.fresh /\ ~died /\ ~late =>
            AllScoredNext(cycle.missed) /\ AllBarsNext(cycle.missed)
      BY <1>0, <1>1, <1>2, <2>1 DEF QuietKept
    <3>2. AllScored(missed') => AllScored(missed)'
      BY <2>1 DEF AllScored
    <3> QED BY <2>1, <2>4, <2>6, <3>1, <3>2
            DEF QuietKept, AllScored, AllScoredNext, AllBars, AllBarsNext
  <2>7. CASE job.date = Today /\ r.table = "daily_bars"
    BY <2>5, <2>7
  <2>8. CASE ~(job.date = Today /\ r.table = "daily_bars")
    <3>1. rows'["daily_bars"] = rows["daily_bars"]
      BY <2>3, <2>8
    <3> QED BY <2>6, <2>8, <2>9, <3>1 DEF QuietKept
  <2> QED BY <2>7, <2>8
<1>5. CASE IngestSymbols \/ LoadTargets \/ Retry \/ BarsAndFlowsDone
             \/ \E c \in Codes : BarsFail(c) \/ NoBars(c) \/ StoreBars(c) \/ RetryFlows(c)
  <2>1. job.pc \in {"symbols", "load", "sweep"}
    BY <1>5 DEF IngestSymbols, LoadTargets, Retry, BarsAndFlowsDone, BarsFail, NoBars, StoreBars,
         RetryFlows, Running
  <2>2. UNCHANGED <<scores, rows, cycle, died, missed, late>>
    BY <1>5 DEF IngestSymbols, LoadTargets, Retry, BarsAndFlowsDone, BarsFail, NoBars, StoreBars,
         RetryFlows, marketVars, historyVars
  <2>3. ~Between
    BY <2>1 DEF Between
  <2> QED BY <1>2, <2>2, <2>3, QuietBatch
<1>6. CASE IngestIndices
  <2>1. UNCHANGED <<scores, rows, cycle, died, missed, late>>
    BY <1>6 DEF IngestIndices, marketVars, historyVars
  <2>2. Between => Between'
    BY <1>0, <1>6, IndicesIs DEF Between, MovesTo
  <2> QED BY <1>2, <2>1, <2>2, QuietBatch
<1>7. CASE ComputeDailyScores
  <2>1. UNCHANGED <<rows, cycle, died, missed, late>>
    BY <1>7 DEF ComputeDailyScores, historyVars
  <2>2. ~late => \A left : AllBars(left) => AllScoredNext(left)
    BY <1>7, ScoresFollow
  <2> QED BY <2>1, <2>2, QuietBatch
<1>8. CASE EndBatch
  <2>1. job.pc = "stop" /\ UNCHANGED <<scores, rows, cycle, died, missed, late>>
    BY <1>8 DEF EndBatch, Running, marketVars, historyVars
  <2>2. ~Between
    BY <2>1 DEF Between
  <2> QED BY <1>2, <2>1, <2>2, QuietBatch
<1>9. CASE DieHalfway
  <2>1. died'
    BY <1>9 DEF DieHalfway
  <2> QED BY <2>1 DEF QuietKept
<1>10. CASE HourPasses
  <2>1. late' = (late \/ job.pc # "idle") /\ UNCHANGED <<scores, rows, cycle, died, missed, job>>
    BY <1>10 DEF HourPasses, marketVars, historyVars
  <2>2. Between' <=> Between
    BY <2>1 DEF Between
  <2> QED BY <1>2, <2>1, <2>2, QuietBatch
<1>11. CASE CycleChecksFreshness
  <2>1. /\ hour = "session" /\ cycle' = [cycle EXCEPT !.pc = "checked", !.fresh = Fresh, !.missed = missed]
        /\ UNCHANGED <<symbols, bars, scores, rows, job, died, missed, late>>
    BY <1>11 DEF CycleChecksFreshness, marketVars, historyVars
  <2>2. cycle'.pc = "checked" /\ cycle'.fresh = Fresh /\ cycle'.missed = missed
    BY <1>0, <2>1 DEF Cycles
  <2>3. Between => late
    BY <2>1 DEF Between, LateKept
  <2>4. Fresh => Good(rows["daily_bars"])
    BY DEF Fresh, FreshTables, LastIngestRun, Good
  <2>5. Good(rows["daily_bars"]) => AllBars(missed)
    BY DEF RowsKept
  <2>6. Between' <=> Between
    BY <2>1 DEF Between
  <2>7. AllBars(missed) => AllBars(cycle.missed)'
    BY <2>1, <2>2 DEF AllBars
  <2>8. /\ AllScored(missed) => AllScored(cycle.missed)'
        /\ AllScored(missed) => AllScored(missed)'
    BY <2>1, <2>2 DEF AllScored
  <2> QED BY <2>1, <2>2, <2>3, <2>4, <2>5, <2>6, <2>7, <2>8 DEF QuietKept
<1>12. CASE CycleLoadsCandidates
  <2>1. /\ cycle.pc = "checked"
        /\ cycle' = [cycle EXCEPT !.pc = IF Candidates(Prev) = {} THEN "stopped" ELSE "loaded",
                                  !.basis = scores[Prev]]
        /\ UNCHANGED <<symbols, bars, scores, rows, job, died, missed, late>>
    BY <1>12 DEF CycleLoadsCandidates, marketVars, historyVars
  <2>2. cycle'.pc # "checked" /\ cycle'.fresh = cycle.fresh /\ cycle'.basis = scores[Prev]
        /\ cycle'.missed = cycle.missed
    BY <1>0, <2>1 DEF Cycles
  <2>3. Between' <=> Between
    BY <2>1 DEF Between
  <2>4. ~died /\ ~late /\ cycle.fresh => AllScored(cycle.missed)
    BY <2>1 DEF QuietKept
  <2>5. ~died' /\ ~late' /\ cycle'.fresh =>
          \A c \in Codes \ (Halted \cup cycle'.missed) : cycle'.basis[c] = Prev
    BY <2>1, <2>2, <2>4 DEF AllScored
  <2>6. AllScored(missed) => AllScored(missed)'
    BY <2>1 DEF AllScored
  <2> QED BY <2>1, <2>2, <2>3, <2>5, <2>6 DEF QuietKept
<1>13. CASE UNCHANGED vars
  <2>1. UNCHANGED <<scores, rows, cycle, died, missed, late, job>>
    BY <1>13 DEF vars, marketVars, historyVars
  <2>2. Between' <=> Between
    BY <2>1 DEF Between
  <2> QED BY <1>2, <2>1, <2>2, QuietBatch
<1> QED BY <1>3, <1>4, <1>5, <1>6, <1>7, <1>8, <1>9, <1>10, <1>11, <1>12, <1>13 DEF Next

-----------------------------------------------------------------------------
(* The clean run.                                                          *)

\* What is recorded is a row of this morning, or of the session.
LEMMA FreshRecord ==
  ASSUME Types, Record, NEW t \in FreshTables, job.date = Today, hour # "eve", Reports(t)
  PROVE  Has(t)' /\ \A u \in FreshTables : u # t => (FreshRow(u)' <=> FreshRow(u))
<1>1. job.out \in Seq(Results) /\ MovesTo(job.pc, Tail(job.out)) /\ hour \in Hours /\ hour' = hour
  BY RecordIs DEF Types, Jobs, Record
<1> DEFINE r == Head(job.out)
<1>2. r = StepResult(t, "ok", TRUE) /\ NoFreshTable(Tail(job.out))
  BY DEF Reports
<1>3. r.table = t /\ r.status = "ok" /\ r.wrote = TRUE
  BY <1>2 DEF StepResult
<1> HIDE DEF r
<1>4. rows'[t].status = "ok" /\ rows'[t].wrote = TRUE /\ rows'[t].hour = hour
  BY <1>3, RowIs DEF r
<1>5. \A u \in FreshTables : u # t => rows'[u] = rows[u]
  BY <1>3, RowIs DEF r
<1>6. Has(t)'
  BY <1>1, <1>2, <1>4 DEF Has, FreshRow, Good, MovesTo, Hours
<1>7. \A u \in FreshTables : u # t => (FreshRow(u)' <=> FreshRow(u))
  BY <1>5 DEF FreshRow, Good
<1> QED BY <1>6, <1>7

\* What is recorded of another table leaves the rows alone.
LEMMA OtherRecord ==
  ASSUME Types, Record, NoFreshTable(job.out)
  PROVE  NoFreshTable(job'.out) /\ \A u \in FreshTables : FreshRow(u)' <=> FreshRow(u)
<1>1. /\ job.out \in Seq(Results) /\ job.out # <<>> /\ MovesTo(job.pc, Tail(job.out))
  BY RecordIs DEF Types, Jobs, Record
<1>2. Head(job.out) = job.out[1] /\ 1 \in DOMAIN job.out
  BY <1>1
<1>3. \A i \in DOMAIN Tail(job.out) :
        i + 1 \in DOMAIN job.out /\ Tail(job.out)[i] = job.out[i + 1]
  BY <1>1
<1>4. Head(job.out).table \notin FreshTables
  BY <1>2 DEF NoFreshTable
<1>5. NoFreshTable(job'.out)
  BY <1>1, <1>3 DEF NoFreshTable, MovesTo
<1>6. \A u \in FreshTables : rows'[u] = rows[u]
  BY <1>4, RowIs
<1> QED BY <1>5, <1>6 DEF FreshRow, Good

\* A whole run of the day leaves fresh rows behind.
LEMMA CleanStep ==
  ASSUME Types, NewJob, SweepCounts, SweepKept, RowsKept, CleanKept, [Next]_vars
  PROVE  CleanKept'
<1>0. /\ job \in Jobs /\ job.out \in Seq(Results) /\ hour \in Hours /\ symbols \in {{}, Codes}
      /\ job.targets \in SUBSET Codes /\ job.barOk \in Nat
  BY DEF Types, Jobs
<1>00. {"daily_bars", "daily_scores"} = FreshTables
  BY DEF FreshTables
<1>1. ASSUME job'.targets = {} \/ job'.pc \notin {"indices", "scores", "stop"}
      PROVE  CleanKept'
  BY <1>1 DEF CleanKept, Clean
<1>2. ASSUME NEW date \in BatchDates, NEW resume \in BOOLEAN, NEW skip \in BOOLEAN,
             NEW limit \in 0 .. Listed, StartBatch(date, resume, skip, limit)
      PROVE  CleanKept'
  BY <1>1, <1>2, StartIs
<1>3. CASE Record
  <2>1. MovesTo(job.pc, Tail(job.out)) /\ hour' = hour
    BY <1>0, <1>3, RecordIs DEF Record
  <2>2. SUFFICES ASSUME Clean
                 PROVE  /\ job.pc = "indices" => Reports("daily_bars")' \/ HasBars'
                        /\ job.pc = "scores" => HasBars'
                        /\ job.pc = "stop" => /\ FreshRow("daily_bars")'
                                              /\ Reports("daily_scores")' \/ Has("daily_scores")'
    <3>1. Clean' => Clean
      BY <2>1 DEF Clean, MovesTo
    <3> QED BY <2>1, <2>2, <3>1 DEF CleanKept, MovesTo
  <2>3. ASSUME NEW t \in FreshTables, Reports(t) \/ Has(t)
        PROVE  Has(t)' /\ \A u \in FreshTables : u # t => (FreshRow(u)' <=> FreshRow(u))
    <3>1. CASE Reports(t)
      BY <1>3, <2>2, <3>1, FreshRecord DEF Clean
    <3>2. CASE Has(t)
      <4>1. NoFreshTable(job'.out) /\ \A u \in FreshTables : FreshRow(u)' <=> FreshRow(u)
        BY <1>3, <3>2, OtherRecord DEF Has
      <4> QED BY <3>2, <4>1 DEF Has
    <3> QED BY <2>3, <3>1, <3>2
  <2>4. ASSUME Reports("daily_bars") \/ HasBars  PROVE missed' = job'.gaps
    <3>1. job'.gaps = job.gaps /\ job.out # <<>> /\ job.date = Today
      BY <1>3, <2>1, <2>2 DEF Record, MovesTo, Clean
    <3>2. CASE Reports("daily_bars")
      <4>1. Head(job.out).table = "daily_bars" /\ Head(job.out).wrote
        BY <3>2 DEF Reports, StepResult
      <4> QED BY <1>3, <3>1, <4>1, MissedIs
    <3>3. CASE HasBars
      <4>1. Head(job.out) = job.out[1] /\ 1 \in DOMAIN job.out
        BY <1>0, <3>1
      <4>2. Head(job.out).table # "daily_bars"
        BY <3>3, <4>1 DEF HasBars, Has, NoFreshTable, FreshTables
      <4>3. missed' = missed
        BY <1>3, <4>2, MissedIs
      <4> QED BY <3>1, <3>3, <4>3 DEF HasBars
    <3> QED BY <2>4, <3>2, <3>3
  <2> QED BY <1>00, <2>2, <2>3, <2>4 DEF CleanKept, HasBars
<1>4. CASE IngestSymbols
  <2>1. job.pc = "symbols" /\ job'.targets = job.targets
    BY <1>0, <1>4, SymbolsIs DEF IngestSymbols, Running, MovesTo
  <2>2. job'.targets = {}
    BY <2>1 DEF NewJob
  <2> QED BY <1>1, <2>2
<1>5. CASE LoadTargets
  <2>1. job'.targets = {} \/ job'.pc = "sweep"
    BY <1>0, <1>5, LoadIs, IdleIs
  <2> QED BY <1>1, <2>1
<1>6. CASE Retry \/ \E c \in Codes : BarsFail(c) \/ NoBars(c) \/ StoreBars(c) \/ RetryFlows(c)
  <2>1. job'.pc = "sweep"
    BY <1>0, <1>6, RetryIs, BarsFailIs, NoBarsIs, StoreIs, RetryFlowsIs DEF Sweeps
  <2> QED BY <1>1, <2>1
<1>7. CASE BarsAndFlowsDone
  <2>1. PICK bar \in Results, flow \in Results :
         /\ bar = StepResult("daily_bars", StatusOf(job.barOk, Cardinality(job.targets)),
                             job.wroteBars)
         /\ flow.table = "daily_flows" /\ job.pc = "sweep" /\ job.todo = {}
         /\ job'.pc = "indices" /\ job'.out = <<bar, flow>> /\ job'.gaps = job.gaps
         /\ job'.targets = job.targets /\ job'.barFail = job.barFail
    BY <1>0, <1>7, DoneIs
  <2>2. SUFFICES ASSUME Clean'  PROVE Reports("daily_bars")'
    BY <2>1 DEF CleanKept
  <2>3. job.targets \ (Halted \cup job.gaps) # {} /\ NoBarsYet = {}
    BY <2>1, <2>2 DEF Clean, NoBarsYet
  <2>4. job.wroteBars
    BY <2>1, <2>3 DEF SweepKept
  <2>5. job.barOk + Cardinality(NoBarsYet) = Cardinality(job.targets)
    BY <2>1 DEF SweepCounts, Counted, NoBarsYet
  <2>6. job.barOk = Cardinality(job.targets) /\ Cardinality(job.targets) > 0
    <3>1. IsFiniteSet(job.targets)
      BY <1>0, CodesAre, FS_Subset
    <3>2. Cardinality(job.targets) \in Nat /\ Cardinality(job.targets) # 0
      BY <2>3, <3>1, FS_CardinalityType, FS_EmptySet
    <3>3. Cardinality(NoBarsYet) = 0
      BY <2>3, FS_EmptySet
    <3> QED BY <1>0, <2>5, <3>2, <3>3
  <2>7. StatusOf(job.barOk, Cardinality(job.targets)) = "ok"
    BY <1>0, <2>6, StatusIs
  <2>8. job.wroteBars = TRUE
    BY <1>0, <2>4 DEF Jobs
  <2>9. bar = StepResult("daily_bars", "ok", TRUE)
    BY <2>1, <2>7, <2>8
  <2>10. /\ job'.out # <<>> /\ Head(job'.out) = bar /\ Tail(job'.out) = <<flow>>
    BY <2>1, TwoResults
  <2>11. NoFreshTable(<<flow>>)
    <3>1. DOMAIN <<flow>> = {1} /\ <<flow>>[1] = flow
      BY OneResult
    <3> QED BY <2>1, <3>1 DEF NoFreshTable, FreshTables
  <2> QED BY <2>9, <2>10, <2>11 DEF Reports
<1>8. CASE IngestIndices
  <2>1. PICK r \in Results : r.table = "market_indices" /\ MovesTo("scores", <<r>>)
    BY <1>0, <1>8, IndicesIs
  <2>2. job.pc = "indices" /\ job.out = <<>> /\ hour' = hour /\ rows' = rows /\ missed' = missed
    BY <1>8 DEF IngestIndices, Running, historyVars
  <2>3. SUFFICES ASSUME Clean'  PROVE HasBars'
    BY <2>1 DEF CleanKept, MovesTo
  <2>4. Clean
    BY <2>1, <2>2, <2>3 DEF Clean, MovesTo
  <2>5. HasBars
    BY <2>2, <2>4 DEF CleanKept, Reports
  <2>6. NoFreshTable(<<r>>)
    <3>1. DOMAIN <<r>> = {1} /\ <<r>>[1] = r
      BY OneResult
    <3> QED BY <2>1, <3>1 DEF NoFreshTable, FreshTables
  <2> QED BY <2>1, <2>2, <2>5, <2>6 DEF HasBars, Has, FreshRow, MovesTo
<1>9. CASE ComputeDailyScores
  <2>1. job.pc = "scores" /\ hour' = hour /\ rows' = rows
    BY <1>9 DEF ComputeDailyScores, Running
  <2>2. PICK out : MovesTo("stop", out) /\
          (BarSymbols(job.date) # {} => out = <<StepResult("daily_scores", "ok", TRUE)>>)
    BY <1>0, <1>9, ScoresIs
  <2>3. SUFFICES ASSUME Clean'  PROVE FreshRow("daily_bars")' /\ Reports("daily_scores")'
    BY <2>2 DEF CleanKept, MovesTo
  <2>4. Clean
    BY <2>1, <2>2, <2>3 DEF Clean, MovesTo
  <2>5. FreshRow("daily_bars") /\ missed = job.gaps
    BY <2>1, <2>4 DEF CleanKept, HasBars, Has
  <2>6. AllBars(job.gaps) /\ job.date = Today
    BY <2>4, <2>5 DEF RowsKept, FreshRow, Clean
  <2>7. PICK c \in job.targets : c \notin Halted \cup job.gaps
    BY <2>4 DEF Clean
  <2>8. Prev \in BarDates(c, job.date)
    BY <1>0, <2>6, <2>7 DEF AllBars, BarDates, Prev, Today
  <2>9. BarSymbols(job.date) # {}
    BY <1>0, <2>8 DEF BarSymbols
  <2> DEFINE r == StepResult("daily_scores", "ok", TRUE)
  <2>10. r \in Results
    BY ResultIs DEF Tables, FreshTables, Statuses
  <2> HIDE DEF r
  <2>11. job'.out = <<r>>
    BY <2>2, <2>9 DEF MovesTo, r
  <2>12. job'.out # <<>> /\ Head(job'.out) = r /\ Tail(job'.out) = <<>>
    BY <2>10, <2>11, OneResult
  <2>13. NoFreshTable(<<>>)
    BY DEF NoFreshTable
  <2> QED BY <2>1, <2>5, <2>12, <2>13 DEF FreshRow, Reports, r
<1>10. CASE EndBatch \/ DieHalfway
  <2>1. job'.targets = {}
    BY <1>10, IdleIs DEF EndBatch, DieHalfway
  <2> QED BY <1>1, <2>1
<1>11. CASE HourPasses
  <2>1. job' = job /\ rows' = rows /\ (job.pc = "idle" \/ hour # "eve")
        /\ missed' = missed
    BY <1>11 DEF HourPasses, historyVars
  <2>2. CASE job.pc = "idle"
    BY <1>1, <2>1, <2>2
  <2>3. CASE hour # "eve"
    <3>1. Clean' => Clean
      BY <2>1, <2>3 DEF Clean
    <3>2. \A t \in FreshTables : (Has(t)' <=> Has(t)) /\ (Reports(t)' <=> Reports(t))
                                 /\ (FreshRow(t)' <=> FreshRow(t))
      BY <2>1 DEF Has, Reports, FreshRow
    <3> QED BY <1>00, <2>1, <3>1, <3>2 DEF CleanKept, HasBars
  <2> QED BY <2>1, <2>2, <2>3
<1>12. CASE CycleChecksFreshness \/ CycleLoadsCandidates \/ UNCHANGED vars
  <2>1. job' = job /\ rows' = rows /\ hour' = hour /\ missed' = missed
    BY <1>12 DEF CycleChecksFreshness, CycleLoadsCandidates, vars, historyVars
  <2>2. Clean' => Clean
    BY <2>1 DEF Clean
  <2>3. \A t \in FreshTables : (Has(t)' <=> Has(t)) /\ (Reports(t)' <=> Reports(t))
                               /\ (FreshRow(t)' <=> FreshRow(t))
    BY <2>1 DEF Has, Reports, FreshRow
  <2> QED BY <1>00, <2>1, <2>2, <2>3 DEF CleanKept, HasBars
<1> QED BY <1>2, <1>3, <1>4, <1>5, <1>6, <1>7, <1>8, <1>9, <1>10, <1>11, <1>12 DEF Next

-----------------------------------------------------------------------------
(* The invariant, and what follows.                                        *)

\* It holds at the start: no batch has run.
LEMMA InitIngest == Init => IngestInv
<1> SUFFICES ASSUME Init PROVE IngestInv
  OBVIOUS
<1>1. /\ hour = "eve" /\ symbols \in {{}, Codes} /\ job = IdleJob /\ runs = 0
      /\ died = FALSE /\ late = FALSE /\ missed = {}
      /\ bars \in [Codes -> SUBSET Days] /\ \A c \in Codes : Today \notin bars[c]
      /\ scores \in [Days -> [Codes -> {NoBar} \cup Days]]
      /\ \A t \in FreshTables : rows[t] = NoRow
      /\ rows = [t \in FreshTables |-> NoRow]
      /\ cycle = [pc |-> "none", fresh |-> FALSE, missed |-> {},
                  basis |-> [c \in Codes |-> NoBar]]
  BY DEF Init, Days, Before, Today, NoBar
<1>2. rows \in [FreshTables -> RunRows] /\ ~Good(rows["daily_bars"])
  BY <1>1 DEF NoRow, RunRows, Good, FreshTables
<1>3. cycle \in Cycles
  BY <1>1 DEF Cycles
<1>4. Types
  <2>1. 0 \in 0 .. MaxRuns
    BY IngestAssumption
  <2>2. hour \in Hours /\ {died, late} \subseteq BOOLEAN
    BY <1>1 DEF Hours
  <2> QED BY <1>1, <1>2, <1>3, <2>1, <2>2, IdleIs DEF Types
<1>5. NewJob /\ SweepCounts /\ LateKept /\ BarsKept /\ SweepKept
  BY <1>1, IdleIs DEF NewJob, SweepCounts, NoBarsYet, NoFlowsYet, LateKept, BarsKept, SweepKept
<1>6. RowsKept /\ CleanKept
  BY <1>1, <1>2, IdleIs DEF RowsKept, CleanKept
<1>7. QuietKept
  BY <1>1, <1>2 DEF QuietKept
<1> QED BY <1>4, <1>5, <1>6, <1>7 DEF IngestInv

\* It holds in every reachable state.
LEMMA IngestInvariant == Spec => []IngestInv
<1>1. IngestInv /\ [Next]_vars => IngestInv'
  BY TypesStep, NewJobStep, CountsStep, LateStep, SweepStep, RowsStep, QuietStep, CleanStep
     DEF IngestInv
<1> QED BY <1>1, InitIngest, PTL DEF Spec

\* The state is well typed; what is at hand are stocks of the run.
THEOREM IngestTyped == Spec => []IngestTypeOK
<1>1. IngestInv => IngestTypeOK
  <2> SUFFICES ASSUME IngestInv PROVE IngestTypeOK
    OBVIOUS
  <2>1. Types /\ NoBarsYet \cup NoFlowsYet \subseteq job.targets
    BY DEF IngestInv, SweepCounts
  <2>2. job.todo \cup job.flowTodo \cup job.barFail \cup job.flowFail \subseteq job.targets
    BY <2>1 DEF NoBarsYet, NoFlowsYet
  <2>3. \A t \in FreshTables : rows[t].status \in {"none", "ok", "partial", "failed"}
    BY <2>1 DEF Types, RunRows, Statuses
  <2>4. job.pc \in JobSteps /\ cycle.pc \in {"none", "checked", "loaded", "stopped"}
    BY <2>1 DEF Types, Jobs, Cycles
  <2>5. missed \cup job.gaps \subseteq Codes \ Halted
    BY <2>1 DEF Types, Jobs
  <2> QED BY <2>1, <2>2, <2>3, <2>4, <2>5 DEF IngestTypeOK, Types, Hours
<1> QED BY <1>1, IngestInvariant, PTL

\* Through both sweeps every stock is counted once for each table, however many there are
\* and however often their queries fail (ingest_bars_and_flows).
THEOREM StocksCountedOnce == Spec => []EachStockCountedOnce
<1>1. IngestInv => EachStockCountedOnce
  BY DEF IngestInv, SweepCounts, Counted, NoBarsYet, NoFlowsYet, EachStockCountedOnce
<1> QED BY <1>1, IngestInvariant, PTL

\* When the freshness check passes, every stock that trades has the bar of the day before
\* (check_freshness), whatever any number of batches did, but for those the run that wrote
\* the row left out without a failure.
THEOREM FreshIsComplete == Spec => []FreshBarsComplete
<1>1. IngestInv => FreshBarsComplete
  <2> SUFFICES ASSUME IngestInv, Fresh PROVE \A c \in symbols \ (Halted \cup missed) : Prev \in bars[c]
    BY DEF FreshBarsComplete
  <2>1. Good(rows["daily_bars"])
    BY DEF Fresh, FreshTables, LastIngestRun, Good
  <2>2. AllBars(missed)
    BY <2>1 DEF IngestInv, RowsKept
  <2> QED BY <2>2 DEF AllBars
<1> QED BY <1>1, IngestInvariant, PTL

\* As long as no batch died half-way and none was at work in the session, a cycle that
\* found the data fresh reads candidates scored on the bar of the day before (run_cycle.py),
\* but for the stocks the run the check relied on left out without a failure.
THEOREM QuietDayIsCurrent == Spec => []QuietDayCandidatesCurrent
<1>1. IngestInv => QuietDayCandidatesCurrent
  BY DEF IngestInv, QuietKept, QuietDayCandidatesCurrent, CandidatesCurrent
<1> QED BY <1>1, IngestInvariant, PTL

\* The check is not too strict: a run of the day that received bars and none of whose stocks
\* failed ends with the data fresh (10.3 of the operations guide).
THEOREM CleanRunsAreFresh == Spec => CleanRunIsFresh
<1>1. IngestInv /\ [Next]_vars => [EndBatch /\ CleanRun => Fresh]_vars
  <2> SUFFICES ASSUME IngestInv, EndBatch, CleanRun PROVE Fresh
    OBVIOUS
  <2>1. job.pc = "stop" /\ job.out = <<>> /\ Clean
    BY DEF EndBatch, Running, CleanRun, Clean
  <2>2. FreshRow("daily_bars") /\ Has("daily_scores")
    BY <2>1 DEF IngestInv, CleanKept, Reports
  <2> QED BY <2>2 DEF Fresh, FreshTables, LastIngestRun, Has, FreshRow, Good
<1> QED BY <1>1, IngestInvariant, PTL DEF Spec, CleanRunIsFresh
=============================================================================
