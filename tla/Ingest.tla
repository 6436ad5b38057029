------------------------------- MODULE Ingest -------------------------------
(***************************************************************************)
(* The daily batch (run_daily_ingest.py), the rows of ingest_runs it       *)
(* leaves, and the two things the cycle of the day reads of it: the        *)
(* freshness check (data/corrections.py) and the scored candidates         *)
(* (memory/journal.py, run_cycle.py).                                      *)
(*                                                                         *)
(* One trading day, Today, and the trading day before it, Prev.  A batch   *)
(* is started by cron at 08:00 or by a person at any time, for either      *)
(* date; it fetches stock by stock, retries what failed once, records each *)
(* step in a commit of its own and may die between any two of them.        *)
(*                                                                         *)
(* Of a bar only its date is kept, of a score only the date of the bar it  *)
(* was computed from, of rows_written only whether it is positive.         *)
(***************************************************************************)
EXTENDS Integers, Sequences, FiniteSets

CONSTANTS
  Listed,   \* how many stocks the exchange's master file has
  Halted,   \* those with no bar in the window fetched (suspended, delisted)
  MaxRuns   \* how many batches are started

Codes == 1 .. Listed   \* in the order the batch takes them

ASSUME IngestAssumption == Listed \in Nat /\ Halted \subseteq Codes /\ MaxRuns \in Nat

VARIABLES
  hour,     \* "eve" of Today, "morning" before the open, "session"
  symbols,  \* symbols: the stocks known
  bars,     \* daily_bars: for each stock the dates it has
  scores,   \* daily_scores: for each date and stock the bar it was scored on
  rows,     \* ingest_runs: the rows of Today the freshness check reads
  job,      \* the batch process, see Job
  cycle,    \* what the cycle of Today has read
  runs,     \* batches started
  died,     \* history: a batch died half-way
  missed,   \* history: see Gaps
  late      \* history: a batch was at work while the market was open

marketVars == <<symbols, bars, scores>>
historyVars == <<runs, died, missed>>
vars == <<hour, marketVars, rows, job, cycle, historyVars, late>>

Before == 1   \* any day before Prev
Prev == 2
Today == 3
Days == Before .. Today
BatchDates == {Prev, Today}
NoBar == 0

Markets == 2   \* KOSPI and KOSDAQ
FreshTables == {"daily_bars", "daily_scores"}

First(stocks) == CHOOSE c \in stocks : \A e \in stocks : c <= e
LatestOf(dates) == IF dates = {} THEN NoBar ELSE CHOOSE d \in dates : \A e \in dates : e <= d

-----------------------------------------------------------------------------
(* The result of a step and the row of ingest_runs it becomes.             *)

StepResult(table, status, wrote) == [table |-> table, status |-> status, wrote |-> wrote]

NoRow == [status |-> "none", wrote |-> FALSE, hour |-> "none"]

\* No stock done out of some is a failure; nothing to do is a success.
StatusOf(ok, targets) ==
  IF ok = 0 /\ targets > 0 THEN "failed" ELSE IF ok = targets THEN "ok" ELSE "partial"

\* The key is the date and the table, so a second run overwrites the row.  The
\* rows of another date or another table are read by no process.
RecordIngestRun(date, r) ==
  rows' = IF date = Today /\ r.table \in FreshTables
          THEN [rows EXCEPT ![r.table] =
                  [status |-> r.status, wrote |-> r.wrote, hour |-> hour]]
          ELSE rows

LastIngestRun(table) == rows[table]

\* History: the stocks that trade of which the run that wrote the row of daily_bars
\* received nothing and counted no failure.  A run without any bar has no such
\* excuse: its row says so.
Gaps(r) ==
  missed' = IF job.date = Today /\ r.table = "daily_bars"
            THEN IF r.wrote THEN job.gaps ELSE {}
            ELSE missed

-----------------------------------------------------------------------------
(* The tables the batch fills and reads: every write is an upsert, on the  *)
(* stock and the date.                                                     *)

UpsertSymbols == symbols' = Codes
UpsertDailyBars(c, dates) == bars' = [bars EXCEPT ![c] = @ \cup dates]
UpsertDailyScores(date, of) ==
  scores' = [scores EXCEPT ![date] =
               [c \in Codes |-> IF of[c] = NoBar THEN @[c] ELSE of[c]]]

BarDates(c, date) == {d \in bars[c] : d <= date}
BarSymbols(date) == {c \in Codes : BarDates(c, date) # {}}
LatestBarDate(date) == LatestOf(UNION {BarDates(c, date) : c \in Codes})

\* The latest bar each stock has up to the date, which the indicators are of.
Panel(date) == [c \in Codes |-> LatestOf(BarDates(c, date))]

-----------------------------------------------------------------------------
(* The batch process.  out: results to be recorded before step pc; limit:  *)
(* the --limit option, 0 without it; todo: stocks of the sweep at hand;    *)
(* flowTodo: stocks of the flows-only sweep; gaps: history, see Gaps.      *)

JobSteps == {"idle", "symbols", "load", "sweep", "indices", "scores", "stop"}

IdleJob ==
  [pc |-> "idle", date |-> Today, resume |-> FALSE, limit |-> 0, out |-> <<>>,
   targets |-> {}, gaps |-> {}, todo |-> {}, flowTodo |-> {}, barFail |-> {}, flowFail |-> {},
   barOk |-> 0, flowOk |-> 0, wroteBars |-> FALSE, second |-> FALSE]

Running(pc) == job.pc = pc /\ job.out = <<>>

Init ==
  /\ hour = "eve"
  /\ symbols \in {{}, Codes}
  /\ bars \in {[c \in Codes |-> {}], [c \in Codes |-> {Before}]}
  /\ scores = [d \in Days |-> [c \in Codes |-> NoBar]]
  /\ rows = [t \in FreshTables |-> NoRow]
  /\ job = IdleJob
  /\ cycle = [pc |-> "none", fresh |-> FALSE, missed |-> {}, basis |-> [c \in Codes |-> NoBar]]
  /\ runs = 0
  /\ died = FALSE /\ late = FALSE /\ missed = {}

StartBatch(date, resume, skipSymbols, limit) ==
  /\ job.pc = "idle" /\ runs < MaxRuns /\ cycle.pc \in {"none", "checked"}
  /\ job' = [IdleJob EXCEPT !.pc = IF skipSymbols THEN "load" ELSE "symbols",
                            !.date = date, !.resume = resume, !.limit = limit]
  /\ runs' = runs + 1
  /\ late' = (late \/ hour = "session")
  /\ UNCHANGED <<hour, marketVars, rows, cycle, died, missed>>

Record ==
  /\ job.out # <<>>
  /\ RecordIngestRun(job.date, Head(job.out))
  /\ Gaps(Head(job.out))
  /\ job' = [job EXCEPT !.out = Tail(@)]
  /\ UNCHANGED <<hour, marketVars, cycle, runs, died, late>>

\* A failure is recorded and ends the batch.
IngestSymbols ==
  /\ Running("symbols")
  /\ \/ /\ UpsertSymbols
        /\ job' = [job EXCEPT !.pc = "load", !.out =
                     <<StepResult("symbols", "ok", Codes # {})>>]
     \/ /\ symbols' = symbols
        /\ job' = [job EXCEPT !.pc = "stop", !.out =
                     <<StepResult("symbols", "failed", FALSE)>>]
  /\ UNCHANGED <<hour, bars, scores, rows, cycle, historyVars, late>>

AlreadyDone(date) == {c \in Codes : date \in bars[c]}

\* --limit takes the first stocks of the table.
LimitedTo(limit) == IF limit = 0 THEN symbols ELSE {c \in symbols : c <= limit}

\* Mutant of LoadTargets: a resumed run counts what remains and fetches all.
LoadTargetsWhole ==
  /\ Running("load")
  /\ LET codes == LimitedTo(job.limit)
         targets == codes \ (IF job.resume THEN AlreadyDone(job.date) ELSE {})
     IN  job' = IF codes = {} THEN IdleJob
                ELSE [job EXCEPT !.pc = "sweep", !.limit = 0, !.targets = targets,
                        !.todo = codes, !.gaps = symbols \ (codes \cup Halted)]
  /\ UNCHANGED <<hour, marketVars, rows, cycle, historyVars, late>>

LoadTargets ==
  /\ Running("load")
  /\ LET codes == LimitedTo(job.limit)
         targets == codes \ (IF job.resume THEN AlreadyDone(job.date) ELSE {})
     IN  job' = IF codes = {} THEN IdleJob
                ELSE [job EXCEPT !.pc = "sweep", !.limit = 0, !.targets = targets,
                        !.todo = targets, !.gaps = symbols \ (codes \cup Halted)]
  /\ UNCHANGED <<hour, marketVars, rows, cycle, historyVars, late>>

-----------------------------------------------------------------------------
(* Bars and flows, stock by stock.                                         *)

\* The confirmed bars up to date of a stock that trades, and today's provisional one
\* once the market is open; before that it has volume 0 and is dropped.
BarsOffered(date) == {d \in Days : d <= date /\ (d < Today \/ hour = "session")}

BarsFail(c) ==
  /\ Running("sweep") /\ job.todo # {} /\ c = First(job.todo)
  /\ job' = [job EXCEPT !.todo = @ \ {c}, !.barFail = @ \cup {c}]
  /\ UNCHANGED <<hour, marketVars, rows, cycle, historyVars, late>>

\* Mutant of NoBars: a stock with nothing to fetch is not counted.
NoBarsUncounted(c) ==
  /\ Running("sweep") /\ job.todo # {} /\ c = First(job.todo)
  /\ job' = [job EXCEPT !.todo = @ \ {c}, !.gaps = @ \cup ({c} \ Halted)]
  /\ UNCHANGED <<hour, marketVars, rows, cycle, historyVars, late>>

\* An answer without a bar is a success of both tables, there are no flows either.
\* Meant for a stock with none in the window, it may come of any stock.
NoBars(c) ==
  /\ Running("sweep") /\ job.todo # {} /\ c = First(job.todo)
  /\ job' = [job EXCEPT !.todo = @ \ {c}, !.barOk = @ + 1, !.flowOk = @ + 1,
               !.gaps = @ \cup ({c} \ Halted)]
  /\ UNCHANGED <<hour, marketVars, rows, cycle, historyVars, late>>

StoreBars(c) ==
  /\ Running("sweep") /\ job.todo # {} /\ c = First(job.todo)
  /\ c \notin Halted
  /\ UpsertDailyBars(c, BarsOffered(job.date))
  /\ \E flowsFail \in BOOLEAN :
       job' = [job EXCEPT !.todo = @ \ {c}, !.barOk = @ + 1, !.wroteBars = TRUE,
                 !.flowFail = IF flowsFail THEN @ \cup {c} ELSE @,
                 !.flowOk = IF flowsFail THEN @ ELSE @ + 1]
  /\ UNCHANGED <<hour, symbols, scores, rows, cycle, historyVars, late>>

\* Mutant of Retry: the flows that failed go through the whole sweep again.
RetryWhole ==
  /\ Running("sweep") /\ job.todo = {} /\ ~job.second
  /\ job.barFail \cup job.flowFail # {}
  /\ job' = [job EXCEPT !.second = TRUE, !.todo = job.barFail \cup job.flowFail,
               !.barFail = {}, !.flowFail = {}]
  /\ UNCHANGED <<hour, marketVars, rows, cycle, historyVars, late>>

\* What failed is tried once more in the same run: the stocks without bars go
\* through the sweep, those with bars and no flows through sweep_flows.
Retry ==
  /\ Running("sweep") /\ job.todo = {} /\ ~job.second
  /\ job.barFail \cup job.flowFail # {}
  /\ job' = [job EXCEPT !.second = TRUE, !.todo = job.barFail, !.flowTodo = job.flowFail,
               !.barFail = {}, !.flowFail = {}]
  /\ UNCHANGED <<hour, marketVars, rows, cycle, historyVars, late>>

RetryFlows(c) ==
  /\ Running("sweep") /\ job.todo = {}
  /\ job.flowTodo # {} /\ c = First(job.flowTodo)
  /\ \/ job' = [job EXCEPT !.flowTodo = @ \ {c}, !.flowFail = @ \cup {c}]
     \/ job' = [job EXCEPT !.flowTodo = @ \ {c}, !.flowOk = @ + 1]
  /\ UNCHANGED <<hour, marketVars, rows, cycle, historyVars, late>>

SweepOver ==
  /\ job.todo = {} /\ job.flowTodo = {}
  /\ job.second \/ job.barFail \cup job.flowFail = {}

\* Whether a run wrote flows is read by no process.
BarsAndFlowsDone ==
  /\ Running("sweep") /\ SweepOver
  /\ LET n == Cardinality(job.targets)
     IN  job' = [IdleJob EXCEPT !.pc = "indices",
                   !.date = job.date, !.resume = job.resume, !.targets = job.targets,
                   !.gaps = job.gaps, !.barFail = job.barFail, !.out =
           <<StepResult("daily_bars", StatusOf(job.barOk, n), job.wroteBars),
             StepResult("daily_flows", StatusOf(job.flowOk, n), job.wroteBars)>>]
  /\ UNCHANGED <<hour, marketVars, rows, cycle, historyVars, late>>

-----------------------------------------------------------------------------
(* Indices, scores, the end.                                               *)

IngestIndices ==
  /\ Running("indices")
  /\ \E ok \in 0 .. Markets :
       job' = [job EXCEPT !.pc = "scores", !.out =
                 <<StepResult("market_indices", StatusOf(ok, Markets), ok > 0)>>]
  /\ UNCHANGED <<hour, marketVars, rows, cycle, historyVars, late>>

\* Mutant of ComputeDailyScores: the scores carry the date of the batch.
ComputeDailyScoresBatchDate ==
  /\ Running("scores") /\ BarSymbols(job.date) # {}
  /\ UpsertDailyScores(job.date, Panel(job.date))
  /\ job' = [job EXCEPT !.pc = "stop", !.out = <<StepResult("daily_scores", "ok", TRUE)>>]
  /\ UNCHANGED <<hour, symbols, bars, rows, cycle, historyVars, late>>

\* The stocks with a bar up to date are scored on their latest one, and the
\* scores carry the date of the latest bar of all.
ComputeDailyScores ==
  /\ Running("scores")
  /\ \/ /\ BarSymbols(job.date) = {}
        /\ scores' = scores
        /\ job' = [job EXCEPT !.pc = "stop",
                     !.out = <<StepResult("daily_scores", "failed", FALSE)>>]
     \/ /\ BarSymbols(job.date) # {}
        /\ UpsertDailyScores(LatestBarDate(job.date), Panel(job.date))
        /\ job' = [job EXCEPT !.pc = "stop",
                     !.out = <<StepResult("daily_scores", "ok", TRUE)>>]
  /\ UNCHANGED <<hour, symbols, bars, rows, cycle, historyVars, late>>

\* A summary is sent and the process ends, with an error if a step failed.
EndBatch ==
  /\ Running("stop")
  /\ job' = IdleJob
  /\ UNCHANGED <<hour, marketVars, rows, cycle, historyVars, late>>

DieHalfway ==
  /\ job.pc # "idle"
  /\ job' = IdleJob
  /\ died' = TRUE
  /\ UNCHANGED <<hour, marketVars, rows, cycle, runs, missed, late>>

-----------------------------------------------------------------------------
(* The day, and the cycle at 14:30.                                        *)

\* A batch takes minutes: it may be running at the open, never overnight.
HourPasses ==
  /\ \/ hour = "eve" /\ job.pc = "idle" /\ hour' = "morning"
     \/ hour = "morning" /\ hour' = "session"
  /\ late' = (late \/ job.pc # "idle")
  /\ UNCHANGED <<marketVars, rows, job, cycle, historyVars>>

\* Mutant of Fresh: the rows written are not looked at.
FreshByStatus ==
  \A t \in FreshTables :
     LET r == LastIngestRun(t)
     IN  r.status = "ok" /\ r.hour \in {"morning", "session"}

\* check_freshness of Today in the session: a run of the evening before is
\* older than max_age_hours.
Fresh ==
  \A t \in FreshTables :
     LET r == LastIngestRun(t)
     IN  r.status = "ok" /\ r.wrote /\ r.hour \in {"morning", "session"}

CycleChecksFreshness ==
  /\ hour = "session" /\ cycle.pc = "none"
  /\ cycle' = [cycle EXCEPT !.pc = "checked", !.fresh = Fresh, !.missed = missed]
  /\ UNCHANGED <<hour, marketVars, rows, job, historyVars, late>>

Candidates(date) == {c \in Codes : scores[date][c] # NoBar}

\* load_daily_score_candidates of the trading day before: none ends the cycle.
CycleLoadsCandidates ==
  /\ cycle.pc = "checked"
  /\ cycle' = [cycle EXCEPT !.pc = IF Candidates(Prev) = {} THEN "stopped" ELSE "loaded",
                            !.basis = scores[Prev]]
  /\ UNCHANGED <<hour, marketVars, rows, job, historyVars, late>>

-----------------------------------------------------------------------------
Next ==
  \/ \E date \in BatchDates, resume, skip \in BOOLEAN, limit \in 0 .. Listed :
        StartBatch(date, resume, skip, limit)
  \/ Record
  \/ IngestSymbols
  \/ LoadTargets
  \/ \E c \in Codes : BarsFail(c) \/ NoBars(c) \/ StoreBars(c) \/ RetryFlows(c)
  \/ Retry
  \/ BarsAndFlowsDone
  \/ IngestIndices
  \/ ComputeDailyScores
  \/ EndBatch
  \/ DieHalfway
  \/ HourPasses
  \/ CycleChecksFreshness
  \/ CycleLoadsCandidates

Spec == Init /\ [][Next]_vars

-----------------------------------------------------------------------------
(* Properties.                                                             *)

\* Dates, rows and scores are of their kinds, and the stocks at hand in a sweep are
\* among those the batch set out with.
IngestTypeOK ==
  /\ hour \in {"eve", "morning", "session"}
  /\ symbols \in {{}, Codes}
  /\ bars \in [Codes -> SUBSET Days]
  /\ scores \in [Days -> [Codes -> {NoBar} \cup Days]]
  /\ \A t \in FreshTables : rows[t].status \in {"none", "ok", "partial", "failed"}
  /\ job.pc \in JobSteps
  /\ job.todo \cup job.flowTodo \cup job.barFail \cup job.flowFail \subseteq job.targets
  /\ cycle.pc \in {"none", "checked", "loaded", "stopped"}
  /\ runs \in 0 .. MaxRuns /\ {died, late} \subseteq BOOLEAN
  /\ missed \cup job.gaps \subseteq Codes \ Halted

\* Through both sweeps every stock is counted once for each table, in the
\* successes or among the failures that remain (run_daily_ingest.py,
\* ingest_bars_and_flows: a stock whose bars arrived is not counted again).
EachStockCountedOnce ==
  job.pc = "sweep" =>
    LET bad == job.barFail \cup job.todo
        noFlows == job.flowFail \cup job.flowTodo
    IN  /\ job.barOk + Cardinality(bad) = Cardinality(job.targets)
        /\ job.flowOk + Cardinality(bad \cup noFlows) = Cardinality(job.targets)
        /\ bad \cap noFlows = {}

\* When the freshness check passes, every stock that trades has the bar of the day
\* before, whatever batches ran, failed, died or were resumed, but for the stocks
\* the run that wrote the row left out without a failure: those --limit cut off and
\* those it was answered with nothing of.  A run that wrote no row at all leaves out
\* none that way (corrections.py, check_freshness: ok and rows written).
FreshBarsComplete ==
  Fresh => \A c \in symbols \ (Halted \cup missed) : Prev \in bars[c]

\* What the guide makes of the check (docs/10-operations.md, 10.3: an empty answer
\* may count as a success, for rows_written shows an outage of the source).
FreshMeansComplete ==
  Fresh => \A c \in symbols \ Halted : Prev \in bars[c]

\* What the documents promise (docs/03-architecture.md: the freshness check keeps
\* a cycle from judging by old data), of the stocks whose bars the check vouches
\* for: a cycle that found the data fresh reads candidates scored on the bar of the
\* day before.
CandidatesCurrent ==
  cycle.pc = "loaded" /\ cycle.fresh =>
    \A c \in Codes \ (Halted \cup cycle.missed) : cycle.basis[c] = Prev

\* As long as no batch died half-way and none was at work while the market was
\* open, a cycle that found the data fresh reads candidates scored on the bar
\* of the day before, every one of them but for the stocks the run of the row left
\* out without a failure (run_cycle.py, main).
QuietDayCandidatesCurrent == ~died /\ ~late => CandidatesCurrent

\* The check is not too strict: once a run of the day has received the bars of a
\* stock and none of its stocks has failed, be it on the second try, the data is
\* fresh (10.3 of the operations guide: a single lost call must not stop the day).
CleanRun ==
  /\ job.date = Today /\ hour # "eve"
  /\ job.targets \ (Halted \cup job.gaps) # {} /\ job.barFail = {}
CleanRunIsFresh == [][EndBatch /\ CleanRun => Fresh]_vars
=============================================================================
