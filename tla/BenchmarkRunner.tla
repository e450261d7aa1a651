--------------------------- MODULE BenchmarkRunner ---------------------------
(***************************************************************************)
(* The frozen benchmark runner (bfbt/experiments/llm_benchmark_event.py):  *)
(* isolated accounts, one per submitted strategy, advance through one      *)
(* stream of minutes.  Orders fill at the open of a minute, risk is read   *)
(* from the minute before, decisions are taken on the hour.  Rows are      *)
(* flushed to numbered parts and a checkpoint is written every FlushDays   *)
(* days; a process that dies is started again and reads the same stream    *)
(* from its checkpoint on.  After the core interval every account is       *)
(* flattened, and each run is published by a rename.                       *)
(*                                                                         *)
(* Quantities are lots: 2 is a full position, 1 a reduced one.  What the   *)
(* code computes from prices (equity against limits, scores, moves) is     *)
(* part of the minute's input: it is a function of the stream and of the   *)
(* account, so a replay of a minute meets the same input again.  What is   *)
(* not part of it is the order in which a process walks a set or a dict.   *)
(***************************************************************************)
EXTENDS Integers, FiniteSets, SequencesExt

CONSTANTS
  Names,          \* the contracts in the order of their names
  Rosters,        \* the strategies that run together (the code runs all four)
  HourLen, DayLen, CoreDays, TailLen,   \* minutes, hours and days, scaled
  FlushDays,      \* days from one checkpoint to the next
  StaleAfter, CooldownLen,              \* minutes
  MinScores,      \* fewer scores than this leave CHATGPT without a universe
  DropLimit,      \* GROK leaves the market when this many contracts drop out
  Tilts,          \* sides of a decision: [Symbols -> {-1, 0, 1}]
  Usual,          \* the tilt of an ordinary hour
  MaxOdd,         \* bound: minutes whose input is out of the ordinary
  MaxCrashes,     \* bound
  None

Symbols == Range(Names)

CoreEnd == CoreDays * DayLen
TailEnd == CoreEnd + TailLen

ASSUME ClockAssumption ==
  /\ {HourLen, DayLen, CoreDays, TailLen, FlushDays} \subseteq Nat \ {0}
  /\ DayLen % HourLen = 0
  /\ IsInjective(Names)
  /\ Usual \in Tilts /\ Tilts \subseteq [Symbols -> {-1, 0, 1}]

VARIABLES
  phase,          \* what the process is doing; "down": no process
  now,            \* the next minute it handles
  accounts,       \* strategy -> Account, the memory of the process
  previous,       \* contracts with a bar in the minute before
  flushing,       \* accounts still to be flushed
  checkpoint,     \* the checkpoint file, or None
  parts,          \* strategy -> part files by number
  runs,           \* strategy -> the published run, or None
  feed,           \* the stream as far as it was read
  straight,       \* the same run without a crash (read by properties only)
  crashes

memory == <<now, accounts, previous>>
disk == <<checkpoint, parts, runs>>
vars == <<phase, memory, flushing, disk, feed, straight, crashes>>

-----------------------------------------------------------------------------
(* Accounts.                                                               *)

NoOrders == [s \in {} |-> None]

\* A dict keeps the order in which its keys came in: opened is that of positions.
Account ==
  [positions |-> [s \in Symbols |-> 0], opened |-> <<>>, target_weights |-> [s \in Symbols |-> 0],
   mark_times |-> [s \in Symbols |-> None], pending |-> NoOrders,
   breaker_on |-> FALSE, cooldown_until |-> [s \in Symbols |-> 0],
   enforcer_release |-> None, mandatory_exits |-> {}, anchored |-> {},
   flatten_latched |-> FALSE, flatten_completed_at |-> None,
   insolvent |-> FALSE, risk_sequence |-> 0, risks |-> {}, part_sequence |-> 0,
   fills |-> {}, rows |-> <<>>]

Order(quantity, from, until, reason, priority, event) ==
  [quantity |-> quantity, eligible_at |-> from, expires_at |-> until,
   reason |-> reason, priority |-> priority, event |-> event]

Exit(from, reason, priority, event) == Order(0, from, None, reason, priority, event)

Held(a) == {s \in Symbols : a.positions[s] # 0}

Sign(n) == IF n > 0 THEN 1 ELSE IF n < 0 THEN -1 ELSE 0

Conclude(a, event, outcome) ==
  [a EXCEPT !.risks =
     {IF r.id = event /\ r.fill_time = None THEN [r EXCEPT !.action = outcome] ELSE r
        : r \in @}]

\* An order gives way to a more urgent one, and to one as urgent unless that
\* one is a rebalance or this one the terminal liquidation.
GivesWay(a, s, o) ==
  /\ s \in DOMAIN a.pending
  /\ LET old == a.pending[s] IN
     \/ old.priority < o.priority
     \/ /\ old.priority = o.priority
        /\ old.reason # "scheduled_rebalance"
        /\ o.reason # "terminal_liquidation"

Supersede(a, s, o) ==
  IF s \in DOMAIN a.pending /\ a.pending[s].event \notin {None, o.event}
  THEN Conclude(a, a.pending[s].event, "superseded")
  ELSE a

Queue(a, s, o) ==
  IF GivesWay(a, s, o) THEN a
  ELSE [Supersede(a, s, o) EXCEPT !.pending = (s :> o) @@ @]

QueueAll(a, S, OrderOf(_)) ==
  FoldSet(LAMBDA s, acc : Queue(acc, s, OrderOf(s)), a, S)

Flatten(a, t, reason, priority) ==
  QueueAll([a EXCEPT !.flatten_latched = TRUE], Held(a),
           LAMBDA s : Exit(t, reason, priority, None))

\* risk_event: the identity is a hash of the number, the minute, the contract
\* (None for an event of the whole account) and the reason.
NextId(a, t, s, reason) ==
  [number |-> a.risk_sequence + 1, at |-> t, symbol |-> s, reason |-> reason]

RiskEvent(a, t, s, action, reason) ==
  [a EXCEPT !.risk_sequence = @ + 1,
            !.risks = @ \union {[id |-> NextId(a, t, s, reason), action |-> action,
                                 fill_time |-> None]}]

\* A flatten of which the waiting orders are linked to an event of its reason.
FlattenFor(a, t, s, reason, priority) ==
  LET b == Flatten(RiskEvent(a, t, s, "close", reason), t, reason, priority) IN
  [b EXCEPT !.pending =
     [x \in DOMAIN @ |-> IF @[x].reason = reason
                         THEN [@[x] EXCEPT !.event = NextId(a, t, s, reason)] ELSE @[x]]]

-----------------------------------------------------------------------------
(* _minute_risk: what the minute before says, read before the open.        *)

Cut(quantity) == Sign(quantity)

Reduce(a, t, target, reason, until) ==
  LET event == NextId(a, t, None, reason)
      Sized(s) == IF Sign(target[s]) * target[s] > Sign(a.positions[s]) * a.positions[s]
                  THEN a.positions[s] ELSE target[s]
  IN  QueueAll(RiskEvent(a, t, None, "reduce", reason), Held(a),
               LAMBDA s : Order(Sized(s), t, until, reason, 5, event))

\* In the order of the dict: the event names the first.
Stale(a, t) ==
  SelectSeq(a.opened, LAMBDA s : \/ a.mark_times[s] = None
                                 \/ t - a.mark_times[s] >= StaleAfter)

ChatgptRepair(a, t, level) ==
  LET event == NextId(a, t, None, "chatgpt_reduction_repair")
      b == RiskEvent(a, t, None, "reduce", "chatgpt_reduction_repair")
      Side(side) == {s \in Held(a) \ a.mandatory_exits : Sign(a.positions[s]) = side}
  IN  CASE Side(1) = {} \/ Side(-1) = {} -> Flatten(b, t, "chatgpt_empty_side", 2)
        [] level = "ruin" ->
             Flatten([b EXCEPT !.insolvent = TRUE], t, "chatgpt_repair_insolvency", 0)
        [] OTHER ->
             QueueAll(b, Held(b), LAMBDA s :
               Order(IF s \in b.mandatory_exits THEN 0 ELSE Cut(b.positions[s]), t,
                     None, "chatgpt_reduction_repair", 5, event))

ChatgptRisk(a, t, level) ==
  CASE Stale(a, t) # <<>> ->
         FlattenFor(a, t, Head(Stale(a, t)), "stale_price_flatten", 1)
    [] Stale(a, t) = <<>> /\ Held(a) # {} /\ level \in {"alarm", "ruin"} ->
         ChatgptRepair(a, t, level)
    [] OTHER -> a

KimiRisk(a, t, level) ==
  CASE ~a.breaker_on /\ level \in {"alarm", "broke"} ->
         Reduce([a EXCEPT !.breaker_on = TRUE], t,
                [s \in Symbols |-> (IF level = "broke" THEN -1 ELSE 1)
                                     * Cut(a.target_weights[s])],
                "kimi_drawdown_on", t + HourLen)
    [] a.breaker_on /\ level = "calm" ->
         RiskEvent([a EXCEPT !.breaker_on = FALSE], t, None, "hold", "kimi_drawdown_off")
    [] OTHER -> a

GrokRisk(a, t, level, completed) ==
  IF /\ Held(a) # {} /\ Held(a) \subseteq completed
     /\ a.enforcer_release = None \/ t >= a.enforcer_release
     /\ level = "alarm"
  THEN Reduce(a, t, [s \in Symbols |-> Cut(a.positions[s])],
              "grok_exposure_enforcer", None)
  ELSE a

\* An exit that starts a cooldown; every contract has an event of its own.
CloseAndCool(a, t, s, from, reason, priority) ==
  Queue(RiskEvent([a EXCEPT !.cooldown_until[s] = t + CooldownLen], t, s, "close", reason),
        s, Exit(from, reason, priority, NextId(a, t, s, reason)))

\* The walk over positions.items(): the events are numbered in its order.
CloseAllOf(a, t, S, from, reason, priority) ==
  FoldLeft(LAMBDA acc, s : CloseAndCool(acc, t, s, from, reason, priority),
           a, SelectSeq(a.opened, LAMBDA s : s \in S))

ClaudeRisk(a, t, flash, completed) ==
  LET Waits(s) == s \in DOMAIN a.pending /\ a.pending[s].priority <= 5 IN
  CloseAllOf(a, t, {s \in completed \cap a.anchored \cap flash : ~Waits(s)},
             t, "claude_flash_exit", 2)

MinuteRisk(who, a, t, f, completed) ==
  LET b == [a EXCEPT !.mark_times =
              [s \in Symbols |-> IF s \in completed THEN t ELSE @[s]]]
      level == f.level[who]
  IN  IF level = "broke" /\ ~b.insolvent
      THEN FlattenFor([b EXCEPT !.insolvent = TRUE], t, None, "non_positive_equity", 0)
      ELSE CASE who = "CHATGPT" -> ChatgptRisk(b, t, level)
             [] who = "KIMI" -> KimiRisk(b, t, level)
             [] who = "GROK" -> GrokRisk(b, t, level, completed)
             [] who = "CLAUDE" -> ClaudeRisk(b, t, f.flash, completed)

-----------------------------------------------------------------------------
(* fill_due: the orders that may fill at this open.                        *)

\* The scheduled basket of CHATGPT trades as a whole or not at all.
Basket(who, a, t, opens) ==
  LET due == {s \in DOMAIN a.pending : a.pending[s].reason = "scheduled_rebalance"
                                        /\ a.pending[s].eligible_at = t}
  IN  IF who = "CHATGPT" /\ ~(due \subseteq opens)
      THEN Flatten([a EXCEPT !.pending = [s \in DOMAIN @ \ due |-> @[s]]],
                   t, "chatgpt_missing_basket_open", 1)
      ELSE a

Without(a, s) == [a EXCEPT !.pending = [x \in DOMAIN @ \ {s} |-> @[x]]]

Expire(a, s) == Conclude(Without(a, s), a.pending[s].event, "expired_without_fill")

Fill(a, s, t) ==
  LET o == a.pending[s]
      b == IF o.quantity = 0
              /\ o.reason \in {"chatgpt_mandatory_exit", "chatgpt_reduction_repair"}
           THEN [a EXCEPT !.mandatory_exits = @ \ {s}] ELSE a
  IN  [Without(b, s) EXCEPT
         !.positions[s] = o.quantity,
         !.opened = CASE o.quantity = 0 -> Remove(@, s)
                      [] o.quantity # 0 /\ s \in Held(a) -> @
                      [] OTHER -> Append(@, s),
         !.mark_times[s] = t,
         !.risks = {IF r.id = o.event THEN [r EXCEPT !.fill_time = t] ELSE r : r \in @},
         !.enforcer_release = IF o.reason = "grok_exposure_enforcer"
                              THEN t + HourLen ELSE @,
         !.fills = @ \union {[symbol |-> s, quantity |-> o.quantity, event |-> o.event]}]

Meet(a, s, t, opens) ==
  LET o == a.pending[s] IN
  CASE t < o.eligible_at -> a
    [] t >= o.eligible_at /\ o.expires_at # None /\ t >= o.expires_at -> Expire(a, s)
    [] OTHER -> IF s \in opens THEN Fill(a, s, t) ELSE a

FillDue(who, a, t, opens) ==
  LET b == Basket(who, a, t, opens)
      c == FoldLeft(LAMBDA acc, s : Meet(acc, s, t, opens), b,
                    SelectSeq(Names, LAMBDA s : s \in DOMAIN b.pending))
  IN  IF c.flatten_latched /\ Held(c) = {}
      THEN [c EXCEPT !.flatten_latched = FALSE, !.flatten_completed_at = t]
      ELSE c

-----------------------------------------------------------------------------
(* _hourly_decisions.                                                      *)

IsHour(t) == t % HourLen = 0

\* Only CLAUDE decides every hour; the hours of the others are cut to the
\* first of the day.
Scheduled(who, t) == who = "CLAUDE" \/ t % DayLen = 0

\* MarketState.add_hour: the last hour with a bar before t.
LatestClose(s, t) ==
  Max({0} \union {h \in 0..t : IsHour(h) /\ \E m \in (h - HourLen)..(h - 1) :
                                              m >= 0 /\ s \in feed[m + 1].bars})

MarkHour(a, t, f) ==
  [a EXCEPT !.mark_times = [s \in Symbols |->
     IF s \in Held(a) \union f.eligible THEN LatestClose(s, t) ELSE @[s]]]

Keep(a, Stays(_)) ==
  [a EXCEPT !.pending = [s \in {x \in DOMAIN @ : Stays(@[x])} |-> @[s]]]

\* Mutant: a decision clears what waits.
Nothing(o) == FALSE

Urgent(o) == o.priority < 30

\* decide: who is held is no reason to enter again while the cooldown lasts,
\* and a contract that ran against its side is not kept on it.
Target(who, a, t, f, s) ==
  LET side == f.tilt[s]
      same == Sign(a.positions[s]) = side
      cools == t < a.cooldown_until[s]
  IN  IF s \notin f.scored \/ (who = "CLAUDE" /\ IF same THEN s \in f.fast ELSE cools)
      THEN 0
      ELSE side * IF who = "KIMI" /\ a.breaker_on THEN 1 ELSE 2

\* Mutant: the last decision is one like the others.
DecideAsEver(who, a, t, f) == [s \in Symbols |-> Target(who, a, t, f, s)]

\* CLAUDE's last decision keeps what it holds.
Decide(who, a, t, f) ==
  [s \in Symbols |->
     IF who = "CLAUDE" /\ t = CoreEnd - HourLen
     THEN IF s \in f.scored THEN a.positions[s] ELSE 0
     ELSE Target(who, a, t, f, s)]

Wanted(targets) == {s \in Symbols : targets[s] # 0}

QueueTargets(who, a, t, targets, traded) ==
  LET skipped(s) == who = "GROK" /\ targets[s] # 0 /\ targets[s] = a.positions[s]
      ordered == {s \in (Held(a) \union Wanted(targets)) \cap traded :
                    a.mark_times[s] # None /\ ~skipped(s)}
  IN  [QueueAll(a, ordered, LAMBDA s :
         Order(targets[s], t + 1, t + HourLen + 1, "scheduled_rebalance", 30, None))
       EXCEPT !.target_weights = targets]

\* queue_claude_targets: a side whose exposure drifted is traded as a whole.
Traded(a, targets, drifted) ==
  {s \in Symbols : targets[s] # a.positions[s] \/ (drifted /\ targets[s] # 0)}

\* lost is a set of strings: walk is the order in which this process meets them.
ChatgptHour(a, t, f, walk) ==
  LET few == Cardinality(f.scored) < MinScores /\ Held(a) # {}
      all == "chatgpt_insufficient_universe"
      one == "chatgpt_mandatory_exit"
      b == IF few
           THEN QueueAll(RiskEvent([a EXCEPT !.flatten_latched = TRUE], t, None, "close", all),
                         Held(a), LAMBDA s : Exit(t + 1, all, 2, NextId(a, t, None, all)))
           ELSE a
      lost == Held(a) \ f.scored
      Lose(acc, s) == Queue(RiskEvent(acc, t, s, "reduce", one), s,
                            Exit(t + 1, one, 5, NextId(acc, t, s, one)))
      c == FoldLeft(Lose, [b EXCEPT !.mandatory_exits = @ \union lost],
                    SelectSeq(walk, LAMBDA s : s \in lost))
      targets == [s \in Symbols |-> IF Cardinality(f.scored) < MinScores THEN 0
                                    ELSE Target("CHATGPT", a, t, f, s)]
      d == Keep(c, Urgent)
  IN  CASE ~Scheduled("CHATGPT", t) -> c
        [] Scheduled("CHATGPT", t) /\ c.flatten_completed_at # None
             /\ t <= c.flatten_completed_at -> c
        [] OTHER -> IF DOMAIN d.pending # {} THEN d
                    ELSE QueueTargets("CHATGPT", d, t, targets, Symbols)

GrokBetween(a, t, f) ==
  LET b == Keep(a, Urgent)
      dropped == Held(b) \ f.eligible
      staying == Held(b) \ dropped
      leave == \/ Cardinality(dropped) >= DropLimit
               \/ staying # {} /\ Cardinality({Sign(b.positions[s]) : s \in staying}) < 2
  IN  IF dropped = {} THEN b
      ELSE QueueAll(b, IF leave THEN Held(b) ELSE dropped, LAMBDA s :
             Order(0, t + 1, t + HourLen + 1, "grok_hourly_ineligibility", 10, None))

GrokStays(o) == o.reason \in {"terminal_liquidation", "non_positive_equity"}

GrokHour(a, t, f) ==
  QueueTargets("GROK", Keep([a EXCEPT !.enforcer_release = None], GrokStays), t,
               Decide("GROK", a, t, f), Symbols)

KimiHour(a, t, f) ==
  QueueTargets("KIMI", Keep(a, Urgent), t, Decide("KIMI", a, t, f), Symbols)

ClaudeHour(a, t, f) ==
  LET targets == Decide("CLAUDE", a, t, f)
      b == CloseAllOf(a, t, f.fast \cap f.scored, t + 1, "claude_velocity_exit", 3)
  IN  QueueTargets("CLAUDE", Keep([b EXCEPT !.anchored = Wanted(targets)], Urgent), t,
                   targets, Traded(b, targets, f.level["CLAUDE"] = "watch"))

HourlyDecision(who, a, t, f, walk) ==
  CASE a.insolvent -> a
    [] ~a.insolvent /\ who = "CHATGPT" -> ChatgptHour(a, t, f, walk)
    [] ~a.insolvent /\ who = "GROK" ->
         IF Scheduled(who, t) THEN GrokHour(a, t, f) ELSE GrokBetween(a, t, f)
    [] ~a.insolvent /\ who = "KIMI" -> IF Scheduled(who, t) THEN KimiHour(a, t, f) ELSE a
    [] ~a.insolvent /\ who = "CLAUDE" -> ClaudeHour(a, t, f)

-----------------------------------------------------------------------------
(* One minute of one account, in the order of run_benchmark.               *)

Liquidate(a, t) ==
  IF t >= CoreEnd THEN Flatten(a, t, "terminal_liquidation", 0) ELSE a

\* record_minute
Record(a, t) ==
  [a EXCEPT !.rows = Append(@, [at |-> t, fills |-> a.fills]), !.fills = {}]

RunMinute(who, a, t, f, completed, walk) ==
  LET filled == FillDue(who, Liquidate(MinuteRisk(who, a, t, f, completed), t), t, f.bars)
      decided == IF IsHour(t) /\ t < CoreEnd
                 THEN HourlyDecision(who, MarkHour(filled, t, f), t, f, walk) ELSE filled
  IN  Record(decided, t)

(* flush: the rows and the events that are over go to the next part.       *)
Over(r) == r.fill_time # None \/ r.action \in {"hold", "superseded", "expired_without_fill"}

\* Mutant: nothing is kept for the next part.
FlushedWhole(a) ==
  [a EXCEPT !.part_sequence = @ + 1, !.rows = <<>>, !.risks = {}]

Flushed(a) ==
  [a EXCEPT !.part_sequence = @ + 1, !.rows = <<>>, !.risks = {r \in @ : ~Over(r)}]

PartOf(a) == [rows |-> a.rows, risks |-> {r \in a.risks : Over(r)}]

WithPart(files, a) == ((a.part_sequence + 1) :> PartOf(a)) @@ files

\* _publish: the parts in the order of their numbers
Content(files) ==
  LET last == IF DOMAIN files = {} THEN 0 ELSE Max(DOMAIN files)
      rows[n \in 0..last] ==
        IF n = 0 THEN <<>>
        ELSE rows[n - 1] \o IF n \in DOMAIN files THEN files[n].rows ELSE <<>>
  IN  [rows |-> rows[last], risks |-> UNION {files[n].risks : n \in DOMAIN files}]

Flat(accts) == \A who \in DOMAIN accts : Held(accts[who]) = {} /\ DOMAIN accts[who].pending = {}

-----------------------------------------------------------------------------
(* The stream.  An ordinary minute has a bar of every contract and nothing *)
(* to report.  A contract that stops trading may stay so at no expense.    *)

Roster == DOMAIN accounts

Levels(who, a) ==
  CASE who = "CHATGPT" -> {"calm", "alarm", "ruin", "broke"}
    [] who = "KIMI" -> {"calm", "watch", "alarm", "broke"}
    [] who = "GROK" -> {"calm", "alarm", "broke"}
    [] who = "CLAUDE" -> {"calm", "watch", "broke"}

Ordinary(bars) ==
  [bars |-> bars, level |-> [who \in Roster |-> "calm"], flash |-> {}, fast |-> {},
   eligible |-> Symbols, scored |-> Symbols, tilt |-> Usual]

\* Equity can be gone only where something was traded.
Traders == {who \in Roster : \E s \in Symbols : accounts[who].target_weights[s] # 0}

Odd(t) ==
  LET f == Ordinary(Symbols) IN
  {[f EXCEPT !.bars = b] : b \in SUBSET Symbols}
  \union UNION {{[f EXCEPT !.level[who] = l] : l \in Levels(who, accounts[who])}
                  : who \in Traders}
  \union (IF "CLAUDE" \in Traders THEN {[f EXCEPT !.flash = x] : x \in SUBSET Symbols}
          ELSE {})
  \union (IF ~IsHour(t) THEN {} ELSE
            {[f EXCEPT !.tilt = x] : x \in Tilts}
            \union {[f EXCEPT !.scored = x] : x \in SUBSET Symbols}
            \union {[f EXCEPT !.eligible = x, !.scored = x] : x \in SUBSET Symbols}
            \union (IF "CLAUDE" \in Traders THEN {[f EXCEPT !.fast = x] : x \in SUBSET Symbols}
                    ELSE {}))

Expected(m) == Ordinary(IF m = 1 THEN Symbols ELSE feed[m - 1].bars)

OddMinutes ==
  Cardinality({m \in 1..Len(feed) : feed[m] \notin {Ordinary(Symbols), Expected(m)}})

Inputs(t) ==
  IF t < Len(feed) THEN {feed[t + 1]}
  ELSE {Ordinary(Symbols), Expected(t + 1)}
       \union IF OddMinutes < MaxOdd THEN Odd(t) ELSE {}

-----------------------------------------------------------------------------
(* The process.                                                            *)

Init ==
  /\ phase = "down" /\ now = 0 /\ previous = {} /\ flushing = {}
  /\ \E roster \in Rosters :
       /\ accounts = [who \in roster |-> Account]
       /\ parts = [who \in roster |-> <<>>]
       /\ runs = [who \in roster |-> None]
       /\ straight = [at |-> 0, accounts |-> [who \in roster |-> Account],
                      parts |-> [who \in roster |-> <<>>]]
  /\ checkpoint = None /\ feed = <<>> /\ crashes = 0

\* Account.restore: the files of later parts are removed.
Kept(files, last) == [n \in {m \in DOMAIN files : m <= last} |-> files[n]]

\* Account.checkpoint: everything but the rows, which are flushed by then.
Persisted == DOMAIN Account \ {"fills", "rows"}

Saved(a) == [field \in Persisted |-> a[field]]

\* Mutant: the events that wait for their fill are not restored.
RestoredWithoutRisks(saved) == [(saved @@ Account) EXCEPT !.risks = {}]

\* The file is written with its keys sorted: a dict comes back in that order.
Restored(saved) ==
  [(saved @@ Account) EXCEPT
     !.opened = SelectSeq(Names, LAMBDA s : saved.positions[s] # 0)]

Start ==
  /\ phase = "down"
  /\ phase' = "minutes"
  /\ IF checkpoint = None
     THEN /\ now' = 0 /\ previous' = {}
          /\ accounts' = [who \in Roster |-> Account]
          /\ parts' = [who \in Roster |-> <<>>]
     ELSE /\ now' = checkpoint.next /\ previous' = checkpoint.previous
          /\ accounts' = [who \in Roster |-> Restored(checkpoint.accounts[who])]
          /\ parts' = [who \in Roster |->
                         Kept(parts[who], checkpoint.accounts[who].part_sequence)]
  /\ UNCHANGED <<flushing, checkpoint, runs, feed, straight, crashes>>

Minutes(accts, t, f, completed, walk) ==
  [who \in DOMAIN accts |-> RunMinute(who, accts[who], t, f, completed, walk)]

\* Another process, or another set, gives another order.  It matters where a
\* decision of CHATGPT loses several contracts.
Walks(t, f) ==
  IF /\ "CHATGPT" \in Roster /\ IsHour(t)
     /\ Cardinality(Symbols \ f.scored) > 1
  THEN SetToSeqs(Symbols) ELSE {Names}

Closed(accts, t) == t >= CoreEnd /\ Flat(accts)

DayEnds(t) == (t + 1) % DayLen = 0 /\ ((t + 1) \div DayLen) % FlushDays = 0

\* The run without a crash is at the minutes nobody read before.
GoesStraight(t, f, walk) ==
  IF t # straight.at THEN straight
  ELSE LET before == IF t = 0 THEN {} ELSE feed[t].bars
           accts == Minutes(straight.accounts, t, f, before, walk)
       IN  IF Closed(accts, t) \/ DayEnds(t)
           THEN [at |-> t + 1,
                 accounts |-> [who \in Roster |-> Flushed(accts[who])],
                 parts |-> [who \in Roster |-> WithPart(straight.parts[who], accts[who])]]
           ELSE [straight EXCEPT !.at = t + 1, !.accounts = accts]

Minute ==
  /\ phase = "minutes" /\ now < TailEnd
  /\ \E f \in Inputs(now) : \E walk \in Walks(now, f) :
       LET accts == Minutes(accounts, now, f, previous, walk) IN
       /\ feed' = IF now < Len(feed) THEN feed ELSE Append(feed, f)
       /\ accounts' = accts
       /\ previous' = f.bars
       /\ now' = now + 1
       /\ straight' = GoesStraight(now, f, walk)
       /\ phase' = CASE Closed(accts, now) -> "closing"
                     [] ~Closed(accts, now) /\ DayEnds(now) -> "flush"
                     [] OTHER -> "minutes"
  /\ flushing' = Roster
  /\ UNCHANGED <<disk, crashes>>

Flush(who) ==
  /\ phase \in {"flush", "closing"} /\ who \in flushing
  /\ flushing' = flushing \ {who}
  /\ accounts' = [accounts EXCEPT ![who] = Flushed(@)]
  /\ parts' = [parts EXCEPT ![who] = WithPart(@, accounts[who])]
  /\ phase' = IF phase = "closing" /\ flushing' = {} THEN "publish" ELSE phase
  /\ UNCHANGED <<now, previous, checkpoint, runs, feed, straight, crashes>>

WriteCheckpoint ==
  /\ phase = "flush" /\ flushing = {}
  /\ checkpoint' = [next |-> now, previous |-> previous,
                     accounts |-> [who \in Roster |-> Saved(accounts[who])]]
  /\ phase' = "minutes"
  /\ UNCHANGED <<memory, flushing, parts, runs, feed, straight, crashes>>

(* The tail is over and an account is still open: run_benchmark raises.    *)
TailEnds ==
  /\ phase = "minutes" /\ now = TailEnd
  /\ phase' = IF Flat(accounts) THEN "publish" ELSE "failed"
  /\ UNCHANGED <<memory, flushing, disk, feed, straight, crashes>>

(* _publish: what is left is flushed and the parts are joined in a staging *)
(* directory; a run that is there is returned.                             *)
Stage(who) ==
  /\ phase = "publish" /\ runs[who] = None
  /\ accounts' = [accounts EXCEPT ![who] = Flushed(@)]
  /\ parts' = [parts EXCEPT ![who] = WithPart(@, accounts[who])]
  /\ phase' = "staged" /\ flushing' = {who}
  /\ UNCHANGED <<now, previous, checkpoint, runs, feed, straight, crashes>>

Rename(who) ==
  /\ phase = "staged" /\ flushing = {who}
  /\ runs' = [runs EXCEPT ![who] = Content(parts[who])]
  /\ phase' = "publish" /\ flushing' = {}
  /\ UNCHANGED <<memory, checkpoint, parts, feed, straight, crashes>>

Finish ==
  /\ phase = "publish" /\ \A who \in Roster : runs[who] # None
  /\ phase' = "done"
  /\ UNCHANGED <<memory, flushing, disk, feed, straight, crashes>>

Crash ==
  /\ phase \notin {"down", "done", "failed"} /\ crashes < MaxCrashes
  /\ crashes' = crashes + 1
  /\ phase' = "down" /\ now' = 0 /\ previous' = {} /\ flushing' = {}
  /\ accounts' = [who \in Roster |-> Account]
  /\ UNCHANGED <<disk, feed, straight>>

Next ==
  \/ Start \/ Minute \/ WriteCheckpoint \/ TailEnds \/ Finish \/ Crash
  \/ \E who \in Roster : Flush(who) \/ Stage(who) \/ Rename(who)

Spec == Init /\ [][Next]_vars

-----------------------------------------------------------------------------
(* Properties.                                                             *)

\* Types: a position and an order are at most a full one, an event that waits
\* for its fill is one that was numbered, parts are numbered from one.
TypeOK ==
  /\ phase \in {"down", "minutes", "flush", "closing", "publish", "staged",
               "done", "failed"}
  /\ now \in 0 .. TailEnd /\ crashes \in 0 .. MaxCrashes
  /\ previous \subseteq Symbols /\ flushing \subseteq Roster
  /\ \A who \in Roster : LET acct == accounts[who] IN
       /\ acct.positions \in [Symbols -> -2 .. 2]
       /\ Range(acct.opened) = Held(acct) /\ IsInjective(acct.opened)
       /\ DOMAIN acct.pending \subseteq Symbols
       /\ \A s \in DOMAIN acct.pending :
            /\ acct.pending[s].quantity \in -2 .. 2
            /\ \/ acct.pending[s].event = None
               \/ acct.pending[s].event.number \in 1 .. acct.risk_sequence
       /\ \A r \in acct.risks : r.id.number \in 1 .. acct.risk_sequence
       /\ DOMAIN parts[who] \subseteq Nat \ {0}

\* What an event is but for what follows the order of a dict or a set: its
\* number, and the contract which a stale price flatten names.
Plain(id) ==
  IF id = None THEN None
  ELSE [at |-> id.at, reason |-> id.reason,
        symbol |-> IF id.reason = "stale_price_flatten" THEN None ELSE id.symbol]

PlainRisks(risks) == {[r EXCEPT !.id = Plain(@)] : r \in risks}

PlainRows(rows) ==
  [n \in DOMAIN rows |->
     [rows[n] EXCEPT !.fills = {[x EXCEPT !.event = Plain(@)] : x \in @}]]

PlainPart(part) == [rows |-> PlainRows(part.rows), risks |-> PlainRisks(part.risks)]

PlainAccount(a) ==
  [a EXCEPT !.opened = Range(@), !.risks = PlainRisks(@), !.rows = PlainRows(@),
            !.pending = [s \in DOMAIN @ |-> [@[s] EXCEPT !.event = Plain(@)]]]

\* A process that was started again is where the uninterrupted run is, in
\* memory and in its parts, and what it publishes is what that run recorded, up
\* to the numbers of events and the contract a stale price flatten names:
\* _restore_checkpoint brings back everything else the next minute reads and
\* restore removes what was flushed too early (docs/acceptance/A45.md,
\* "weekly Parquet parts and checkpoints").
RestartsLeaveNoTrace ==
  /\ phase = "minutes" /\ now = straight.at =>
       \A who \in Roster :
         /\ PlainAccount(accounts[who]) = PlainAccount(straight.accounts[who])
         /\ DOMAIN parts[who] = DOMAIN straight.parts[who]
         /\ \A n \in DOMAIN parts[who] :
              PlainPart(parts[who][n]) = PlainPart(straight.parts[who][n])
  /\ \A who \in Roster : runs[who] # None =>
       PlainPart(runs[who]) = PlainPart(Content(straight.parts[who]))

\* A run that was resumed publishes, under the same run ID, the rows that the
\* uninterrupted run publishes, the identities of their events included
\* (docs/research/llm_cross_sectional_benchmark_2025_2026/README.md, "Weekly
\* parts and checkpoints make the run resumable").  The code does not do so:
\* the sorted keys of the checkpoint change the order in which the positions
\* of an account are walked and their events numbered.
RestartsKeepEventIds ==
  \A who \in Roster :
    runs[who] # None => runs[who] = Content(straight.parts[who])

Rows(who) ==
  UNION {Range(parts[who][n].rows) : n \in DOMAIN parts[who]}
  \union Range(accounts[who].rows)

AuditRows(who, event) ==
  {<<n, r>> \in UNION {{n} \X parts[who][n].risks : n \in DOMAIN parts[who]}
                \union ({0} \X accounts[who].risks) : r.id = event}

\* Every fill that a risk event asked for has one row of that event, over or
\* waiting in memory, however many flushes, checkpoints and restarts lie
\* between the event and the fill (flush keeps what is not over,
\* pending_risks carries it across a restart).
FillsAreAudited ==
  phase = "minutes" =>
    \A who \in Roster : \A row \in Rows(who) : \A x \in row.fills :
      x.event # None => Cardinality(AuditRows(who, x.event)) = 1

\* A forced exit that does not expire waits until it fills, unless an order at
\* least as urgent takes its place: no decision, basket or reduction drops it.
\* GROK's daily decision is submitted to clear its orders.
ExitsPersist ==
  [][\A who \in Roster \ {"GROK"} : \A s \in DOMAIN accounts[who].pending :
       LET old == accounts[who].pending[s]
           new == accounts'[who].pending
       IN  now' = now + 1 /\ old.expires_at = None =>
             \/ s \in DOMAIN new /\ new[s].priority <= old.priority
             \/ \E x \in Last(accounts'[who].rows).fills : x.symbol = s]_vars

\* The tail fails the run only for a contract that does not trade in it: no
\* order that is left when the core interval ends opens a position which needs
\* a further minute to close, and no queued order keeps an account from being
\* called complete.
TailClosesWhatTrades ==
  phase = "failed" =>
    \E s \in Symbols : \A t \in CoreEnd..(TailEnd - 1) : s \notin feed[t + 1].bars
=============================================================================
