--------------------------- MODULE KlineRetention ---------------------------
(* Candles grow old: every day those past the retention of their interval    *)
(* are archived to one CSV file per day and then folded into the next        *)
(* coarser interval and deleted.  A candle is the set of the one-minute      *)
(* candles its prices and volume come from.                                  *)
EXTENDS Budget, Integers, FiniteSets, FiniteSetsExt

CONSTANTS History,   \* Bound: minutes that were recorded
          Width,     \* interval -> length in minutes: 1m, 5m, 1h (and so 1d)
          Keep,      \* interval -> retention in minutes
          DayLength, \* minutes of a UTC day
          PageSize,  \* streamConfig.kline.batchSize
          Archiving  \* archivalConfig.enabled

ASSUME RetentionAssumption ==
  /\ {History, DayLength, PageSize} \subseteq Nat \ {0} /\ Archiving \in BOOLEAN
  /\ DOMAIN Keep = DOMAIN Width

VARIABLES clock,    \* minutes that have passed
          recorded, \* minutes the stream recorded: there may be gaps
          series,   \* interval -> (open time -> set of minutes), {} for none
          files,    \* <<interval, day>> -> [rows, manifest], or no rows
          fold,     \* the run: [pc, level, at, cutoff, picked, did]
          lost,     \* ghost: minutes folded into a candle that lacked the rest
          partly    \* ghost: days written before they were over or aged in a run

retentionVars == <<clock, recorded, series, files, fold, lost, partly>>

Levels == DOMAIN Width
LastOpen == CHOOSE l \in Levels : \A k \in Levels : k <= l
Opens == 0..(History - 1)
Days == 0..((2 * History) \div DayLength)
DayOf(t) == t \div DayLength
NoFile == [rows |-> {}, manifest |-> FALSE]
NoFold == [pc |-> "idle", level |-> 1, at |-> 0, cutoff |-> 0, picked |-> {}, did |-> FALSE]

Bucket(t, l) == (t \div Width[l]) * Width[l]
Stocked(l) == {t \in Opens : series[l][t] # {}}
Cutoff(l) == clock - Keep[l]
Aged(l) == {t \in Stocked(l) : t < Cutoff(l)}
Step(pc, l) == fold' = [NoFold EXCEPT !.pc = pc, !.level = l, !.did = fold.did]
-----------------------------------------------------------------------------
Pass(n) ==
  /\ n > 0 /\ clock + n <= 2 * History /\ Spend(1) /\ clock' = clock + n
  /\ partly' = partly \union {<<1, DayOf(t)>> : t \in
                   {s \in Opens : fold # NoFold /\ s >= Cutoff(1) /\ s < Cutoff(1) + n}}
  /\ UNCHANGED <<recorded, series, files, fold, lost>>

\* The cron job: archiveOhlcvForExchangeSymbol first, unless it is switched
\* off; with the disk full nothing else is done.
BeginRun ==
  /\ fold = NoFold
  /\ \/ Spend(1) /\ fold' = [NoFold EXCEPT !.pc = IF Archiving THEN "bounds" ELSE "read"]
     \/ Archiving /\ Spend(2) /\ UNCHANGED fold
  /\ UNCHANGED <<clock, recorded, series, files, lost, partly>>

\* The oldest candle of the interval; the cutoff of the run for this interval.
Bounds ==
  LET l == fold.level
      rest == IF l = LastOpen THEN [NoFold EXCEPT !.pc = "read"]
              ELSE [NoFold EXCEPT !.pc = "bounds", !.level = l + 1]
  IN  /\ fold.pc = "bounds"
      /\ fold' = IF Aged(l) = {} THEN rest
                 ELSE [NoFold EXCEPT !.pc = "day", !.level = l, !.cutoff = Cutoff(l),
                                     !.at = DayOf(Min(Stocked(l))) * DayLength]
      /\ UNCHANGED <<stimuli, clock, recorded, series, files, lost, partly>>

\* archiveOneUtcDay: a day whose file and manifest exist is skipped; otherwise
\* the rows from its start to its end or the cutoff are written to a temporary
\* file that is renamed, then the manifest is.  The run may die in between.
FileRows(l) == {t \in Stocked(l) : t >= fold.at /\ t < fold.cutoff /\ DayOf(t) = DayOf(fold.at)}

NextDay(l) == IF fold.at + DayLength < fold.cutoff
              THEN [fold EXCEPT !.at = @ + DayLength]
              ELSE IF l = LastOpen THEN [NoFold EXCEPT !.pc = "read"]
              ELSE [NoFold EXCEPT !.pc = "bounds", !.level = l + 1]

ArchiveDay ==
  LET l == fold.level
      k == <<l, DayOf(fold.at)>>
      done == files[k].manifest \/ FileRows(l) = {}
      rows == UNION {series[l][t] : t \in FileRows(l)}
      early == IF fold.cutoff < fold.at + DayLength THEN {k} ELSE {}
  IN  /\ fold.pc = "day"
      /\ \/ /\ fold' = NextDay(l) /\ UNCHANGED stimuli
            /\ IF done THEN UNCHANGED <<files, partly>>
               ELSE /\ files' = [files EXCEPT ![k] = [rows |-> rows, manifest |-> TRUE]]
                    /\ partly' = partly \union early
         \/ /\ ~done /\ Spend(1) /\ fold' = NoFold /\ UNCHANGED partly
            /\ \/ UNCHANGED files
               \/ files' = [files EXCEPT ![k] = [rows |-> rows, manifest |-> FALSE]]
      /\ UNCHANGED <<clock, recorded, series, lost>>
-----------------------------------------------------------------------------
\* aggregate1mTo5m, 5mTo1h, 1hTo1d: the oldest candles before the cutoff, a
\* page of them.  Nothing to fold in the finest interval ends the run.
Page1(l) == {t \in Aged(l) : Cardinality({s \in Aged(l) : s < t}) < PageSize}

After(l, did) ==
  fold' = IF l = 1 /\ ~did THEN NoFold
          ELSE [NoFold EXCEPT !.pc = IF l + 1 = LastOpen THEN "old" ELSE "read",
                              !.level = l + 1, !.did = TRUE]

ReadPage ==
  LET l == fold.level
  IN  /\ fold.pc = "read"
      /\ IF Page1(l) = {} THEN After(l, FALSE)
         ELSE fold' = [fold EXCEPT !.pc = "write", !.picked = Page1(l)]
      /\ UNCHANGED <<stimuli, clock, recorded, series, files, lost, partly>>

\* bulkWrite: each bucket's candle is set to what its picked candles add up to,
\* whatever it was.  Ghost: what it was, and what is not in the page, is lost.
Folded(l, b) == UNION {series[l][t] : t \in {s \in fold.picked : Bucket(s, l + 1) = b}}

Fold ==
  LET l == fold.level
      buckets == {Bucket(t, l + 1) : t \in fold.picked}
  IN  /\ fold.pc = "write" /\ fold' = [fold EXCEPT !.pc = "delete"]
      /\ series' = [series EXCEPT ![l + 1] =
           [t \in Opens |-> IF t \in buckets THEN Folded(l, t) ELSE series[l + 1][t]]]
      /\ lost' = lost \union UNION {series[l + 1][b] \ Folded(l, b) : b \in buckets}
      /\ UNCHANGED <<stimuli, clock, recorded, files, partly>>

\* Slip: the candles are deleted up to the cutoff, not those of the page.
DeleteAged ==
  LET l == fold.level
  IN  /\ fold.pc = "delete" /\ After(l, TRUE)
      /\ series' = [series EXCEPT ![l] = [t \in Opens |->
           IF t < Cutoff(l) THEN {} ELSE series[l][t]]]
      /\ UNCHANGED <<stimuli, clock, recorded, files, lost, partly>>

DeletePicked ==
  LET l == fold.level
  IN  /\ fold.pc = "delete" /\ After(l, TRUE)
      /\ series' = [series EXCEPT ![l] = [t \in Opens |->
           IF t \in fold.picked THEN {} ELSE series[l][t]]]
      /\ UNCHANGED <<stimuli, clock, recorded, files, lost, partly>>

\* deleteOld1d: the coarsest candles past their retention go for good.
DeleteOld ==
  /\ fold.pc = "old" /\ fold' = NoFold
  /\ series' = [series EXCEPT ![LastOpen] = [t \in Opens |->
       IF t < Cutoff(LastOpen) THEN {} ELSE series[LastOpen][t]]]
  /\ UNCHANGED <<stimuli, clock, recorded, files, lost, partly>>

\* A call throws, or the process dies.
RunEnds ==
  /\ fold # NoFold /\ Spend(1) /\ fold' = NoFold
  /\ UNCHANGED <<clock, recorded, series, files, lost, partly>>
-----------------------------------------------------------------------------
RetentionInit ==
  /\ clock \in 1..History
  /\ recorded \in {Opens \ gap : gap \in kSubset(0, Opens) \union kSubset(1, Opens)}
  /\ series = [l \in Levels |-> [t \in Opens |->
                IF l = 1 /\ t \in recorded THEN {t} ELSE {}]]
  /\ files = [k \in Levels \X Days |-> NoFile] /\ fold = NoFold
  /\ lost = {} /\ partly = {}

RetentionNext ==
  \/ \E n \in 1..History : Pass(n)
  \/ BeginRun \/ Bounds \/ ArchiveDay \/ ReadPage \/ Fold \/ DeletePicked \/ DeleteOld \/ RunEnds
-----------------------------------------------------------------------------
\* Every minute that was recorded stays in some candle until the coarsest one
\* that holds it is past its retention - whatever is deleted, and wherever a
\* run ends - unless its bucket was folded in two parts, the second of which
\* replaced the first; and with archiving on, a minute that left the finest
\* interval is in its day's file, unless that file was written before the day
\* was over, after which the day counts as archived, or the minute came of age
\* between the cutoff of the archive and that of the fold.
Held(m) == \E l \in Levels : \E t \in Opens : m \in series[l][t]
Archived(m) == \E k \in DOMAIN files : k[1] = 1 /\ m \in files[k].rows

MinutesAreKept == \A m \in recorded :
  /\ Held(m) \/ m \in lost \/ Bucket(m, LastOpen) < Cutoff(LastOpen)
  /\ Archiving /\ m \notin series[1][m] => Archived(m) \/ <<1, DayOf(m)>> \in partly

RetentionTypeOK ==
  /\ clock \in 1..(2 * History) /\ lost \subseteq Opens /\ partly \subseteq DOMAIN files
  /\ \A l \in Levels, t \in Opens : series[l][t] # {} =>
       t = Bucket(t, l) /\ \A m \in series[l][t] : Bucket(m, l) = t
  /\ \A k \in DOMAIN files : \A m \in files[k].rows : DayOf(m) = k[2]

=============================================================================
