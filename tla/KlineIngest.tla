---------------------------- MODULE KlineIngest -----------------------------
(* The stream worker's candle path: updates of one-minute candles arrive     *)
(* from Binance, wait in a bounded buffer and are written to MongoDB in      *)
(* batches; a batch that fails is put back at the front of the buffer.       *)
(* An update is its minute and version; version Final closes the candle.     *)
EXTENDS Budget, Integers, Sequences, SequencesExt, FiniteSets

CONSTANTS Minutes,   \* Bound: candles streamed
          BatchSize, \* BATCH_SIZE
          MaxBuffer, \* KLINE_INGEST_MAX_BUFFER
          MaxRequeue \* KLINE_MONGO_MAX_REQUEUE

ASSUME KlineAssumption == {Minutes, BatchSize, MaxBuffer, MaxRequeue} \subseteq Nat \ {0}

VARIABLES linked,    \* the adapter's socket is open or closed
          streamed,  \* updates Binance has made
          waiting,   \* the buffer
          timer,     \* flushTimer is set
          writes,    \* batches whose bulkWrite is under way
          streak,    \* mongoRequeueStreak
          candle,    \* minute -> version stored, 0 for none
          stale,     \* cached charts lack what has been stored
          heard,     \* ghost: minute -> latest version received
          forgone,   \* ghost: updates counted as dropped or given up
          overlapped \* ghost: two writes were under way at once

klineVars == <<linked, streamed, waiting, timer, writes, streak, candle, stale,
               heard, forgone, overlapped>>

Final == 2
Update(n) == [minute |-> ((n - 1) \div Final) + 1, version |-> ((n - 1) % Final) + 1]

\* capBuffer: the oldest go, and are counted.
Over(s) == IF Len(s) > MaxBuffer THEN Len(s) - MaxBuffer ELSE 0
Cap(s) == SubSeq(s, Over(s) + 1, Len(s))
Dropped(s) == ToSet(SubSeq(s, 1, Over(s)))

Batch(s) == SubSeq(s, 1, IF Len(s) < BatchSize THEN Len(s) ELSE BatchSize)
Beyond(s) == SubSeq(s, Len(Batch(s)) + 1, Len(s))
StartWrite(s) == /\ writes' = writes \union (IF s = <<>> THEN {} ELSE {Batch(s)})
                 /\ waiting' = Beyond(s)
                 /\ overlapped' = (overlapped \/ (s # <<>> /\ writes # {}))
-----------------------------------------------------------------------------
\* BinanceKlineAdapter: a closed socket is opened again after a delay, and
\* nothing that was streamed meanwhile arrives.
Close ==
  /\ linked = "open" /\ Spend(1) /\ linked' = "closed"
  /\ UNCHANGED <<streamed, waiting, timer, writes, streak, candle, stale, heard, forgone,
                 overlapped>>

Reopen ==
  /\ linked = "closed" /\ linked' = "open"
  /\ UNCHANGED <<stimuli, streamed, waiting, timer, writes, streak, candle, stale, heard,
                 forgone, overlapped>>

\* ingestKlineEvent: a full batch is flushed at once and the timer cleared.
Arrive ==
  LET u == Update(streamed + 1)
      s == Append(waiting, u)
  IN  /\ streamed < Minutes * Final /\ streamed' = streamed + 1
      /\ IF linked = "closed" THEN UNCHANGED <<waiting, timer, writes, heard, forgone, overlapped>>
         ELSE /\ heard' = [heard EXCEPT ![u.minute] = u.version]
              /\ forgone' = forgone \union Dropped(s)
              /\ IF Len(Cap(s)) >= BatchSize THEN StartWrite(Cap(s)) /\ timer' = FALSE
                 ELSE waiting' = Cap(s) /\ timer' = TRUE /\ UNCHANGED <<writes, overlapped>>
      /\ UNCHANGED <<stimuli, linked, streak, candle, stale>>

FlushTimer ==
  /\ timer /\ StartWrite(waiting) /\ timer' = (waiting' # <<>>)
  /\ UNCHANGED <<stimuli, linked, streamed, streak, candle, stale, heard, forgone>>

\* bulkWrite, in order: the stored candle becomes what the last update says.
Stored(b, n) == [t \in DOMAIN candle |->
  LET at == {i \in 1..n : b[i].minute = t}
  IN  IF at = {} THEN candle[t] ELSE b[CHOOSE i \in at : \A j \in at : j <= i].version]

\* The cached charts of a series with a closed candle are deleted.
Written(b) ==
  /\ b \in writes /\ writes' = writes \ {b} /\ candle' = Stored(b, Len(b)) /\ streak' = 0
  /\ stale' = \A i \in DOMAIN b : b[i].version # Final
  /\ UNCHANGED <<stimuli, linked, streamed, waiting, timer, heard, forgone, overlapped>>

\* Slip: the batch is put back behind what came after it.
RequeueBehind(b) ==
  \E n \in 0..Len(b) :
    /\ b \in writes /\ Spend(1) /\ writes' = writes \ {b} /\ candle' = Stored(b, n)
    /\ streak' = streak + 1 /\ waiting' = Cap(waiting \o b)
    /\ forgone' = forgone \union Dropped(waiting \o b)
    /\ UNCHANGED <<linked, streamed, timer, stale, heard, overlapped>>

\* A write that fails, after some of it was done: the batch is put back in
\* front, or given up and counted after too many in a row.  No timer is set.
Failed(b) ==
  \E n \in 0..Len(b) :
    /\ b \in writes /\ Spend(1) /\ writes' = writes \ {b} /\ candle' = Stored(b, n)
    /\ IF streak >= MaxRequeue
       THEN streak' = 0 /\ forgone' = forgone \union ToSet(b) /\ UNCHANGED waiting
       ELSE /\ streak' = streak + 1 /\ waiting' = Cap(b \o waiting)
            /\ forgone' = forgone \union Dropped(b \o waiting)
    /\ UNCHANGED <<linked, streamed, timer, stale, heard, overlapped>>
-----------------------------------------------------------------------------
KlineInit ==
  /\ linked = "open" /\ streamed = 0 /\ waiting = <<>> /\ timer = FALSE
  /\ writes = {} /\ streak = 0 /\ candle = [t \in 1..Minutes |-> 0] /\ stale = FALSE
  /\ heard = [t \in 1..Minutes |-> 0] /\ forgone = {} /\ overlapped = FALSE

KlineNext == \/ Close \/ Reopen \/ Arrive \/ FlushTimer
             \/ \E b \in writes : Written(b) \/ Failed(b)
-----------------------------------------------------------------------------
\* What was heard of a candle is stored, on its way, or counted as lost - and
\* a failed write that is repeated never puts an older version in the place of
\* a newer one, as long as two writes are not under way at once.
OnItsWay(u) == u \in ToSet(waiting) \/ \E b \in writes : u \in ToSet(b)

CandlesFollowTheStream == \A t \in 1..Minutes :
  LET u == [minute |-> t, version |-> heard[t]]
  IN  heard[t] > 0 /\ ~overlapped =>
        candle[t] = heard[t] \/ OnItsWay(u) \/ u \in forgone

KlineTypeOK ==
  /\ streamed \in 0..(Minutes * Final) /\ Len(waiting) <= MaxBuffer /\ streak \in 0..MaxRequeue
  /\ \A t \in 1..Minutes : candle[t] <= heard[t]
  /\ linked \in {"open", "closed"}

=============================================================================
