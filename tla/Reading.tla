------------------------------- MODULE Reading -------------------------------
(* What is remembered of a reader: the boards articles are saved on, every   *)
(* article's count of savers, and the interest profile, which requests merge *)
(* signals into and a worker recomputes from what the user follows.  One     *)
(* user, several of whose requests are under way at a time.                  *)
EXTENDS Budget, Integers

CONSTANTS Boards,    \* the user's boards
          Articles,
          Clicks,    \* the requests that may be under way at a time
          Nothing

Profiles == [signals : SUBSET Articles, coins : BOOLEAN, stale : BOOLEAN]

ASSUME ReadingAssumption == Nothing \notin Profiles

VARIABLES saved,     \* board -> newsIds
          saves,     \* article -> metrics.saves
          click,     \* request -> its progress
          profile,   \* UserInterestProfile: [signals, coins, stale]
          kept,      \* interest:profile:<user> in Redis
          getter,    \* a getProfile that missed the cache
          following, \* does the user follow the coin
          recomputes, \* messages of interest:recompute:stream not delivered yet
          worker,    \* the interest profile worker
          synced,    \* Ghost: articles whose signal has been stored
          uneven,    \* Ghost: articles that may be miscounted
          raced,     \* Ghost: two writers of the profile overlapped
          dropped,   \* Ghost: a recomputation was never queued or failed
          outdated   \* Ghost: the copy was filled late or its deletion failed

boardVars == <<saved, saves, click, uneven>>
profileVars == <<profile, kept, getter, following, recomputes, worker, synced, raced, dropped,
                 outdated>>
readingVars == <<boardVars, profileVars>>

Waiting == [pc |-> "idle", board |-> Nothing,
            article |-> Nothing, seen |-> Nothing]
Fresh == [signals |-> {}, coins |-> FALSE, stale |-> FALSE]
Goto(r, pc) == click' = [click EXCEPT ![r].pc = pc]
Savers(n) == {b \in Boards : n \in saved[b]}
Counting == {"exists", "count", "add", "remove", "still", "uncount"}
-----------------------------------------------------------------------------
(* Boards *)

Begin(r, b, n, pc) ==
  /\ click[r].pc = "idle" /\ Spend(1)
  /\ click' = [click EXCEPT ![r] = [pc |-> pc, board |-> b, article |-> n, seen |-> Nothing]]
  /\ uneven' = uneven \cup {m \in {n} : \E q \in Clicks : click[q].article = m
                                                          /\ click[q].pc \in Counting}
  /\ UNCHANGED <<saved, saves, profileVars>>

\* saveItem: is it on this board, is it on another, count it, add it.
BeginSave(r, b, n) == Begin(r, b, n, IF n \in saved[b] THEN "add" ELSE "exists")

Exists(r) ==
  /\ click[r].pc = "exists" /\ Goto(r, IF Savers(click[r].article) = {} THEN "count" ELSE "add")
  /\ UNCHANGED <<stimuli, saved, saves, uneven, profileVars>>

CountSave(r) ==
  /\ click[r].pc = "count" /\ Goto(r, "add")
  /\ saves' = [saves EXCEPT ![click[r].article] = @ + 1]
  /\ UNCHANGED <<stimuli, saved, uneven, profileVars>>

AddItem(r) ==
  /\ click[r].pc = "add" /\ Goto(r, "sync")
  /\ saved' = [saved EXCEPT ![click[r].board] = @ \cup {click[r].article}]
  /\ UNCHANGED <<stimuli, saves, uneven, profileVars>>

\* unsaveItem: whether it was on the board is not asked.
BeginUnsave(r, b, n) == Begin(r, b, n, "remove")

RemoveItem(r) ==
  LET k == click[r]
  IN  /\ k.pc = "remove" /\ Goto(r, "still")
      /\ saved' = [saved EXCEPT ![k.board] = @ \ {k.article}]
      /\ uneven' = uneven \cup (IF k.article \in saved[k.board] THEN {} ELSE {k.article})
      /\ UNCHANGED <<stimuli, saves, profileVars>>

StillSaved(n) == Savers(n) # {}

Still(r) ==
  /\ click[r].pc = "still" /\ Goto(r, IF StillSaved(click[r].article) THEN "idle" ELSE "uncount")
  /\ UNCHANGED <<stimuli, saved, saves, uneven, profileVars>>

Uncount(r) ==
  /\ click[r].pc = "uncount" /\ click' = [click EXCEPT ![r] = Waiting]
  /\ saves' = [saves EXCEPT ![click[r].article] = @ - 1]
  /\ UNCHANGED <<stimuli, saved, uneven, profileVars>>

\* A request fails at one of its database calls, or dies there.
Fail(r) ==
  /\ click[r].pc # "idle" /\ Spend(1) /\ click' = [click EXCEPT ![r] = Waiting]
  /\ uneven' = uneven \cup {n \in {click[r].article} : click[r].pc \in Counting}
  /\ dropped' = (dropped \/ click[r].pc \in {"uncache", "enqueue"})
  /\ outdated' = (outdated \/ click[r].pc = "uncache")
  /\ UNCHANGED <<saved, saves, profile, kept, getter, following, recomputes, worker, synced, raced>>
-----------------------------------------------------------------------------
(* Interest profile *)

Writing == {r \in Clicks : click[r].pc = "merge"}

\* syncSignals, which nobody waits for after a save.
SyncRead(r) ==
  /\ click[r].pc = "sync"
  /\ click' = [click EXCEPT ![r] = [@ EXCEPT !.pc = "merge", !.seen = profile]]
  /\ raced' = (raced \/ Writing # {} \/ worker.pc = "write")
  /\ UNCHANGED <<stimuli, saved, saves, uneven, profile, kept, getter, following, recomputes, worker,
                 synced, dropped, outdated>>

SyncMerge(r) ==
  LET k == click[r]
  IN  /\ k.pc = "merge" /\ click' = [click EXCEPT ![r] = [@ EXCEPT !.pc = "uncache", !.seen = Nothing]]
      /\ profile' = [profile EXCEPT !.signals = k.seen.signals \cup {k.article}, !.stale = TRUE]
      /\ synced' = synced \cup {k.article}
      /\ UNCHANGED <<stimuli, saved, saves, uneven, kept, getter, following, recomputes, worker, raced,
                     dropped, outdated>>

\* The cached copy; an error is logged and the copy stays.
Delete == \/ kept' = Nothing /\ UNCHANGED <<stimuli, outdated>>
          \/ kept # Nothing /\ Spend(1) /\ outdated' = TRUE /\ UNCHANGED kept

SyncDelete(r) ==
  /\ click[r].pc = "uncache" /\ Goto(r, "enqueue") /\ Delete
  /\ UNCHANGED <<saved, saves, uneven, profile, getter, following, recomputes, worker, synced, raced,
                 dropped>>

Enqueue(r) ==
  /\ click[r].pc = "enqueue" /\ click' = [click EXCEPT ![r] = Waiting]
  /\ recomputes' = recomputes + 1
  /\ UNCHANGED <<stimuli, saved, saves, uneven, profile, kept, getter, following, worker, synced, raced,
                 dropped, outdated>>

\* The user follows or leaves the coin; the recomputation is asked for.
Follow ==
  /\ Spend(1) /\ following' = ~following /\ recomputes' = recomputes + 1
  /\ UNCHANGED <<boardVars, profile, kept, getter, worker, synced, raced, dropped, outdated>>

\* runInterestProfileWorker: a message is delivered once; recompute gathers,
\* reads the profile, writes it and deletes the copy.
Resting == [pc |-> "idle", coins |-> FALSE, seen |-> Nothing]

Gather ==
  /\ worker = Resting /\ recomputes > 0 /\ recomputes' = recomputes - 1
  /\ worker' = [worker EXCEPT !.pc = "read", !.coins = following]
  /\ UNCHANGED <<stimuli, boardVars, profile, kept, getter, following, synced, raced, dropped, outdated>>

ReadProfile ==
  /\ worker.pc = "read" /\ worker' = [worker EXCEPT !.pc = "write", !.seen = profile]
  /\ raced' = (raced \/ Writing # {})
  /\ UNCHANGED <<stimuli, boardVars, profile, kept, getter, following, recomputes, synced, dropped,
                 outdated>>

Recomputed(w) == [signals |-> w.seen.signals, coins |-> w.coins, stale |-> FALSE]

WriteProfile ==
  /\ worker.pc = "write" /\ profile' = Recomputed(worker)
  /\ worker' = [Resting EXCEPT !.pc = "uncache"]
  /\ UNCHANGED <<stimuli, boardVars, kept, getter, following, recomputes, synced, raced, dropped,
                 outdated>>

DeleteCopy ==
  /\ worker.pc = "uncache" /\ worker' = Resting /\ Delete
  /\ UNCHANGED <<boardVars, profile, getter, following, recomputes, synced, raced, dropped>>

\* A message that fails is not acknowledged, and nobody asks for it again.
WorkerFails ==
  /\ worker # Resting /\ Spend(1) /\ worker' = Resting
  /\ dropped' = (dropped \/ worker.pc # "uncache")
  /\ outdated' = (outdated \/ worker.pc = "uncache")
  /\ UNCHANGED <<boardVars, profile, kept, getter, following, recomputes, synced, raced>>

\* getProfile.
MissProfile ==
  /\ getter = Nothing /\ kept = Nothing /\ getter' = profile
  /\ UNCHANGED <<stimuli, boardVars, profile, kept, following, recomputes, worker, synced, raced,
                 dropped, outdated>>

FillProfile ==
  /\ getter # Nothing /\ getter' = Nothing /\ kept' = getter
  /\ outdated' = (getter # profile)
  /\ UNCHANGED <<stimuli, boardVars, profile, following, recomputes, worker, synced, raced, dropped>>
-----------------------------------------------------------------------------
ReadingInit ==
  /\ saved = [b \in Boards |-> {}] /\ saves = [n \in Articles |-> 0]
  /\ click = [r \in Clicks |-> Waiting]
  /\ profile = Fresh /\ kept = Nothing /\ getter = Nothing /\ following = FALSE
  /\ recomputes = 0 /\ worker = Resting
  /\ synced = {} /\ uneven = {} /\ raced = FALSE /\ dropped = FALSE /\ outdated = FALSE

\* What the requests do.
BoardNext == \E r \in Clicks :
  \/ \E b \in Boards, n \in Articles : BeginSave(r, b, n) \/ BeginUnsave(r, b, n)
  \/ Exists(r) \/ CountSave(r) \/ AddItem(r) \/ RemoveItem(r) \/ Still(r) \/ Uncount(r) \/ Fail(r)
  \/ SyncRead(r) \/ SyncMerge(r) \/ SyncDelete(r) \/ Enqueue(r)

\* And the worker and the readers of the profile beside them.
ReadingNext ==
  \/ BoardNext
  \/ Follow \/ Gather \/ ReadProfile \/ WriteProfile \/ DeleteCopy \/ WorkerFails
  \/ MissProfile \/ FillProfile
-----------------------------------------------------------------------------
\* An article's count is one for every user who has it on some board, unless
\* requests for it overlapped, one failed half way, or it was taken off a board
\* it was not on.
SavesAreCounted == \A n \in Articles \ uneven :
  (\A r \in Clicks : click[r].pc \in Counting => click[r].article # n) =>
    saves[n] = IF Savers(n) = {} THEN 0 ELSE 1

\* No signal that was stored is forgotten, and when every recomputation asked
\* for has run the profile is current and reflects what the user follows -
\* unless two writers of the profile overlapped or a recomputation was lost;
\* and a reader's cached copy is then the profile.
ProfileRemembers ==
  /\ ~raced => synced \subseteq profile.signals
  /\ (/\ ~raced /\ ~dropped /\ recomputes = 0 /\ worker = Resting
      /\ \A r \in Clicks : click[r].pc \notin {"merge", "uncache", "enqueue"})
       => ~profile.stale /\ profile.coins = following /\ (kept = Nothing \/ outdated \/ kept = profile)

ReadingTypeOK ==
  /\ saved \in [Boards -> SUBSET Articles] /\ saves \in [Articles -> Int]
  /\ \A r \in Clicks : click[r].pc \in Counting \cup {"idle", "sync", "merge", "uncache", "enqueue"}
  /\ recomputes \in Nat /\ profile.signals \subseteq Articles /\ synced \subseteq Articles
=============================================================================
