------------------------------ MODULE NewsFeed ------------------------------
(* How a news list reaches a client: under an ETag made of the feed's        *)
(* revision, through a response cache keyed by that revision and, below it,  *)
(* an entity cache that is not.  Two clients ask one process for one list.   *)
EXTENDS Budget

CONSTANTS Clients, Absent

VARIABLES content,   \* the version of the articles stored
          feed,      \* news:feed:revision:v1
          bumps,     \* changes stored, revision not counted up yet
          debounce,  \* scheduleNewsFeedChanged: the 400 ms timer is set
          entity,    \* news:list:v1:...: a version read, or Absent
          answers,   \* news:resp:v2:<revision>:...: revision -> [version, fresh] or Absent
          flight,    \* withResponseCache's inflight entry: [pc, version]
          visit,     \* client -> [pc, tag, version, fresh], serveNewsFeedResponse
          held,      \* client -> [tag, version, fresh] it holds; fresh is a Ghost:
                     \* read from the database after its tag was
          silent     \* Ghost: a change was never counted, or a tag was made
                     \* while Redis did not answer

feedVars == <<content, feed, bumps, debounce, entity, answers, flight, visit, held, silent>>

Landed == [pc |-> "idle", version |-> Absent]
Away == [pc |-> "idle", tag |-> Absent, version |-> Absent, fresh |-> FALSE]
NoList == [tag |-> Absent, version |-> Absent, fresh |-> FALSE]
Revisions == 0..MaxStimuli
-----------------------------------------------------------------------------
(* Changes *)

\* An import or a rebranding stores articles and counts the revision up next;
\* the sentiment worker only sets the timer, unless it is set.
StoreArticles ==
  /\ Spend(1) /\ content' = content + 1 /\ bumps' = bumps + 1
  /\ UNCHANGED <<feed, debounce, entity, answers, flight, visit, held, silent>>

ScoreArticle ==
  /\ Spend(1) /\ content' = content + 1 /\ debounce' = TRUE
  /\ UNCHANGED <<feed, bumps, entity, answers, flight, visit, held, silent>>

DebounceEnds ==
  /\ debounce /\ debounce' = FALSE /\ bumps' = bumps + 1 /\ UNCHANGED stimuli
  /\ UNCHANGED <<content, feed, entity, answers, flight, visit, held, silent>>

\* bumpNewsFeedRevision swallows the error of a Redis that does not answer.
Bump(missed) ==
  /\ bumps > 0 /\ bumps' = bumps - 1
  /\ IF missed THEN Spend(1) /\ silent' = TRUE /\ UNCHANGED feed
             ELSE UNCHANGED <<stimuli, silent>> /\ feed' = feed + 1
  /\ UNCHANGED <<content, debounce, entity, answers, flight, visit, held>>

Crash ==
  /\ Spend(1) /\ silent' = (silent \/ bumps > 0 \/ debounce)
  /\ bumps' = 0 /\ debounce' = FALSE /\ flight' = Landed
  /\ visit' = [c \in Clients |-> Away]
  /\ UNCHANGED <<content, feed, entity, answers, held>>

CacheExpires ==
  /\ UNCHANGED stimuli
  /\ \/ entity # Absent /\ entity' = Absent /\ UNCHANGED answers
     \/ \E r \in Revisions : /\ answers[r] # Absent /\ UNCHANGED entity
                             /\ answers' = [answers EXCEPT ![r] = Absent]
  /\ UNCHANGED <<content, feed, bumps, debounce, flight, visit, held, silent>>
-----------------------------------------------------------------------------
(* A request *)

Open(c) ==
  /\ visit[c].pc = "idle" /\ Spend(1)
  /\ visit' = [visit EXCEPT ![c] = [Away EXCEPT !.pc = "revision"]]
  /\ UNCHANGED <<content, feed, bumps, debounce, entity, answers, flight, held, silent>>

\* The tag is the revision, 0 when Redis does not answer; a client that holds
\* that tag is told 304.
AskRevision(c, down) ==
  /\ visit[c].pc = "revision"
  /\ LET tag == IF down THEN 0 ELSE feed
     IN visit' = [visit EXCEPT ![c] = IF held[c].tag = tag THEN Away
                                      ELSE [@ EXCEPT !.pc = "answer", !.tag = tag]]
  /\ IF down THEN Spend(1) /\ silent' = TRUE ELSE UNCHANGED <<stimuli, silent>>
  /\ UNCHANGED <<content, feed, bumps, debounce, entity, answers, flight, held>>

KeptAnswer(tag) == answers[tag]

AskAnswer(c) ==
  /\ visit[c].pc = "answer" /\ UNCHANGED stimuli
  /\ LET kept == KeptAnswer(visit[c].tag)
     IN IF kept = Absent
        THEN visit' = [visit EXCEPT ![c].pc = "entity"] /\ UNCHANGED held
        ELSE /\ visit' = [visit EXCEPT ![c] = Away]
             /\ held' = [held EXCEPT ![c] =
                  [tag |-> visit[c].tag, version |-> kept.version, fresh |-> kept.fresh]]
  /\ UNCHANGED <<content, feed, bumps, debounce, entity, answers, flight, silent>>

\* A hit is passed on; a miss starts the one read of the list, or joins it.
AskEntity(c) ==
  /\ visit[c].pc = "entity" /\ UNCHANGED stimuli
  /\ IF entity # Absent
     THEN /\ visit' = [visit EXCEPT ![c] = [@ EXCEPT !.pc = "keep", !.version = entity]]
          /\ UNCHANGED flight
     ELSE /\ visit' = [visit EXCEPT ![c] = [@ EXCEPT !.pc = "wait", !.fresh = flight.pc # "set"]]
          /\ flight' = IF flight.pc = "idle" THEN [Landed EXCEPT !.pc = "read"] ELSE flight
  /\ UNCHANGED <<content, feed, bumps, debounce, entity, answers, held, silent>>

ReadArticles ==
  /\ flight.pc = "read" /\ flight' = [pc |-> "set", version |-> content] /\ UNCHANGED stimuli
  /\ UNCHANGED <<content, feed, bumps, debounce, entity, answers, visit, held, silent>>

\* A failed read fails everyone who waits for it.
ReadFails ==
  /\ flight.pc = "read" /\ Spend(1) /\ flight' = Landed
  /\ visit' = [c \in Clients |-> IF visit[c].pc = "wait" THEN Away ELSE visit[c]]
  /\ UNCHANGED <<content, feed, bumps, debounce, entity, answers, held, silent>>

FillEntity ==
  /\ flight.pc = "set" /\ entity' = flight.version /\ flight' = Landed /\ UNCHANGED stimuli
  /\ visit' = [c \in Clients |->
       IF visit[c].pc = "wait" THEN [visit[c] EXCEPT !.pc = "keep", !.version = flight.version]
       ELSE visit[c]]
  /\ UNCHANGED <<content, feed, bumps, debounce, answers, held, silent>>

\* The answer is kept under the revision the request began with, then sent.
KeepAnswer(c) ==
  /\ visit[c].pc = "keep" /\ UNCHANGED stimuli
  /\ LET made == [version |-> visit[c].version, fresh |-> visit[c].fresh]
     IN /\ answers' = [answers EXCEPT ![visit[c].tag] = made]
        /\ held' = [held EXCEPT ![c] =
             [tag |-> visit[c].tag, version |-> made.version, fresh |-> made.fresh]]
  /\ visit' = [visit EXCEPT ![c] = Away]
  /\ UNCHANGED <<content, feed, bumps, debounce, entity, flight, silent>>
-----------------------------------------------------------------------------
FeedInit ==
  /\ content = 0 /\ feed = 0 /\ bumps = 0 /\ debounce = FALSE /\ entity = Absent
  /\ answers = [r \in Revisions |-> Absent] /\ flight = Landed
  /\ visit = [c \in Clients |-> Away] /\ held = [c \in Clients |-> NoList]
  /\ silent = FALSE

FeedNext ==
  \/ StoreArticles \/ ScoreArticle \/ DebounceEnds \/ Crash \/ CacheExpires
  \/ \E missed \in BOOLEAN : Bump(missed)
  \/ ReadArticles \/ ReadFails \/ FillEntity
  \/ \E c \in Clients :
       \/ Open(c) \/ AskAnswer(c) \/ AskEntity(c) \/ KeepAnswer(c)
       \/ \E down \in BOOLEAN : AskRevision(c, down)

FeedTypeOK ==
  /\ content \in Revisions /\ feed \in 0..content /\ bumps \in 0..content
  /\ debounce \in BOOLEAN /\ silent \in BOOLEAN /\ entity \in Revisions \union {Absent}
  /\ flight.pc \in {"idle", "read", "set"}
  /\ \A c \in Clients : visit[c].pc \in {"idle", "revision", "answer", "entity", "wait", "keep"}

\* "Bump revision + publish so HTTP ETag caches and WS clients both
\* invalidate": once the changes are counted, a client that would be told 304
\* holds the articles as they are stored - when its list was read from the
\* database after its revision.  A list the entity cache passed on, or a read
\* under way already, was wrong when it was given the new tag, and then stays.
FeedIsCurrent ==
  \A c \in Clients :
    held[c].tag = feed /\ held[c].fresh /\ bumps = 0 /\ ~debounce /\ ~silent
      => held[c].version = content
=============================================================================
