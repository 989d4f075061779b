------------------------------- MODULE Social -------------------------------
(* Comments, reactions, follows and reward points: handlers that write a     *)
(* document and then adjust a counter kept elsewhere ($inc on the article,   *)
(* the parent comment, the user).  One article; one action per awaited call. *)
EXTENDS Budget, Integers, Sequences, FiniteSets

CONSTANTS Users, Reactors,  \* accounts; handler executions in flight
          ReactionTypes

ASSUME SocialAssumption ==
  "none" \notin ReactionTypes /\ IsFiniteSet(Users) /\ IsFiniteSet(Reactors)

VARIABLES comments,  \* set of [id, parent, by, replies, deleted]; parent 0: none
          lastId,    \* ids given to comments so far
          shown,     \* metrics.comments of the article
          reaction,  \* user -> its reaction document's type, or "none"
          tally,     \* metrics.reactions of the article; total and likes: Total
          total,
          follows,   \* documents <<follower, target>>
          social,    \* handler -> [pc, ...]
          diary,     \* user -> reward activities, latest last
          points,    \* user -> rewardPoints
          told,      \* notices published: follower and reply events
          stray      \* ghost: a write missed what its handler had read, or a
                     \* handler died between its document and its counter

socialVars == <<comments, lastId, shown, reaction, tally, total, follows, social,
                diary, points, told, stray>>
commentVars  == <<comments, lastId, shown>>
reactionVars == <<reaction, tally, total>>
rewardVars   == <<diary, points>>

\* What a handler keeps between two awaited calls.
Rest == [pc |-> "idle"]
Writing(pc, u, id, parent) == [pc |-> pc, by |-> u, id |-> id, parent |-> parent]
Deleting(pc, id, parent, soft) == [pc |-> pc, id |-> id, parent |-> parent, soft |-> soft]
Switching(pc, u, old, new) == [pc |-> pc, by |-> u, old |-> old, new |-> new]
Rewarding(pc, u, action) == [pc |-> pc, by |-> u, action |-> action]
Ready(r) == social[r].pc = "idle"
On(r, pc) == social[r].pc = pc
Goes(r, rec) == social' = [social EXCEPT ![r] = rec]
Known(id) == \E c \in comments : c.id = id
Comment(id) == CHOOSE c \in comments : c.id = id
Alter(id, c) == {d \in comments : d.id # id} \union {c}
-----------------------------------------------------------------------------
\* addComment: the parent must exist; create; $inc the article; $inc the
\* parent's replyCount; look the parent up again to notify its author.
AddComment(r, u, parent) ==
  /\ Ready(r) /\ Spend(1) /\ (parent = 0 \/ Known(parent))
  /\ Goes(r, Writing("create", u, 0, parent))
  /\ UNCHANGED <<commentVars, reactionVars, follows, rewardVars, told, stray>>

CreateComment(r) ==
  /\ On(r, "create")
  /\ lastId' = lastId + 1
  /\ comments' = comments \union {[id |-> lastId + 1, parent |-> social[r].parent,
       by |-> social[r].by, replies |-> 0, deleted |-> FALSE]}
  /\ Goes(r, Writing("shown", social[r].by, lastId + 1, social[r].parent))
  /\ UNCHANGED <<stimuli, shown, reactionVars, follows, rewardVars, told, stray>>

CountComment(r) ==
  /\ On(r, "shown") /\ shown' = shown + 1
  /\ Goes(r, IF social[r].parent = 0 THEN Rest
             ELSE Writing("reply", social[r].by, social[r].id, social[r].parent))
  /\ UNCHANGED <<stimuli, comments, lastId, reactionVars, follows, rewardVars, told, stray>>

\* incrementReplyCount and the second findById: a parent deleted since is missed.
CountReply(r) ==
  LET p == social[r].parent
  IN  /\ On(r, "reply") /\ Goes(r, Rest)
      /\ IF Known(p)
         THEN /\ comments' = Alter(p, [Comment(p) EXCEPT !.replies = @ + 1])
              /\ told' = told + IF Comment(p).by # social[r].by THEN 1 ELSE 0
         ELSE UNCHANGED <<comments, told>>
      /\ UNCHANGED <<stimuli, lastId, shown, reactionVars, follows, rewardVars, stray>>

\* deleteComment, by the author: what findById returned decides between the
\* body '[deleted]' and removal; a comment with replies can be deleted again.
DeleteComment(r, id) ==
  /\ Ready(r) /\ Spend(1) /\ Known(id)
  /\ Goes(r, Deleting("remove", id, Comment(id).parent, Comment(id).replies > 0))
  /\ UNCHANGED <<commentVars, reactionVars, follows, rewardVars, told, stray>>

RemoveComment(r) ==
  LET id == social[r].id
      soft == social[r].soft
  IN  /\ On(r, "remove")
      /\ stray' = (stray \/ ~Known(id) \/ (Known(id) /\ Comment(id).deleted))
      /\ comments' = IF soft /\ Known(id) THEN Alter(id, [Comment(id) EXCEPT !.deleted = TRUE])
                     ELSE {c \in comments : c.id # id}
      /\ Goes(r, Deleting(IF ~soft /\ social[r].parent # 0 THEN "unreply" ELSE "unshow",
                          id, social[r].parent, soft))
      /\ UNCHANGED <<stimuli, lastId, shown, reactionVars, follows, rewardVars, told>>

UncountReply(r) ==
  LET p == social[r].parent
  IN  /\ On(r, "unreply")
      /\ comments' = IF Known(p) THEN Alter(p, [Comment(p) EXCEPT !.replies = @ - 1])
                     ELSE comments
      /\ Goes(r, Deleting("unshow", social[r].id, p, social[r].soft))
      /\ UNCHANGED <<stimuli, lastId, shown, reactionVars, follows, rewardVars, told, stray>>

UncountComment(r) ==
  /\ On(r, "unshow") /\ shown' = shown - 1 /\ Goes(r, Rest)
  /\ UNCHANGED <<stimuli, comments, lastId, reactionVars, follows, rewardVars, told, stray>>
-----------------------------------------------------------------------------
\* toggleReaction: findOne decides between create, delete and change of type.
Toggle(r, u, t) ==
  /\ Ready(r) /\ Spend(1)
  /\ Goes(r, Switching(IF reaction[u] = "none" THEN "react"
                        ELSE IF reaction[u] = t THEN "unreact" ELSE "retype",
                        u, reaction[u], t))
  /\ UNCHANGED <<commentVars, reactionVars, follows, rewardVars, told, stray>>

\* create: (user, article) is unique, so of two creations the later one throws.
React(r) ==
  LET u == social[r].by
  IN  /\ On(r, "react")
      /\ IF reaction[u] # "none" THEN Goes(r, Rest) /\ UNCHANGED reaction
         ELSE /\ reaction' = [reaction EXCEPT ![u] = social[r].new]
              /\ Goes(r, Switching("adjust", u, "none", social[r].new))
      /\ UNCHANGED <<stimuli, commentVars, tally, total, follows, rewardVars, told, stray>>

\* deleteByUserAndTarget of a toggle: the result is not looked at.
Unreact(r) ==
  LET u == social[r].by
  IN  /\ On(r, "unreact")
      /\ stray' = (stray \/ reaction[u] # social[r].old)
      /\ reaction' = [reaction EXCEPT ![u] = "none"]
      /\ Goes(r, Switching("adjust", u, social[r].old, "none"))
      /\ UNCHANGED <<stimuli, commentVars, tally, total, follows, rewardVars, told>>

\* Slip: the counter of the type the user had is not decremented.
RetypeKeepingOld(r) ==
  LET u == social[r].by
  IN  /\ On(r, "retype")
      /\ stray' = (stray \/ reaction[u] # social[r].old)
      /\ reaction' = [reaction EXCEPT ![u] = IF @ = "none" THEN "none" ELSE social[r].new]
      /\ Goes(r, Switching("adjust", u, "other", social[r].new))
      /\ UNCHANGED <<stimuli, commentVars, tally, total, follows, rewardVars, told>>

\* updateType: findOneAndUpdate of whatever document there is by now.
Retype(r) ==
  LET u == social[r].by
  IN  /\ On(r, "retype")
      /\ stray' = (stray \/ reaction[u] # social[r].old)
      /\ reaction' = [reaction EXCEPT ![u] = IF @ = "none" THEN "none" ELSE social[r].new]
      /\ Goes(r, Switching("adjust", u, social[r].old, social[r].new))
      /\ UNCHANGED <<stimuli, commentVars, tally, total, follows, rewardVars, told>>

\* removeReaction: findOneAndDelete; its result decides.
RemoveReaction(r, u) ==
  /\ Ready(r) /\ Spend(1) /\ reaction[u] # "none"
  /\ reaction' = [reaction EXCEPT ![u] = "none"]
  /\ Goes(r, Switching("adjust", u, reaction[u], "none"))
  /\ UNCHANGED <<commentVars, tally, total, follows, rewardVars, told, stray>>

\* $inc of the article's counters; a new reaction is rewarded in the background.
AdjustTally(r) ==
  LET old == social[r].old
      new == social[r].new
      Unit(t) == (IF t = new THEN 1 ELSE 0) - (IF t = old THEN 1 ELSE 0)
  IN  /\ On(r, "adjust")
      /\ tally' = [t \in ReactionTypes |-> tally[t] + Unit(t)]
      /\ total' = total - Unit("none")
      /\ Goes(r, IF old = "none" THEN Rewarding("enter", social[r].by, "REACT")
                 ELSE Rest)
      /\ UNCHANGED <<stimuli, commentVars, reaction, follows, rewardVars, told, stray>>
-----------------------------------------------------------------------------
\* claimReward: a daily login is refused when the user's LATEST activity is one.
RewardPoints == [DAILY_LOGIN |-> 10, READ_NEWS |-> 2, REACT |-> 1]

Claim(r, u, action) ==
  /\ Ready(r) /\ Spend(1)
  /\ ~(action = "DAILY_LOGIN" /\ diary[u] # <<>> /\ diary[u][Len(diary[u])] = "DAILY_LOGIN")
  /\ Goes(r, Rewarding("enter", u, action))
  /\ UNCHANGED <<commentVars, reactionVars, follows, rewardVars, told, stray>>

EnterReward(r) ==
  /\ On(r, "enter")
  /\ diary' = [diary EXCEPT ![social[r].by] = Append(@, social[r].action)]
  /\ Goes(r, Rewarding("points", social[r].by, social[r].action))
  /\ UNCHANGED <<stimuli, commentVars, reactionVars, follows, points, told, stray>>

AddPoints(r) ==
  /\ On(r, "points")
  /\ points' = [points EXCEPT ![social[r].by] = @ + RewardPoints[social[r].action]]
  /\ Goes(r, Rest)
  /\ UNCHANGED <<stimuli, commentVars, reactionVars, follows, diary, told, stray>>

\* followUser: exists, then upsert, then an unawaited publication.
FollowUser(r, u, v) ==
  /\ Ready(r) /\ Spend(1) /\ u # v /\ <<u, v>> \notin follows
  /\ Goes(r, [pc |-> "follow", by |-> u, whom |-> v])
  /\ UNCHANGED <<commentVars, reactionVars, follows, rewardVars, told, stray>>

Upsert(r) ==
  /\ On(r, "follow")
  /\ follows' = follows \union {<<social[r].by, social[r].whom>>}
  /\ told' = told + 1 /\ Goes(r, Rest)
  /\ UNCHANGED <<stimuli, commentVars, reactionVars, rewardVars, stray>>

Unfollow(u, v) ==
  /\ Spend(1) /\ <<u, v>> \in follows /\ follows' = follows \ {<<u, v>>}
  /\ UNCHANGED <<commentVars, reactionVars, social, rewardVars, told, stray>>

\* The process dies in the middle of a handler.
HandlerDies(r) ==
  /\ ~Ready(r) /\ Spend(1) /\ Goes(r, Rest)
  /\ stray' = (stray \/ social[r].pc \in {"shown", "reply", "unreply", "unshow",
                                          "adjust", "enter", "points"})
  /\ UNCHANGED <<commentVars, reactionVars, follows, rewardVars, told>>
-----------------------------------------------------------------------------
SocialInit ==
  /\ comments = {} /\ lastId = 0 /\ shown = 0
  /\ reaction = [u \in Users |-> "none"] /\ tally = [t \in ReactionTypes |-> 0] /\ total = 0
  /\ follows = {} /\ social = [r \in Reactors |-> Rest]
  /\ diary = [u \in Users |-> <<>>] /\ points = [u \in Users |-> 0]
  /\ told = 0 /\ stray = FALSE

SocialNext ==
  \/ \E r \in Reactors :
       \/ \E u \in Users : \/ \E p \in 0..lastId : AddComment(r, u, p)
                           \/ \E t \in ReactionTypes : Toggle(r, u, t)
                           \/ RemoveReaction(r, u)
                           \/ \E a \in {"DAILY_LOGIN", "READ_NEWS"} : Claim(r, u, a)
                           \/ \E v \in Users : FollowUser(r, u, v)
       \/ \E id \in 1..lastId : DeleteComment(r, id)
       \/ CreateComment(r) \/ CountComment(r) \/ CountReply(r) \/ RemoveComment(r)
       \/ UncountReply(r) \/ UncountComment(r)
       \/ React(r) \/ Unreact(r) \/ Retype(r) \/ AdjustTally(r)
       \/ EnterReward(r) \/ AddPoints(r) \/ Upsert(r) \/ HandlerDies(r)
  \/ \E u, v \in Users : Unfollow(u, v)
-----------------------------------------------------------------------------
Times(u, a) == Cardinality({i \in DOMAIN diary[u] : diary[u][i] = a})
Earned(u) == RewardPoints.DAILY_LOGIN * Times(u, "DAILY_LOGIN")
               + RewardPoints.READ_NEWS * Times(u, "READ_NEWS")
               + RewardPoints.REACT * Times(u, "REACT")

\* With no handler in flight the counters - comments shown, replies of each
\* comment, reactions by type, reward points - equal what their documents add
\* up to, whatever the handlers' interleaving; only a write that missed what its
\* handler had read, or a handler that died halfway, may set them apart.
CountersMatchDocuments ==
  (\A r \in Reactors : Ready(r)) /\ ~stray =>
    /\ shown = Cardinality({c \in comments : ~c.deleted})
    /\ \A c \in comments : c.replies = Cardinality({d \in comments : d.parent = c.id})
    /\ \A t \in ReactionTypes : tally[t] = Cardinality({u \in Users : reaction[u] = t})
    /\ total = Cardinality({u \in Users : reaction[u] # "none"})
    /\ \A u \in Users : points[u] = Earned(u)

SocialTypeOK ==
  /\ \A c \in comments : c.id \in 1..lastId /\ c.parent \in 0..lastId /\ c.replies \in Int
  /\ reaction \in [Users -> ReactionTypes \union {"none"}]
  /\ tally \in [ReactionTypes -> Int] /\ follows \subseteq Users \X Users /\ told \in Nat

=============================================================================
