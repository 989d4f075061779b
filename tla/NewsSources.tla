----------------------------- MODULE NewsSources -----------------------------
(* The publishers of news: every import canonicalises its sources in the     *)
(* background, administrators approve and block them, timers repair their    *)
(* missing logos and domains from a queue, and the registry's branding is    *)
(* copied onto the articles.  Nothing here holds a lock.                     *)
EXTENDS Budget

CONSTANTS Publishers,  \* source keys: the slugs of publishers' names
          Site,        \* the domain the articles' URLs may show
          Actors,      \* hooks, requests and timer runs that may overlap
          MaxAttempts, \* MAX_ATTEMPTS of a repair
          Unknown

ASSUME SourceAssumption == MaxAttempts \in Nat \ {0}

VARIABLES publisher, \* source_registry: name -> [domain, logo, status] or Unknown
          aliases,   \* source_aliases: name or domain -> name or Unknown
          repairs,   \* source_repair_queue: <<name, type>> -> [status, attempts] or Unknown
          articles,  \* name -> [brand, url] of the articles with that source.key, or Unknown
          populated, \* names whose articleCount is positive
          actor,     \* actor -> [pc, kind, name, domain, left, tried, brand]
          tries,     \* Ghost: <<name, type>> -> attempts since it was queued
          doubled,   \* Ghost: repairs two batches were at together
          abandoned, \* Ghost: repairs whose batch died at them
          unbrand,   \* Ghost: names imported, blocked, or left by a branding
                     \* that failed, died or was overtaken, since the last one
          twinned    \* Ghost: Site was registered by overlapping hooks, without
                     \* its alias, or learnt by a repair

sourceVars == <<publisher, aliases, repairs, articles, populated, actor,
                tries, doubled, abandoned, unbrand, twinned>>

Types == {"logo", "domain"}
Kinds == Types \union {"none", "hook", "approve", "block"}
Domains == {Site, Unknown}
Repairs == Publishers \X Types
AtRest == [pc |-> "idle", kind |-> "none", name |-> Unknown, domain |-> Unknown,
             left |-> {}, tried |-> [n \in Publishers |-> 0], brand |-> Unknown]
Item(a) == <<actor[a].name, actor[a].kind>>
Pending == [status |-> "pending", attempts |-> 0]
Go(a, pc) == actor' = [actor EXCEPT ![a].pc = pc]
At(a, pc) == actor[a].pc = pc
Leave(a) == actor' = [actor EXCEPT ![a] = AtRest]
-----------------------------------------------------------------------------
(* Import *)

\* The articles' source is what the provider said: a stored article loses its
\* logo and its trust.  The hook then goes its own way.
Publish(a, n, d) ==
  /\ At(a, "idle") /\ Spend(1)
  /\ articles' = [articles EXCEPT ![n] =
       [brand |-> [domain |-> d, logo |-> FALSE, status |-> Unknown], url |-> d]]
  /\ unbrand' = unbrand \union {n}
  /\ actor' = [actor EXCEPT ![a] =
       [AtRest EXCEPT !.pc = "name", !.kind = "hook", !.name = n, !.domain = d]]
  /\ UNCHANGED <<publisher, aliases, repairs, populated, tries, doubled, abandoned, twinned>>

\* canonicalizeSource: the alias of the name, else that of the domain, else
\* the entry of that name, else a new one with its aliases.
AskName(a) ==
  /\ At(a, "name") /\ UNCHANGED stimuli
  /\ actor' = [actor EXCEPT ![a] =
       IF aliases[@.name] # Unknown
       THEN [@ EXCEPT !.pc = "logo", !.name = aliases[actor[a].name]]
       ELSE [@ EXCEPT !.pc = IF actor[a].domain = Unknown THEN "entry" ELSE "domain"]]
  /\ UNCHANGED <<publisher, aliases, repairs, articles, populated, tries, doubled, abandoned, unbrand, twinned>>

Registering(b) == actor[b].domain = Site /\ actor[b].pc \in {"entry", "create", "nameAlias", "siteAlias"}
Meets(a) == \E b \in Actors \ {a} : Registering(b)

\* A publisher known by its domain gets the name as an alias more.
AskDomain(a) ==
  /\ At(a, "domain") /\ UNCHANGED stimuli
  /\ IF aliases[Site] # Unknown THEN Go(a, "rename") /\ UNCHANGED twinned
     ELSE Go(a, "entry") /\ twinned' = (twinned \/ Meets(a))
  /\ UNCHANGED <<publisher, aliases, repairs, articles, populated, tries, doubled, abandoned, unbrand>>

Alias(key, n) == [aliases EXCEPT ![key] = IF @ = Unknown THEN n ELSE @]

\* A failing addAlias is swallowed.
Rename(a, failed) ==
  /\ At(a, "rename")
  /\ IF failed THEN Spend(1) /\ UNCHANGED aliases
               ELSE UNCHANGED stimuli /\ aliases' = Alias(actor[a].name, aliases[Site])
  /\ actor' = [actor EXCEPT ![a] = [@ EXCEPT !.pc = "logo", !.name = aliases[Site]]]
  /\ UNCHANGED <<publisher, repairs, articles, populated, tries, doubled, abandoned, unbrand, twinned>>

AskEntry(a) ==
  /\ At(a, "entry") /\ UNCHANGED stimuli
  /\ Go(a, IF publisher[actor[a].name] # Unknown THEN "logo" ELSE "create")
  /\ UNCHANGED <<publisher, aliases, repairs, articles, populated, tries, doubled, abandoned, unbrand, twinned>>

\* The name is unique: the hook that comes second is rejected.
Create(a) ==
  /\ At(a, "create") /\ UNCHANGED stimuli
  /\ LET n == actor[a].name  d == actor[a].domain
     IN IF publisher[n] # Unknown
        THEN Leave(a) /\ UNCHANGED <<publisher, twinned>>
        ELSE /\ publisher' = [publisher EXCEPT ![n] =
                  [domain |-> d, logo |-> FALSE, status |-> "pending"]]
             /\ twinned' = (twinned \/ (d = Site /\ Meets(a)))
             /\ Go(a, "nameAlias")
  /\ UNCHANGED <<aliases, repairs, articles, populated, tries, doubled, abandoned, unbrand>>

\* addAlias of the name, then of the domain.
AddAlias(a, failed) ==
  /\ actor[a].pc \in {"nameAlias", "siteAlias"}
  /\ IF failed THEN Spend(1) /\ UNCHANGED aliases
     ELSE /\ UNCHANGED stimuli
          /\ aliases' = Alias(IF At(a, "siteAlias") THEN Site ELSE actor[a].name, actor[a].name)
  /\ twinned' = (twinned \/ (failed /\ At(a, "siteAlias")))
  /\ Go(a, IF At(a, "nameAlias") /\ actor[a].domain = Site THEN "siteAlias"
           ELSE IF actor[a].kind = "hook" THEN "logo" ELSE "denorm")
  /\ UNCHANGED <<publisher, repairs, articles, populated, tries, doubled, abandoned, unbrand>>

\* The hook ends with a logo repair, if there is a domain to find one at.
AskLogo(a) ==
  /\ At(a, "logo") /\ UNCHANGED stimuli
  /\ LET entry == publisher[actor[a].name]
     IN IF entry # Unknown /\ ~entry.logo /\ entry.domain # Unknown THEN Go(a, "enqueue") ELSE Leave(a)
  /\ UNCHANGED <<publisher, aliases, repairs, articles, populated, tries, doubled, abandoned, unbrand, twinned>>

EnqueueLogo(a) ==
  /\ At(a, "enqueue") /\ UNCHANGED stimuli
  /\ repairs' = [repairs EXCEPT ![<<actor[a].name, "logo">>] = IF @ = Unknown THEN Pending ELSE @]
  /\ Leave(a)
  /\ UNCHANGED <<publisher, aliases, articles, populated, tries, doubled, abandoned, unbrand, twinned>>
-----------------------------------------------------------------------------
(* Review and branding *)

Review(a, n, kind) ==
  /\ At(a, "idle") /\ publisher[n] # Unknown /\ Spend(1)
  /\ actor' = [actor EXCEPT ![a] = [AtRest EXCEPT !.pc = "review", !.kind = kind, !.name = n]]
  /\ UNCHANGED <<publisher, aliases, repairs, articles, populated, tries, doubled, abandoned, unbrand, twinned>>

\* approveSource goes on to the articles, blockSource does not.
Decide(a) ==
  /\ At(a, "review") /\ UNCHANGED stimuli
  /\ LET n == actor[a].name
     IN IF actor[a].kind = "approve"
        THEN /\ publisher' = [publisher EXCEPT ![n].status = "approved"]
             /\ Go(a, "denorm") /\ UNCHANGED unbrand
        ELSE /\ publisher' = [publisher EXCEPT ![n].status = "blocked"]
             /\ Leave(a) /\ unbrand' = unbrand \union {n}
  /\ UNCHANGED <<aliases, repairs, articles, populated, tries, doubled, abandoned, twinned>>

\* denormSourceBranding: the entry is read, then copied onto the articles.
ReadBrand(a) ==
  /\ At(a, "denorm") /\ UNCHANGED stimuli
  /\ actor' = [actor EXCEPT ![a] = [@ EXCEPT !.pc = "brand", !.brand = publisher[actor[a].name]]]
  /\ UNCHANGED <<publisher, aliases, repairs, articles, populated, tries, doubled, abandoned, unbrand, twinned>>

Repairing(a) == actor[a].kind \in Types

WriteBrand(a, failed) ==
  /\ At(a, "brand")
  /\ LET n == actor[a].name
     IN /\ IF failed THEN Spend(1) ELSE UNCHANGED stimuli
        /\ articles' = IF failed \/ articles[n] = Unknown THEN articles
                       ELSE [articles EXCEPT ![n].brand = actor[a].brand]
        /\ unbrand' = IF failed \/ actor[a].brand # publisher[n]
                      THEN unbrand \union {n} ELSE unbrand \ {n}
  /\ IF Repairing(a) THEN Go(a, IF failed THEN "again" ELSE "done") ELSE Leave(a)
  /\ UNCHANGED <<publisher, aliases, repairs, populated, tries, doubled, abandoned, twinned>>
-----------------------------------------------------------------------------
(* Repairs *)

\* A timer lists what is missing, queues it, and runs a batch of its type.
Missing(type) ==
  IF type = "logo"
  THEN {n \in populated : /\ publisher[n] # Unknown /\ publisher[n].status # "blocked"
                        /\ publisher[n].domain # Unknown /\ ~publisher[n].logo}
  ELSE {n \in Publishers : publisher[n] # Unknown /\ publisher[n].domain = Unknown}

RunRepairs(a, type) ==
  /\ At(a, "idle") /\ Spend(1)
  /\ actor' = [actor EXCEPT ![a] =
       [AtRest EXCEPT !.pc = "queue", !.kind = type, !.left = Missing(type)]]
  /\ UNCHANGED <<publisher, aliases, repairs, articles, populated, tries, doubled, abandoned, unbrand, twinned>>

Requeued(item, type) ==
  IF item = Unknown \/ (type = "logo" /\ item.status \in {"done", "failed"}) THEN Pending ELSE item

QueueRepair(a) ==
  /\ At(a, "queue") /\ UNCHANGED stimuli
  /\ IF actor[a].left = {} THEN Go(a, "select") /\ UNCHANGED <<repairs, tries>>
     ELSE \E n \in actor[a].left :
       LET item == <<n, actor[a].kind>>
       IN /\ actor' = [actor EXCEPT ![a].left = @ \ {n}]
          /\ repairs' = [repairs EXCEPT ![item] = Requeued(@, actor[a].kind)]
          /\ tries' = [tries EXCEPT ![item] = IF repairs'[item] = repairs[item] THEN @ ELSE 0]
  /\ UNCHANGED <<publisher, aliases, articles, populated, doubled, abandoned, unbrand, twinned>>

\* runRepairBatch takes what waits and is due; what was tried may not be.
Select(a) ==
  /\ At(a, "select") /\ UNCHANGED stimuli
  /\ LET waiting == {n \in Publishers : LET i == repairs[<<n, actor[a].kind>>]
                                   IN i # Unknown /\ i.status = "pending" /\ i.attempts < MaxAttempts}
         count(n) == repairs[<<n, actor[a].kind>>].attempts
     IN \E due \in SUBSET waiting :
          /\ \A n \in waiting : count(n) = 0 => n \in due
          /\ actor' = [actor EXCEPT ![a] = [@ EXCEPT !.pc = "take", !.left = due,
               !.tried = [n \in Publishers |-> IF n \in due THEN count(n) ELSE 0]]]
  /\ UNCHANGED <<publisher, aliases, repairs, articles, populated, tries, doubled, abandoned, unbrand, twinned>>

AtWork(b, item) == Item(b) = item /\ actor[b].pc \in
  {"repair", "fetch", "store", "siteAlias", "denorm", "brand", "done", "again"}

TakeRepair(a) ==
  /\ At(a, "take") /\ UNCHANGED stimuli
  /\ IF actor[a].left = {} THEN Leave(a) /\ UNCHANGED <<repairs, tries, doubled>>
     ELSE \E n \in actor[a].left :
       LET item == <<n, actor[a].kind>>
       IN /\ actor' = [actor EXCEPT ![a] = [@ EXCEPT !.pc = "repair", !.name = n, !.left = @ \ {n}]]
          /\ repairs' = [repairs EXCEPT ![item].status = "processing"]
          /\ tries' = [tries EXCEPT ![item] = @ + 1]
          /\ doubled' = IF \/ \E b \in Actors \ {a} : AtWork(b, item)
                          \/ repairs[item] # [status |-> "pending", attempts |-> actor[a].tried[n]]
                       THEN doubled \union {item} ELSE doubled
  /\ UNCHANGED <<publisher, aliases, articles, populated, abandoned, unbrand, twinned>>

\* repairLogo brands the articles with a logo that is there already;
\* repairDomain leaves a domain that is there, and else samples an article.
Inspect(a) ==
  /\ At(a, "repair") /\ UNCHANGED stimuli
  /\ LET n == actor[a].name  entry == publisher[n]
     IN Go(a, IF actor[a].kind = "logo"
              THEN IF entry.logo THEN "denorm" ELSE IF entry.domain = Unknown THEN "again" ELSE "fetch"
              ELSE IF entry.domain # Unknown THEN "done"
              ELSE IF articles[n] = Unknown \/ articles[n].url = Unknown THEN "again" ELSE "store")
  /\ UNCHANGED <<publisher, aliases, repairs, articles, populated, tries, doubled, abandoned, unbrand, twinned>>

FetchLogo(a) ==
  /\ At(a, "fetch") /\ UNCHANGED stimuli
  /\ \E found \in BOOLEAN : Go(a, IF found THEN "store" ELSE "again")
  /\ UNCHANGED <<publisher, aliases, repairs, articles, populated, tries, doubled, abandoned, unbrand, twinned>>

StoreRepair(a) ==
  /\ At(a, "store") /\ UNCHANGED stimuli
  /\ LET n == actor[a].name
     IN IF actor[a].kind = "logo"
        THEN /\ publisher' = [publisher EXCEPT ![n].logo = TRUE]
             /\ Go(a, "denorm") /\ UNCHANGED twinned
        ELSE /\ publisher' = [publisher EXCEPT ![n].domain = Site]
             /\ Go(a, "siteAlias") /\ twinned' = TRUE
  /\ UNCHANGED <<aliases, repairs, articles, populated, tries, doubled, abandoned, unbrand>>

Retried(attempts) ==
  [status |-> IF attempts + 1 >= MaxAttempts THEN "failed" ELSE "pending", attempts |-> attempts + 1]

EndRepair(a) ==
  /\ actor[a].pc \in {"done", "again"} /\ UNCHANGED stimuli
  /\ repairs' = [repairs EXCEPT ![Item(a)] =
       IF At(a, "done") THEN [@ EXCEPT !.status = "done"]
       ELSE Retried(actor[a].tried[actor[a].name])]
  /\ Go(a, "take")
  /\ UNCHANGED <<publisher, aliases, articles, populated, tries, doubled, abandoned, unbrand, twinned>>

\* POST /sources/repair/replay, whatever the repair is at.
Replay(item) ==
  /\ repairs[item] # Unknown /\ Spend(1)
  /\ repairs' = [repairs EXCEPT ![item] = Pending] /\ tries' = [tries EXCEPT ![item] = 0]
  /\ UNCHANGED <<publisher, aliases, articles, populated, actor, doubled, abandoned, unbrand, twinned>>

\* refreshArticleCounts: a count is never taken back.
RefreshCounts ==
  /\ Spend(1) /\ populated' = populated \union {n \in Publishers : articles[n] # Unknown /\ publisher[n] # Unknown}
  /\ UNCHANGED <<publisher, aliases, repairs, articles, actor, tries, doubled, abandoned, unbrand, twinned>>

Perish(a) ==
  /\ ~At(a, "idle") /\ Spend(1) /\ Leave(a)
  /\ unbrand' = IF actor[a].pc \in {"siteAlias", "denorm", "brand"}
                THEN unbrand \union {actor[a].name} ELSE unbrand
  /\ abandoned' = IF Repairing(a) /\ AtWork(a, Item(a)) THEN abandoned \union {Item(a)} ELSE abandoned
  /\ twinned' = (twinned \/ (actor[a].domain = Site /\ actor[a].pc \in {"nameAlias", "siteAlias"}))
  /\ UNCHANGED <<publisher, aliases, repairs, articles, populated, tries, doubled>>
-----------------------------------------------------------------------------
SourceInit ==
  /\ publisher = [n \in Publishers |-> Unknown] /\ aliases = [k \in Publishers \union {Site} |-> Unknown]
  /\ repairs = [i \in Repairs |-> Unknown] /\ articles = [n \in Publishers |-> Unknown]
  /\ populated = {} /\ actor = [a \in Actors |-> AtRest]
  /\ tries = [i \in Repairs |-> 0] /\ doubled = {} /\ abandoned = {} /\ unbrand = {} /\ twinned = FALSE

SourceNext ==
  \/ RefreshCounts
  \/ \E item \in Repairs : Replay(item)
  \/ \E a \in Actors :
       \/ AskName(a) \/ AskDomain(a) \/ AskEntry(a) \/ Create(a) \/ AskLogo(a) \/ EnqueueLogo(a)
       \/ Decide(a) \/ ReadBrand(a) \/ QueueRepair(a) \/ Select(a) \/ TakeRepair(a) \/ Inspect(a)
       \/ FetchLogo(a) \/ StoreRepair(a) \/ EndRepair(a) \/ Perish(a)
       \/ \E failed \in BOOLEAN : Rename(a, failed) \/ AddAlias(a, failed) \/ WriteBrand(a, failed)
       \/ \E type \in Types : RunRepairs(a, type)
       \/ \E n \in Publishers : \/ \E d \in Domains : Publish(a, n, d)
                           \/ \E kind \in {"approve", "block"} : Review(a, n, kind)

SourceTypeOK ==
  /\ \A n \in Publishers : publisher[n] = Unknown \/ publisher[n].status \in {"pending", "approved", "blocked"}
  /\ \A k \in DOMAIN aliases : aliases[k] \in Publishers \union {Unknown}
  /\ \A i \in Repairs : repairs[i] = Unknown \/
       (repairs[i].attempts \in 0..MaxAttempts /\ repairs[i].status \in {"pending", "processing", "done", "failed"})
  /\ \A a \in Actors : actor[a].kind \in Kinds /\ actor[a].left \subseteq Publishers
  /\ populated \subseteq Publishers /\ unbrand \subseteq Publishers /\ doubled \subseteq Repairs
  /\ abandoned \subseteq Repairs /\ twinned \in BOOLEAN

BrandingOf(n) == \E a \in Actors : actor[a].name = n /\
  actor[a].pc \in {"review", "store", "siteAlias", "denorm", "brand"}

\* What the articles show of a publisher is what the registry says, unless they
\* were imported since, the publisher was blocked, or the last branding failed,
\* died, or was overtaken by a change of the registry; every change brands.
BrandingFollows ==
  \A n \in Publishers :
    articles[n] # Unknown /\ publisher[n] # Unknown /\ ~BrandingOf(n) /\ n \notin unbrand
      => articles[n].brand = publisher[n]

\* An alias always leads to a registered publisher, and two publishers share
\* a domain only when their registrations met, an alias was not written, or a
\* repair taught one of them the domain (it does not look at the aliases).
PublishersAreOne ==
  /\ \A k \in DOMAIN aliases : aliases[k] # Unknown => publisher[aliases[k]] # Unknown
  /\ twinned \/ \A m, n \in Publishers : m # n /\ publisher[m] # Unknown /\ publisher[n] # Unknown
       => publisher[m].domain # Site \/ publisher[n].domain # Site

\* A repair is tried MaxAttempts times from one queueing to the next, unless
\* two batches took it together; and it stays "processing" only when its batch
\* died at it - which nothing but an administrator's replay undoes.
RepairsEnd ==
  \A item \in Repairs :
    /\ tries[item] <= MaxAttempts \/ item \in doubled
    /\ repairs[item] # Unknown /\ repairs[item].status = "processing"
         => item \in abandoned \/ \E a \in Actors : AtWork(a, item)
=============================================================================
