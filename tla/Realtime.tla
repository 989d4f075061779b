------------------------------ MODULE Realtime ------------------------------
(* The WebSocket server of one API process: sockets, authentication that may *)
(* end after the socket has closed or been bound to somebody else, symbol    *)
(* subscriptions counted in Redis, portfolio subscriptions checked against a *)
(* cache of wallet ownership, and who receives the fan-outs.  What a promise *)
(* still has to do is a task; tasks of a socket run in any order.            *)
EXTENDS Budget, Integers, FiniteSets

CONSTANTS Sockets,   \* connections, each opened once
          Owners,    \* users
          Addresses, \* wallet addresses
          Symbols    \* coin symbols

ASSUME RealtimeAssumption == IsFiniteSet(Sockets)

VARIABLES socket,   \* socket -> "new", "open", "closing" or "closed"
          bound,    \* wsNotifyUserId: socket -> set of at most one user
          fanUser,  \* clientFanoutUserId, which nothing clears
          fanSub,   \* sockets with portfolioFanoutSubscribed
          listed,   \* clientsByUser: pairs <<user, socket>>
          symbols,  \* clientSymbols
          symref,   \* stream:price:symref: symbol -> count kept in Redis
          deltas,   \* HINCRBYs under way: pairs <<symbol, +1 or -1>> -> how many
          watched,  \* clientAddresses
          owns,     \* WalletAddress documents: pairs <<user, address>>
          cached,   \* walletOwnershipCache: user -> {} or {set of addresses}
          tasks,    \* continuations under way
          everOwned, everBound, \* ghosts: pairs that held at some time
          leaked    \* ghost: symbol -> references no socket will give back

realtimeVars == <<socket, bound, fanUser, fanSub, listed, symbols, symref, deltas,
                  watched, owns, cached, tasks, everOwned, everBound, leaked>>
binding  == <<bound, fanUser, listed, everBound>>
pricing  == <<symbols, symref, deltas, leaked>>
wallets  == <<owns, everOwned>>
watching == <<watched, fanSub>>

Live(w) == socket[w] \in {"open", "closing"}
Closing(w) == socket' = IF Live(w) THEN [socket EXCEPT ![w] = "closing"] ELSE socket
-----------------------------------------------------------------------------
\* Slip: a rebind stays in the previous user's list.
BindBeside(w, u) ==
  /\ bound' = [bound EXCEPT ![w] = {u}]
  /\ fanUser' = [fanUser EXCEPT ![w] = {u}]
  /\ listed' = listed \union {<<u, w>>}
  /\ everBound' = everBound \union {<<w, u>>}

\* bindNotifyUser: leave the previous user's list, enter this one's, and warm
\* the ownership cache.  Addresses watched under the previous user stay.
Bind(w, u) ==
  /\ bound' = [bound EXCEPT ![w] = {u}]
  /\ fanUser' = [fanUser EXCEPT ![w] = {u}]
  /\ listed' = (listed \ {<<v, w>> : v \in bound[w] \ {u}}) \union {<<u, w>>}
  /\ everBound' = everBound \union {<<w, u>>}
Task(w, do, u, req, found) ==
  [id |-> stimuli, sock |-> w, do |-> do, user |-> u, req |-> req, found |-> found]
\* The same promise, going on at its next await.
Then(t, do, u, found) == [t EXCEPT !.do = do, !.user = u, !.found = found]

\* 'connection', with or without a protocol-1 token in the URL.
Connect(w) ==
  /\ socket[w] = "new" /\ Spend(1) /\ socket' = [socket EXCEPT ![w] = "open"]
  /\ \/ UNCHANGED <<binding, tasks>>
     \/ \E u \in Owners : /\ Bind(w, u)
                          /\ tasks' = tasks \union {Task(w, "load", u, {}, {})}
  /\ UNCHANGED <<pricing, watching, wallets, cached>>

\* ws_auth and notification_subscribe: bind after an awaited look at the user.
Authenticate(w, u) ==
  /\ Live(w) /\ Spend(1)
  /\ tasks' = tasks \union {Task(w, "bind", u, {}, {})}
  /\ UNCHANGED <<socket, binding, pricing, watching, wallets, cached>>

FinishBind(t) ==
  /\ t.do = "bind"
  /\ \/ /\ Bind(t.sock, t.user) /\ UNCHANGED socket
        /\ tasks' = (tasks \ {t}) \union {Then(t, "load", t.user, {})}
     \/ Closing(t.sock) /\ tasks' = tasks \ {t} /\ UNCHANGED binding
  /\ UNCHANGED <<stimuli, pricing, watching, wallets, cached>>

\* prefetchOwnedAddresses: the query, then the cache and whoever awaits it.
Load(t) ==
  /\ t.do \in {"load", "subload"}
  /\ tasks' = (tasks \ {t}) \union
       {Then(t, IF t.do = "load" THEN "store" ELSE "substore", t.user,
             {a \in Addresses : <<t.user, a>> \in owns})}
  /\ UNCHANGED <<stimuli, socket, binding, pricing, watching, wallets, cached>>

\* applySubscription: the requested addresses the user owns are ADDED.
Watch(w, req, owned) ==
  /\ watched' = [watched EXCEPT ![w] = IF Live(w) THEN @ \union (req \intersect owned) ELSE @]
  /\ fanSub' = IF watched'[w] # {} THEN fanSub \union {w} ELSE fanSub

Store(t) ==
  /\ t.do \in {"store", "substore"}
  /\ cached' = [cached EXCEPT ![t.user] = {t.found}]
  /\ IF t.do = "substore" THEN Watch(t.sock, t.req, t.found) ELSE UNCHANGED watching
  /\ tasks' = tasks \ {t}
  /\ UNCHANGED <<stimuli, socket, binding, pricing, wallets>>

\* portfolio_subscribe: needs a bound user, awaits the verification check...
PortfolioSubscribe(w, req) ==
  /\ Live(w) /\ Spend(1)
  /\ IF bound[w] = {} THEN Closing(w) /\ UNCHANGED tasks
     ELSE tasks' = tasks \union {Task(w, "sub", "unknown", req, {})} /\ UNCHANGED socket
  /\ UNCHANGED <<binding, pricing, watching, wallets, cached>>

\* ...then handlePortfolioSubscribe, for whoever is bound by now.
HandleSubscribe(t) ==
  LET w == t.sock
  IN  /\ t.do = "sub"
      /\ \/ /\ bound[w] = {} /\ tasks' = tasks \ {t} /\ UNCHANGED watching
         \/ \E u \in bound[w] :
              \/ /\ cached[u] # {}
                 /\ \E owned \in cached[u] :
                      /\ watched' = [watched EXCEPT ![w] = t.req \intersect owned]
                      /\ fanSub' = IF watched'[w] # {} THEN fanSub \union {w} ELSE fanSub
                 /\ tasks' = tasks \ {t}
              \/ /\ cached[u] = {}
                 /\ watched' = [watched EXCEPT ![w] = {}] /\ UNCHANGED fanSub
                 /\ tasks' = (tasks \ {t}) \union {Then(t, "subload", u, {})}
      /\ UNCHANGED <<stimuli, socket, binding, pricing, wallets, cached>>

RejectSubscribe(t) ==
  /\ t.do = "sub" /\ Closing(t.sock) /\ tasks' = tasks \ {t}
  /\ UNCHANGED <<stimuli, binding, pricing, watching, wallets, cached>>

PortfolioUnsubscribe(w) ==
  /\ Live(w) /\ watched[w] # {} /\ Spend(1) /\ watched' = [watched EXCEPT ![w] = {}]
  /\ UNCHANGED <<socket, binding, pricing, fanSub, wallets, cached, tasks>>
-----------------------------------------------------------------------------
\* replaceClientSymbols: every difference sends an HINCRBY nobody awaits.
Count(s, n) == [deltas EXCEPT ![<<s, n>>] = @ + 1]
Subscribe(w, syms) ==
  /\ Live(w) /\ syms # symbols[w] /\ Spend(1)
  /\ symbols' = [symbols EXCEPT ![w] = syms]
  /\ deltas' = [d \in DOMAIN deltas |-> deltas[d] +
       IF d[1] \in (IF d[2] = 1 THEN syms \ symbols[w] ELSE symbols[w] \ syms) THEN 1 ELSE 0]
  /\ UNCHANGED <<socket, binding, symref, leaked, watching, wallets, cached, tasks>>

HIncrBy(s, n) ==
  /\ deltas[<<s, n>>] > 0 /\ deltas' = [deltas EXCEPT ![<<s, n>>] = @ - 1]
  /\ \/ symref' = [symref EXCEPT ![s] = @ + n] /\ UNCHANGED <<stimuli, leaked>>
     \/ Spend(1) /\ leaked' = [leaked EXCEPT ![s] = @ - n] /\ UNCHANGED symref
  /\ UNCHANGED <<symbols, socket, binding, watching, wallets, cached, tasks>>

\* Slip: a socket that closes gives its references not back.
CloseKeepingSymbols(w) ==
  /\ Live(w) /\ (socket[w] = "open" => Spend(1)) /\ (socket[w] = "closing" => UNCHANGED stimuli)
  /\ socket' = [socket EXCEPT ![w] = "closed"]
  /\ listed' = listed \ {<<u, w>> : u \in bound[w]}
  /\ bound' = [bound EXCEPT ![w] = {}]
  /\ symbols' = [symbols EXCEPT ![w] = {}] /\ watched' = [watched EXCEPT ![w] = {}]
  /\ UNCHANGED <<deltas, fanUser, everBound, fanSub, symref, leaked, wallets, cached, tasks>>

\* 'close': also five seconds after a connection that asked for nothing.
CloseEvent(w) ==
  /\ Live(w) /\ (socket[w] = "open" => Spend(1)) /\ (socket[w] = "closing" => UNCHANGED stimuli)
  /\ socket' = [socket EXCEPT ![w] = "closed"]
  /\ listed' = listed \ {<<u, w>> : u \in bound[w]}
  /\ bound' = [bound EXCEPT ![w] = {}]
  /\ deltas' = [d \in DOMAIN deltas |-> deltas[d] +
                  IF d[2] = -1 /\ d[1] \in symbols[w] THEN 1 ELSE 0]
  /\ symbols' = [symbols EXCEPT ![w] = {}] /\ watched' = [watched EXCEPT ![w] = {}]
  /\ UNCHANGED <<fanUser, everBound, fanSub, symref, leaked, wallets, cached, tasks>>

IdleClose(w) ==
  /\ socket[w] = "open" /\ symbols[w] = {} /\ watched[w] = {} /\ bound[w] = {}
  /\ Closing(w)
  /\ UNCHANGED <<stimuli, binding, pricing, watching, wallets, cached, tasks>>

\* disconnectNotifyClientsForUser, after an account was deleted.
Disconnect(u) ==
  /\ (\E w \in Sockets : <<u, w>> \in listed) /\ Spend(1)
  /\ socket' = [w \in Sockets |-> IF <<u, w>> \in listed /\ socket[w] = "open"
                                  THEN "closing" ELSE socket[w]]
  /\ listed' = {p \in listed : p[1] # u}
  /\ UNCHANGED <<bound, fanUser, everBound, pricing, watching, wallets, cached, tasks>>

\* Wallets come and go; the process that serves the change drops its entry.
AddWallet(u, a) ==
  /\ <<u, a>> \notin owns /\ Spend(1)
  /\ owns' = owns \union {<<u, a>>} /\ everOwned' = everOwned \union {<<u, a>>}
  /\ cached' = [cached EXCEPT ![u] = {}]
  /\ UNCHANGED <<socket, binding, pricing, watching, tasks>>
RemoveWallet(u, a) ==
  /\ <<u, a>> \in owns /\ Spend(1) /\ owns' = owns \ {<<u, a>>}
  /\ cached' = [cached EXCEPT ![u] = {}]
  /\ UNCHANGED <<everOwned, socket, binding, pricing, watching, tasks>>
EntryExpires(u) ==
  /\ cached[u] # {} /\ Spend(1) /\ cached' = [cached EXCEPT ![u] = {}]
  /\ UNCHANGED <<socket, binding, pricing, watching, wallets, tasks>>

\* The process dies: no 'close' handler runs, references stay in Redis.
RealtimeCrash ==
  /\ (\E w \in Sockets : Live(w)) /\ Spend(1)
  /\ socket' = [w \in Sockets |-> IF Live(w) THEN "closed" ELSE socket[w]]
  /\ bound' = [w \in Sockets |-> {}] /\ listed' = {} /\ tasks' = {}
  /\ leaked' = [s \in Symbols |-> leaked[s] + Cardinality({w \in Sockets : s \in symbols[w]})
                  - deltas[<<s, 1>>] + deltas[<<s, -1>>]]
  /\ deltas' = [d \in DOMAIN deltas |-> 0]
  /\ symbols' = [w \in Sockets |-> {}] /\ watched' = [w \in Sockets |-> {}]
  /\ cached' = [u \in Owners |-> {}] /\ fanSub' = {}
  /\ UNCHANGED <<fanUser, everBound, symref, wallets>>
-----------------------------------------------------------------------------
RealtimeInit ==
  /\ socket = [w \in Sockets |-> "new"]
  /\ bound = [w \in Sockets |-> {}] /\ fanUser = [w \in Sockets |-> {}]
  /\ fanSub = {} /\ listed = {} /\ tasks = {} /\ everBound = {}
  /\ symbols = [w \in Sockets |-> {}] /\ symref = [s \in Symbols |-> 0]
  /\ deltas = [d \in Symbols \X {1, -1} |-> 0] /\ leaked = [s \in Symbols |-> 0]
  /\ watched = [w \in Sockets |-> {}]
  /\ owns = {} /\ everOwned = {} /\ cached = [u \in Owners |-> {}]

RealtimeNext ==
  \/ \E w \in Sockets :
       \/ Connect(w) \/ PortfolioUnsubscribe(w) \/ CloseEvent(w) \/ IdleClose(w)
       \/ \E u \in Owners : Authenticate(w, u)
       \/ \E req \in (SUBSET Addresses) \ {{}} : PortfolioSubscribe(w, req)
       \/ \E syms \in SUBSET Symbols : Subscribe(w, syms)
  \/ \E t \in tasks : FinishBind(t) \/ Load(t) \/ Store(t) \/ HandleSubscribe(t) \/ RejectSubscribe(t)
  \/ \E s \in Symbols, n \in {1, -1} : HIncrBy(s, n)
  \/ \E u \in Owners : \/ Disconnect(u) \/ EntryExpires(u)
                       \/ \E a \in Addresses : AddWallet(u, a) \/ RemoveWallet(u, a)
  \/ RealtimeCrash
-----------------------------------------------------------------------------
\* Whatever order authentications, rebinds, closes and account deletions take:
\* a user's notices go only to sockets bound to that user, and the portfolio
\* fan-out reaches a subscribed socket only as the user it is bound to.
NoticesReachTheirUser ==
  /\ \A p \in listed : bound[p[2]] = {p[1]}
  /\ \A w \in fanSub : Live(w) => fanUser[w] = bound[w] /\ bound[w] # {}

\* broadcastPortfolioMessage: the sockets a message about these addresses goes to.
Receivers(addresses) == {w \in Sockets : socket[w] = "open" /\ watched[w] \intersect addresses # {}}

\* A message about a wallet goes only to sockets that were bound to a user who
\* has owned it, whichever task subscribed them and however stale the cache the
\* subscription was checked with.
WatchedWereOwned == \A a \in Addresses : \A w \in Receivers({a}) :
  \E u \in Owners : <<w, u>> \in everBound /\ <<u, a>> \in everOwned

\* The count in Redis, with the increments under way, is the number of sockets
\* that watch the symbol - so a watched symbol is streamed - but for references
\* a death of the process or a failed increment left behind.
SymbolReferencesAdd == \A s \in Symbols :
  symref[s] + deltas[<<s, 1>>] - deltas[<<s, -1>>]
    = Cardinality({w \in Sockets : s \in symbols[w]}) + leaked[s]

\* All three: sockets get what their users subscribed to, and that only.
SubscriptionsAreSound == NoticesReachTheirUser /\ WatchedWereOwned /\ SymbolReferencesAdd

RealtimeTypeOK ==
  /\ socket \in [Sockets -> {"new", "open", "closing", "closed"}]
  /\ \A w \in Sockets : Cardinality(bound[w]) <= 1 /\ watched[w] \subseteq Addresses
  /\ owns \subseteq everOwned /\ listed \subseteq Owners \X Sockets
  /\ \A d \in DOMAIN deltas : deltas[d] \in Nat

=============================================================================
