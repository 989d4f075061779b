---------------------------- MODULE Translation ----------------------------
(* Translated pages: coin terms are masked before a text goes to a machine   *)
(* translator and put back afterwards, and the results are kept in Redis     *)
(* under the version of the mask dictionary, a counter of the process.       *)
EXTENDS Budget, Sequences, FiniteSets, SequencesExt

CONSTANTS ByLength,    \* the coin terms there may be, longest first
          Pages,       \* documents to show: sequences of [field, text]
          Servers,     \* processes
          Translating, \* requests
          MaxStrings   \* TRANSLATION_MAX_STRINGS_PER_REQUEST

ASSUME TranslationAssumption ==
  /\ MaxStrings \in Nat
  /\ \A page \in Pages : \A i \in DOMAIN page : page[i].text # <<>>

VARIABLES coins,        \* terms that FilteredCoin and CoinMaster hold
          maskTerms,    \* server -> maskTermsSorted, as a set
          dictVersion,  \* server -> dictVersion
          bootstrapped, \* servers whose dictionaryBootstrapped is set
          reload,       \* server -> the refresh under way: [on, terms]
          snippets,     \* Redis: set of [version, text, out, terms, bent]
          ask,          \* request -> [pc, server, page, version, terms, out, todo]
          named,        \* Ghost: <<version, terms>> that a server has had
          overtaken     \* Ghost: versions of calls that a refresh overtook

dictionaryVars == <<maskTerms, dictVersion, bootstrapped, reload, named>>
translationVars == <<coins, dictionaryVars, snippets, ask, overtaken>>

Lexicon == ToSet(ByLength)
NoAsk == [pc |-> "idle", server |-> "none", page |-> <<>>, version |-> 0,
          terms |-> {}, out |-> {}, todo |-> {}]
NoReload == [on |-> FALSE, terms |-> {}]
-----------------------------------------------------------------------------
(* Masking.  A text is a sequence of coin terms and words.                   *)

\* maskCoinTerms: the terms are replaced one after the other, the longest
\* first; a marker's number is the place of its term in originals.
Originals(source, dictionary) ==
  FlattenSeq([k \in DOMAIN ByLength |->
    SelectSeq(source, LAMBDA t : t = ByLength[k] /\ t \in dictionary)])

\* realignProviderPlaceholders: whatever the translator made of the markers,
\* they are numbered from left to right.
Realigned(seen, dictionary) ==
  [i \in DOMAIN seen |-> Cardinality({j \in 1..i : seen[j] \in dictionary})]

\* unmaskCoinTerms: the originals take the places of their numbers.
Unmasked(seen, words, source, dictionary) ==
  [i \in DOMAIN seen |-> IF seen[i] \in dictionary
                         THEN Originals(source, dictionary)[Realigned(seen, dictionary)[i]]
                         ELSE words[i]]

\* The translator may drop a marker.
Kept(source, dictionary) ==
  {source} \union {RemoveAt(source, i) : i \in {j \in DOMAIN source : source[j] \in dictionary}}
Rendering(source, dictionary, seen, words) ==
  [text |-> source, out |-> Unmasked(seen, words, source, dictionary), terms |-> dictionary,
   bent |-> seen # source]

\* googleTranslateV2Batch: all words are foreign.
Translated(source, dictionary) ==
  {Rendering(source, dictionary, seen, [i \in DOMAIN seen |-> "wort"]) :
     seen \in Kept(source, dictionary)}

\* myMemoryTranslateBatch, and a deployment without provider: a masked text
\* may come back as it was.
Echoed(source, dictionary) == {Rendering(source, dictionary, source, source)}

Answers(source, dictionary) == Translated(source, dictionary) \union Echoed(source, dictionary)

\* A batch that throws: the texts are their own translation.
Untranslated(source) == [text |-> source, out |-> source, terms |-> {}, bent |-> FALSE]
-----------------------------------------------------------------------------
(* The dictionary.                                                           *)

\* Coins are imported or dropped.
ListCoin(t) ==
  /\ Spend(1) /\ coins' = IF t \in coins THEN coins \ {t} ELSE coins \union {t}
  /\ UNCHANGED <<dictionaryVars, snippets, ask, overtaken>>

\* refreshCoinDictionary takes over what its queries found.
Learn(s, found) ==
  /\ maskTerms' = [maskTerms EXCEPT ![s] = found]
  /\ dictVersion' = [dictVersion EXCEPT ![s] = @ + 1]
  /\ named' = named \union {<<dictVersion[s] + 1, found>>}

\* At boot, and by a timer from then on.
RefreshTick(s) ==
  /\ ~reload[s].on /\ Spend(1)
  /\ reload' = [reload EXCEPT ![s] = [on |-> TRUE, terms |-> coins]]
  /\ UNCHANGED <<coins, maskTerms, dictVersion, bootstrapped, named, snippets, ask, overtaken>>

Refreshed(s) ==
  /\ reload[s].on /\ Learn(s, reload[s].terms) /\ reload' = [reload EXCEPT ![s] = NoReload]
  /\ UNCHANGED <<stimuli, coins, bootstrapped, snippets, ask, overtaken>>

ServerRestarts(s) ==
  /\ Spend(1) /\ maskTerms' = [maskTerms EXCEPT ![s] = {}]
  /\ dictVersion' = [dictVersion EXCEPT ![s] = 0] /\ bootstrapped' = bootstrapped \ {s}
  /\ reload' = [reload EXCEPT ![s] = NoReload]
  /\ ask' = [r \in Translating |-> IF ask[r].server = s THEN NoAsk ELSE ask[r]]
  /\ UNCHANGED <<coins, snippets, named, overtaken>>
-----------------------------------------------------------------------------
(* A request.                                                                *)

\* What translateNewsArticleDtos, translateCommentDtos and
\* translateUnifiedSearchResponse collect: never publishers, coins or users.
NewsFields == {"title", "summary", "subtitle", "category"}
CommentFields == {"body"}
SearchFields == {"title", "summary", "subtitle", "board"}
Translatable == NewsFields \union CommentFields \union SearchFields

\* translateBatch works on the first MaxStrings of them, each text once.
Work(page) ==
  LET strings == SelectSeq(page, LAMBDA part : part.field \in Translatable)
  IN  {strings[i].text : i \in {j \in DOMAIN strings : j <= MaxStrings}}

\* A request whose language is not English, and which the switches let
\* translate; others are answered with the page as it is.
AskTranslation(r, s, page) ==
  /\ ask[r].pc \in {"idle", "shown"} /\ Spend(1)
  /\ LET ready == s \in bootstrapped /\ dictVersion[s] > 0
     IN  ask' = [ask EXCEPT ![r] = [NoAsk EXCEPT !.pc = IF ready THEN "mget" ELSE "load",
           !.server = s, !.page = page, !.version = dictVersion[s]]]
  /\ UNCHANGED <<coins, dictionaryVars, snippets, overtaken>>

\* ensureDictionaryLoaded, for a process's first request even when the boot
\* has loaded one; its failure fails the request.
LoadDictionary(r) ==
  LET s == ask[r].server
  IN  /\ ask[r].pc = "load"
      /\ \/ /\ Learn(s, coins) /\ bootstrapped' = bootstrapped \union {s} /\ UNCHANGED stimuli
            /\ ask' = [ask EXCEPT ![r].pc = "mget", ![r].version = dictVersion[s] + 1]
         \/ /\ Spend(1) /\ ask' = [ask EXCEPT ![r] = NoAsk]
            /\ UNCHANGED <<maskTerms, dictVersion, named, bootstrapped>>
      /\ UNCHANGED <<coins, reload, snippets, overtaken>>

\* MGET of the keys under the version read before; an error counts as a miss.
\* What is missing is masked with the terms of now and given to the provider.
Lookup(r) ==
  LET a == ask[r]
      cached == {e \in snippets : e.version = a.version /\ e.text \in Work(a.page)}
  IN  /\ a.pc = "mget"
      /\ \E found \in {cached, {}} :
           LET missing == Work(a.page) \ {e.text : e \in found}
           IN  /\ IF found = cached THEN UNCHANGED stimuli ELSE Spend(1)
               /\ ask' = [ask EXCEPT ![r].pc = IF missing = {} THEN "shown" ELSE "provider",
                    ![r].terms = maskTerms[a.server], ![r].todo = missing,
                    ![r].out = {[text |-> e.text, out |-> e.out, terms |-> e.terms,
                                 bent |-> e.bent] : e \in found}]
      /\ overtaken' = IF dictVersion[a.server] = a.version THEN overtaken
                      ELSE overtaken \union {a.version}
      /\ UNCHANGED <<coins, dictionaryVars, snippets>>

\* callTranslationProvider answers, or throws.
Provide(r) ==
  LET a == ask[r]
  IN  /\ a.pc = "provider"
      /\ \/ /\ \E made \in [a.todo -> UNION {Answers(t, a.terms) : t \in a.todo}] :
                 /\ \A t \in a.todo : made[t].text = t
                 /\ ask' = [ask EXCEPT ![r].pc = "store",
                                       ![r].out = @ \union {made[t] : t \in a.todo}]
            /\ UNCHANGED stimuli
         \/ /\ Spend(1)
            /\ ask' = [ask EXCEPT ![r].pc = "store",
                                  ![r].out = @ \union {Untranslated(t) : t \in a.todo}]
      /\ UNCHANGED <<coins, dictionaryVars, snippets, overtaken>>

\* One SETEX per text, but not of one that is its own translation; an error
\* is ignored.
StoreSnippet(r, e) ==
  LET a == ask[r]
  IN  /\ a.pc = "store" /\ e \in a.out /\ e.text \in a.todo
      /\ \/ /\ snippets' = IF e.out = e.text THEN snippets
                 ELSE {x \in snippets : x.version # a.version \/ x.text # e.text} \union
                      {[version |-> a.version, text |-> e.text, out |-> e.out,
                        terms |-> e.terms, bent |-> e.bent]}
            /\ UNCHANGED stimuli
         \/ Spend(1) /\ UNCHANGED snippets
      /\ ask' = [ask EXCEPT ![r].todo = @ \ {e.text},
                            ![r].pc = IF a.todo = {e.text} THEN "shown" ELSE "store"]
      /\ UNCHANGED <<coins, dictionaryVars, overtaken>>

SnippetExpires(e) ==
  /\ Spend(1) /\ snippets' = snippets \ {e}
  /\ UNCHANGED <<coins, dictionaryVars, ask, overtaken>>
-----------------------------------------------------------------------------
TranslationInit ==
  /\ coins = {ByLength[1]} /\ dictVersion = [s \in Servers |-> 0]
  /\ maskTerms = [s \in Servers |-> {}] /\ bootstrapped = {}
  /\ reload = [s \in Servers |-> NoReload]
  /\ snippets = {} /\ ask = [r \in Translating |-> NoAsk] /\ named = {} /\ overtaken = {}

TranslationNext ==
  \/ \E t \in Lexicon : ListCoin(t)
  \/ \E s \in Servers : RefreshTick(s) \/ Refreshed(s) \/ ServerRestarts(s)
  \/ \E r \in Translating :
       \/ \E s \in Servers, page \in Pages : AskTranslation(r, s, page)
       \/ LoadDictionary(r) \/ Lookup(r) \/ Provide(r)
       \/ \E e \in ask[r].out : StoreSnippet(r, e)
  \/ \E e \in snippets : SnippetExpires(e)
-----------------------------------------------------------------------------
\* The coin terms of a text stand in its translation where they stood in the
\* text, unless the translator dropped a marker, or the longer of two terms
\* comes after a shorter one: markers are numbered by length and put back from
\* left to right.
InOrder(text, dictionary) ==
  SelectSeq(text, LAMBDA t : t \in dictionary) = Originals(text, dictionary)
TermsAreKept ==
  \A r \in Translating : ask[r].pc = "shown" =>
    /\ {e.text : e \in ask[r].out} = Work(ask[r].page)
    /\ \A e \in ask[r].out : e.bent \/ ~InOrder(e.text, e.terms) \/
         /\ Len(e.out) = Len(e.text)
         /\ \A i \in DOMAIN e.text : e.text[i] \in e.terms => e.out[i] = e.text[i]

\* A cached translation was masked with the dictionary its key names, whatever
\* refreshes and restarts its request met, unless a refresh overtook one.
\* (Two servers, or two lives of one, may give one version to two dictionaries.)
SnippetsMatchVersions ==
  \A e \in snippets : <<e.version, e.terms>> \in named \/ e.version \in overtaken

TranslationTypeOK ==
  /\ coins \subseteq Lexicon /\ \A s \in Servers : maskTerms[s] \subseteq Lexicon
  /\ \A s \in Servers : dictVersion[s] > 0 => <<dictVersion[s], maskTerms[s]>> \in named
  /\ \A r \in Translating : ask[r].pc \in {"mget", "provider", "store"} => ask[r].version > 0

=============================================================================
