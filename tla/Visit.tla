------------------------------- MODULE Visit -------------------------------
(***************************************************************************)
(* A visit to the web site: the redirects it is led through, of which each *)
(* worker of the site keeps a copy, and the campaign it is credited to     *)
(* (middleware.ts, legacyQuery.ts, attribution.ts, and the console's and   *)
(* the site's side of the redirects in admin.routes.ts and                 *)
(* content.routes.ts).                                                     *)
(*                                                                         *)
(* A URL is a path, whether a slash and whether a page number follows it,  *)
(* and what its query holds: parameters of the old site, a source and      *)
(* other tags of a campaign.  The console takes every redirect, one that   *)
(* closes a circle too.  What a browser does of itself is left out: that it*)
(* gives up after so many redirects, and remembers the permanent ones.     *)
(***************************************************************************)
EXTENDS Naturals, FiniteSets

CONSTANTS
  Workers,
  Paths,
  STATIC_REDIRECTS,       \* a function from some of the paths
  Targets,                \* what the editor enters: path and slash, or Offsite
  Entered,                \* the table at first
  Links,                  \* what a visitor opens: a URL and the site it is on
  MaxTurns                \* bound on edits and failed fetches, in all

None == "none"

Offsite == [path |-> None, slash |-> FALSE]

(* The sources and tags of campaigns.                                      *)
Words == {None} \cup {k.url.source : k \in Links} \cup {k.url.tag : k \in Links}

URLs == [path : Paths, slash : BOOLEAN, page : BOOLEAN, legacy : BOOLEAN,
         source : Words, tag : Words]

ASSUME VisitAssumption ==
  /\ None \notin Paths
  /\ \E S \in SUBSET Paths : STATIC_REDIRECTS \in [S -> Paths]
  /\ \A t \in Targets : t = Offsite \/ (t.path \in Paths /\ t.slash \in BOOLEAN)
  /\ Links # {} /\ \A k \in Links : k.url \in URLs
  /\ \E S \in SUBSET Paths : Entered \in [S -> Targets]
  /\ MaxTurns \in Nat

VARIABLES
  redirects,              \* the table
  fetched,                \* the answer the site keeps to its last fetch
  cache, fresh,           \* the map of each worker; those not yet expired
  turns,
  phase, url, soft,       \* away, asking, page; the address; a link within the page
  referrer,               \* document.referrer, when it is another site
  stored,                 \* the session's record (sessionStorage works)
  \* What happened, for the properties:
  opened,                 \* what the link named that is being opened
  first, landing, loose,  \* the first credit, the first page, tags alone before
  seen, met, alone        \* this trip's addresses and maps; a hop for the query only

caches == <<fetched, cache, fresh, turns>>
address == <<phase, url, soft, referrer, opened>>
session == <<stored, first, landing, loose>>
trip == <<seen, met, alone>>
vars == <<redirects, caches, address, session, trip>>

NoCredit == [source |-> None, tag |-> None, referrer |-> None]

NoRecord == [credit |-> NoCredit, landing |-> None]

NoMap == [p \in {} |-> Offsite]

Home == CHOOSE k \in Links : TRUE

Init ==
  /\ redirects = Entered /\ fetched = Entered
  /\ cache = [w \in Workers |-> NoMap] /\ fresh = {}
  /\ turns = 0
  /\ phase = "away" /\ url = Home.url /\ soft = FALSE /\ referrer = None
  /\ stored = NoRecord
  /\ opened = NoCredit /\ first = NoCredit /\ landing = None /\ loose = FALSE
  /\ seen = {} /\ met = {} /\ alone = FALSE

----------------------------------------------------------------------------
(* The console: POST and DELETE /redirects.                                *)

(* The path a redirect leads on to: a trailing slash is dropped on the way *)
Onward(r, p) ==
  IF p \in DOMAIN STATIC_REDIRECTS THEN {STATIC_REDIRECTS[p]}
  ELSE IF p \in DOMAIN r /\ r[p] # Offsite THEN {r[p].path} ELSE {}

(* The path is on a circle, or on the way to one.                          *)
LeadsRound(r, p) ==
  \E S \in SUBSET Paths : p \in S /\ \A q \in S : Onward(r, q) \cap S # {}

Edit ==
  /\ turns < MaxTurns /\ turns' = turns + 1
  /\ UNCHANGED <<fetched, cache, fresh, address, session, trip>>

Upsert(p, t) ==
  /\ redirects' = [q \in DOMAIN redirects \cup {p} |-> IF q = p THEN t ELSE redirects[q]]
  /\ Edit

Delete(p) ==
  /\ p \in DOMAIN redirects
  /\ redirects' = [q \in DOMAIN redirects \ {p} |-> redirects[q]]
  /\ Edit

----------------------------------------------------------------------------
(* The copies: the fetch may answer what the site fetched up to five       *)
(* minutes ago; a worker keeps its map for five minutes more.              *)

Refetch ==
  /\ fetched # redirects
  /\ fetched' = redirects
  /\ UNCHANGED <<redirects, cache, fresh, turns, address, session, trip>>

Expire(w) ==
  /\ w \in fresh
  /\ fresh' = fresh \ {w}
  /\ UNCHANGED <<redirects, fetched, cache, turns, address, session, trip>>

(* Slip: the map is kept as long as the worker lives.                      *)
GetRedirectsOnce(w, m) ==
  IF cache[w] # NoMap
    THEN m = cache[w] /\ UNCHANGED caches
    ELSE m = fetched /\ cache' = [cache EXCEPT ![w] = m] /\ UNCHANGED <<fetched, fresh, turns>>

(* getDynamicRedirects, for the map m that it answers.                     *)
GetDynamicRedirects(w, m) ==
  \/ /\ w \in fresh
     /\ m = cache[w]
     /\ UNCHANGED caches
  \/ /\ w \notin fresh
     /\ m = fetched
     /\ cache' = [cache EXCEPT ![w] = m] /\ fresh' = fresh \cup {w}
     /\ UNCHANGED <<fetched, turns>>
  \/ /\ w \notin fresh /\ turns < MaxTurns
     /\ m = cache[w]
     /\ turns' = turns + 1
     /\ UNCHANGED <<fetched, cache, fresh>>

----------------------------------------------------------------------------
(* The middleware.                                                         *)

Go(u) ==
  /\ url' = u
  /\ seen' = seen \cup {url}
  /\ UNCHANGED <<redirects, phase, soft, referrer, opened, session>>

(* Slip: the old site's parameters stay.                                   *)
KeepQuery(u) == u

(* cleanLegacyQuery.                                                       *)
CleanQuery(u) == [u EXCEPT !.legacy = FALSE]

(* Slip: a redirect has no query.                                          *)
RedirectBare(p, slash) ==
  Go([url EXCEPT !.path = p, !.slash = slash, !.page = FALSE, !.legacy = FALSE,
                 !.source = None, !.tag = None])

(* redirectTo; the query goes along, without what is the old site's.       *)
RedirectTo(p, slash) ==
  Go(CleanQuery([url EXCEPT !.path = p, !.slash = slash, !.page = FALSE]))

Asks == phase = "asking"

DropSlash ==
  /\ Asks /\ url.slash
  /\ Go([url EXCEPT !.slash = FALSE])
  /\ UNCHANGED <<caches, met, alone>>

(* Slip: the query is cleaned in a redirect of its own.                    *)
FollowStaticInTwo ==
  /\ Asks /\ ~url.slash /\ url.path \in DOMAIN STATIC_REDIRECTS
  /\ IF url.legacy
       THEN Go(CleanQuery(url)) /\ alone' = TRUE
       ELSE RedirectTo(STATIC_REDIRECTS[url.path], FALSE) /\ UNCHANGED alone
  /\ UNCHANGED <<caches, met>>

FollowStatic ==
  /\ Asks /\ ~url.slash /\ url.path \in DOMAIN STATIC_REDIRECTS
  /\ RedirectTo(STATIC_REDIRECTS[url.path], FALSE)
  /\ UNCHANGED <<caches, met, alone>>

(* What a page load notes: captureAttribution.                             *)
HasSource(c) == c.source # None \/ c.referrer # None

Merge(s, incoming) ==
  [credit |-> IF HasSource(s.credit) THEN s.credit
              ELSE [f \in DOMAIN NoCredit |->
                      IF incoming.credit[f] # None THEN incoming.credit[f] ELSE s.credit[f]],
   landing |-> IF s.landing # None THEN s.landing ELSE incoming.landing]

ReadAttribution ==
  [credit |-> [source |-> url.source, tag |-> url.tag, referrer |-> referrer],
   landing |-> url.path]

(* What a form carries: getAttribution.                                    *)
GetAttribution == Merge(stored, ReadAttribution)

(* The trip is over.                                                       *)
Arrive == seen' = {} /\ alone' = FALSE /\ soft' = FALSE /\ opened' = NoCredit

Serve ==
  /\ phase' = "page"
  /\ IF soft
       THEN UNCHANGED <<stored, first, landing, loose>>
       ELSE /\ stored' = Merge(stored, ReadAttribution)
            /\ landing' = IF landing = None THEN url.path ELSE landing
            /\ first' = IF HasSource(first) THEN first
                        ELSE IF HasSource(opened) THEN opened ELSE first
            /\ loose' = (loose \/ (~HasSource(opened) /\ opened.tag # None))
  /\ Arrive
  /\ UNCHANGED <<redirects, url, referrer>>

(* The lookup, and the three ways it ends.                                 *)
LookUp(w) ==
  /\ Asks /\ ~url.slash /\ url.path \notin DOMAIN STATIC_REDIRECTS
  /\ \E m \in {cache[w], fetched} :
       /\ GetDynamicRedirects(w, m)
       /\ met' = met \cup {m}
       /\ \/ /\ url.path \in DOMAIN m /\ m[url.path] # Offsite
             /\ RedirectTo(m[url.path].path, m[url.path].slash)
             /\ UNCHANGED alone
          \/ /\ url.path \in DOMAIN m /\ m[url.path] = Offsite
             /\ phase' = "away"
             /\ Arrive
             /\ url' = Home.url /\ referrer' = None
             /\ UNCHANGED <<redirects, session>>
          \/ /\ url.path \notin DOMAIN m /\ url.legacy
             /\ Go(CleanQuery(url))
             /\ alone' = TRUE
          \/ /\ url.path \notin DOMAIN m /\ ~url.legacy
             /\ Serve

----------------------------------------------------------------------------
(* The visitor.                                                            *)

Depart(u) ==
  /\ phase' = "asking" /\ url' = u
  /\ seen' = {} /\ met' = {} /\ alone' = FALSE
  /\ UNCHANGED <<redirects, caches, session>>

(* A link elsewhere, an ad, a bookmark: a full page load in the session.   *)
Open(k) ==
  /\ phase \in {"away", "page"}
  /\ Depart(k.url)
  /\ soft' = FALSE /\ referrer' = k.referrer
  /\ opened' = [source |-> k.url.source, tag |-> k.url.tag, referrer |-> k.referrer]

(* A link of the site.                                                     *)
Navigate(p) ==
  /\ phase = "page" /\ p # url.path
  /\ Depart([path |-> p, slash |-> FALSE, page |-> FALSE, legacy |-> FALSE,
             source |-> None, tag |-> None])
  /\ soft' = TRUE
  /\ UNCHANGED <<referrer, opened>>

(* The tab is closed; the next link starts a session.                      *)
Close ==
  /\ phase = "page"
  /\ phase' = "away" /\ url' = Home.url /\ referrer' = None
  /\ stored' = NoRecord
  /\ first' = NoCredit /\ landing' = None /\ loose' = FALSE
  /\ UNCHANGED <<redirects, caches, soft, opened, trip>>

----------------------------------------------------------------------------
Middleware == DropSlash \/ FollowStatic \/ \E w \in Workers : LookUp(w)

Editor ==
  \E p \in Paths : Delete(p) \/ \E t \in Targets : Upsert(p, t)

Next ==
  \/ Editor \/ Refetch \/ \E w \in Workers : Expire(w)
  \/ Middleware
  \/ \E k \in Links : Open(k)
  \/ \E p \in Paths : Navigate(p)
  \/ Close

Spec == Init /\ [][Next]_vars

(* Time passes, requests are answered.                                     *)
FairSpec ==
  /\ Spec
  /\ WF_vars(Refetch) /\ WF_vars(Middleware)
  /\ \A w \in Workers : WF_vars(Expire(w))

----------------------------------------------------------------------------
(***************************************************************************)
(* Properties                                                              *)
(***************************************************************************)

(* A form sent now is credited to the first link of the session that       *)
(* named a source, wherever redirects led and whichever page the form is   *)
(* on, and to the page where the session began (attribution.ts:13-15,      *)
(* 30-36; middleware.ts:237-239).  Its other tags are that link's too,     *)
(* unless an earlier link had tags without a source.                       *)
FirstTouchIsCredited ==
  phase = "page" =>
    LET lead == GetAttribution IN
      /\ lead.credit.source = first.source /\ lead.credit.referrer = first.referrer
      /\ lead.credit.tag = first.tag \/ loose
      /\ lead.landing = landing

(* Who comes back to the same address on one trip has met two maps, or one *)
(* that itself leads round: the middleware, with its slashes and its       *)
(* cleaned queries, makes no loop of its own (middleware.ts:201-260).      *)
LoopIsInTheTable ==
  Asks /\ url \in seen =>
    Cardinality(met) > 1 \/ \E m \in met \cup {NoMap} : LeadsRound(m, url.path)

(* The query and the path are settled in one redirect                      *)
(* (middleware.ts:224-232): after a redirect for the query alone comes the *)
(* page, unless the map has changed.                                       *)
OneHopForTheQuery ==
  Asks /\ alone /\ Cardinality(met) <= 1 => \A m \in met \cup {NoMap} : Onward(m, url.path) = {}

(* Workers with maps of different times may send a visitor to and fro, but *)
(* not for ever: the trip that never ends goes round the table as it stands*)
(* (which POST /redirects accepts, admin.routes.ts:938-956).               *)
TripsEndUnlessTableLoops == []<>~Asks \/ <>[]LeadsRound(redirects, url.path)

(* In the end every lookup follows the table (middleware.ts:9-10).         *)
TakesEffect == <>[][\A m \in met' \ met : m = redirects]_vars
=============================================================================
