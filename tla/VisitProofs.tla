---------------------------- MODULE VisitProofs -----------------------------
(***************************************************************************)
(* The credit of a visit, for every table of redirects, with cycles too,   *)
(* any number of workers with maps of any age, and any links.              *)
(***************************************************************************)
EXTENDS Visit, FiniteSetTheorems, TLAPS

(* What a map may hold.                                                    *)
IsMap(m) == \A p \in DOMAIN m : m[p] \in Targets

TypeOK ==
  /\ IsMap(redirects) /\ IsMap(fetched)
  /\ \A w \in Workers : IsMap(cache[w])
  /\ cache = [w \in Workers |-> cache[w]]
  /\ url \in URLs

(* On a full page load the address and the referrer name what the link     *)
(* named; a link within the page adds nothing to a session without source. *)
AddressInv ==
  /\ phase = "asking" /\ ~soft =>
       url.source = opened.source /\ url.tag = opened.tag /\ referrer = opened.referrer
  /\ phase = "page" \/ (phase = "asking" /\ soft) =>
       /\ landing # None
       /\ ~HasSource(first) =>
            url.source = None /\ referrer = None /\ (loose \/ url.tag = None)

(* The record of the session is of the first link that named a source.     *)
RecordInv ==
  /\ stored.landing = landing
  /\ stored.credit.source = first.source /\ stored.credit.referrer = first.referrer
  /\ HasSource(first) => stored.credit.tag = first.tag \/ loose
  /\ ~HasSource(first) => first.tag = None /\ (stored.credit.tag = None \/ loose)

IInv == TypeOK /\ AddressInv /\ RecordInv

----------------------------------------------------------------------------
(* Field by field, what a merge leaves.                                    *)
LEMMA MergeIs ==
  ASSUME NEW s, NEW incoming
  PROVE  LET m == Merge(s, incoming)
             Field(old, new) == IF HasSource(s.credit) \/ new = None THEN old ELSE new
         IN /\ m.credit.source = Field(s.credit.source, incoming.credit.source)
            /\ m.credit.tag = Field(s.credit.tag, incoming.credit.tag)
            /\ m.credit.referrer = Field(s.credit.referrer, incoming.credit.referrer)
            /\ m.landing = IF s.landing # None THEN s.landing ELSE incoming.landing
<1>1. DOMAIN NoCredit = {"source", "tag", "referrer"}
  BY DEF NoCredit
<1> QED BY <1>1 DEF Merge

(* A redirect keeps what the address says of a campaign.                   *)
LEMMA RedirectKeeps ==
  ASSUME url \in URLs, NEW p \in Paths, NEW slash \in BOOLEAN, RedirectTo(p, slash)
  PROVE  url' \in URLs /\ url'.source = url.source /\ url'.tag = url.tag
BY DEF RedirectTo, CleanQuery, Go, URLs

LEMMA CleaningKeeps ==
  ASSUME url \in URLs, Go(CleanQuery(url))
  PROVE  url' \in URLs /\ url'.source = url.source /\ url'.tag = url.tag
BY DEF CleanQuery, Go, URLs

LEMMA DroppingKeeps ==
  ASSUME url \in URLs, Go([url EXCEPT !.slash = FALSE])
  PROVE  url' \in URLs /\ url'.source = url.source /\ url'.tag = url.tag
BY DEF Go, URLs

LEMMA HomeIsURL == Home.url \in URLs
BY VisitAssumption DEF Home

LEMMA InitIInv == Init => IInv
<1> SUFFICES ASSUME Init PROVE IInv
  OBVIOUS
<1>1. IsMap(Entered) /\ IsMap(NoMap)
  BY VisitAssumption DEF IsMap, NoMap
<1>2. TypeOK
  BY <1>1, HomeIsURL DEF Init, TypeOK
<1>3. AddressInv /\ RecordInv
  BY DEF Init, AddressInv, RecordInv, NoRecord, NoCredit, HasSource
<1> QED BY <1>2, <1>3 DEF IInv

(* What a lookup answers is a map, and so is every copy after it.          *)
LEMMA LookUpKeepsMaps ==
  ASSUME TypeOK, NEW w \in Workers, NEW m \in {cache[w], fetched}, GetDynamicRedirects(w, m)
  PROVE  /\ IsMap(m)
         /\ redirects' = redirects =>
              /\ IsMap(redirects') /\ IsMap(fetched')
              /\ \A x \in Workers : IsMap(cache'[x])
              /\ cache' = [x \in Workers |-> cache'[x]]
<1>1. IsMap(m)
  BY DEF TypeOK
<1>2. fetched' = fetched /\ (cache' = cache \/ cache' = [cache EXCEPT ![w] = m])
  BY DEF GetDynamicRedirects, caches
<1> QED BY <1>1, <1>2 DEF TypeOK

(* The page is served: the record takes what is new, and the rest is as    *)
(* the first link said.                                                    *)
LEMMA ServeStep ==
  ASSUME IInv, Serve, Asks
  PROVE  AddressInv' /\ RecordInv'
<1> USE DEF IInv, AddressInv, RecordInv, Asks, Arrive
<1>1. url' = url /\ referrer' = referrer /\ phase' = "page" /\ phase = "asking"
  BY DEF Serve
<1>2. CASE soft
  <2>1. stored' = stored /\ first' = first /\ landing' = landing /\ loose' = loose
    BY <1>2 DEF Serve
  <2> QED BY <1>1, <1>2, <2>1 DEF HasSource
<1>3. CASE ~soft
  <2>1. /\ stored' = Merge(stored, ReadAttribution)
        /\ landing' = IF landing = None THEN url.path ELSE landing
        /\ first' = IF HasSource(first) THEN first
                    ELSE IF HasSource(opened) THEN opened ELSE first
        /\ loose' = (loose \/ (~HasSource(opened) /\ opened.tag # None))
    BY <1>3 DEF Serve
  <2>2. url.source = opened.source /\ url.tag = opened.tag /\ referrer = opened.referrer
    BY <1>1, <1>3
  <2>3. url.path # None
    BY VisitAssumption DEF TypeOK, URLs
  <2>4. /\ ReadAttribution.credit.source = opened.source
        /\ ReadAttribution.credit.tag = opened.tag
        /\ ReadAttribution.credit.referrer = opened.referrer
        /\ ReadAttribution.landing = url.path
    BY <2>2 DEF ReadAttribution
  <2>5. stored'.landing = landing' /\ landing' # None
    BY <2>1, <2>3, <2>4, MergeIs
  <2>6. CASE HasSource(stored.credit)
    <3>1. HasSource(first)
      BY <2>6 DEF HasSource
    <3>2. /\ stored'.credit.source = stored.credit.source
          /\ stored'.credit.tag = stored.credit.tag
          /\ stored'.credit.referrer = stored.credit.referrer
      BY <2>1, <2>6, MergeIs
    <3>3. first' = first /\ (loose => loose')
      BY <2>1, <3>1
    <3> QED BY <1>1, <2>5, <3>1, <3>2, <3>3 DEF HasSource
  <2>7. CASE ~HasSource(stored.credit)
    <3>1. ~HasSource(first) /\ stored.credit.source = None /\ stored.credit.referrer = None
      BY <2>7 DEF HasSource
    <3>2. /\ stored'.credit.source = opened.source
          /\ stored'.credit.tag = IF opened.tag = None THEN stored.credit.tag ELSE opened.tag
          /\ stored'.credit.referrer = opened.referrer
      BY <2>1, <2>4, <2>7, <3>1, MergeIs
    <3>3. CASE HasSource(opened)
      <4>1. first' = opened /\ (loose => loose')
        BY <2>1, <3>1, <3>3
      <4>2. HasSource(first')
        BY <3>3, <4>1
      <4>3. stored'.credit.source = first'.source /\ stored'.credit.referrer = first'.referrer
        BY <3>2, <4>1
      <4>4. stored'.credit.tag = first'.tag \/ loose'
        BY <3>1, <3>2, <4>1
      <4> QED BY <1>1, <2>5, <4>2, <4>3, <4>4 DEF HasSource
    <3>4. CASE ~HasSource(opened)
      <4>1. first' = first /\ loose' = (loose \/ opened.tag # None)
        BY <2>1, <3>1, <3>4
      <4>2. opened.source = None /\ opened.referrer = None
        BY <3>4 DEF HasSource
      <4>3. ~HasSource(first') /\ first'.tag = None /\ first'.source = None /\ first'.referrer = None
        BY <3>1, <4>1 DEF HasSource
      <4>4. loose' \/ (url'.tag = None /\ stored'.credit.tag = None)
        BY <1>1, <2>2, <3>1, <3>2, <4>1
      <4>5. url'.source = None /\ referrer' = None
            /\ stored'.credit.source = None /\ stored'.credit.referrer = None
        BY <1>1, <2>2, <3>2, <4>2
      <4> QED BY <1>1, <2>5, <4>3, <4>4, <4>5 DEF HasSource
    <3> QED BY <3>3, <3>4
  <2> QED BY <2>6, <2>7
<1> QED BY <1>2, <1>3

----------------------------------------------------------------------------
(* A redirect of the address, and nothing else that matters here.          *)
LEMMA HopStep ==
  ASSUME AddressInv, RecordInv,
         url'.source = url.source, url'.tag = url.tag,
         UNCHANGED <<phase, soft, referrer, opened, session>>
  PROVE  AddressInv' /\ RecordInv'
BY DEF AddressInv, RecordInv, HasSource, session

LEMMA LookUpStep ==
  ASSUME IInv, NEW w \in Workers, LookUp(w)
  PROVE  IInv'
<1> USE DEF IInv
<1>1. PICK m \in {cache[w], fetched} :
        /\ GetDynamicRedirects(w, m)
        /\ \/ /\ url.path \in DOMAIN m /\ m[url.path] # Offsite
              /\ RedirectTo(m[url.path].path, m[url.path].slash)
           \/ /\ phase' = "away"
              /\ Arrive
              /\ url' = Home.url /\ referrer' = None
              /\ UNCHANGED <<redirects, session>>
           \/ Go(CleanQuery(url))
           \/ Serve
  BY DEF LookUp
<1>2. redirects' = redirects
  BY <1>1 DEF RedirectTo, Go, Serve
<1>3. IsMap(m) /\ IsMap(redirects') /\ IsMap(fetched') /\ (\A x \in Workers : IsMap(cache'[x]))
      /\ cache' = [x \in Workers |-> cache'[x]]
  BY <1>1, <1>2, LookUpKeepsMaps
<1>4. CASE url.path \in DOMAIN m /\ m[url.path] # Offsite
           /\ RedirectTo(m[url.path].path, m[url.path].slash)
  <2>1. m[url.path].path \in Paths /\ m[url.path].slash \in BOOLEAN
    BY <1>3, <1>4, VisitAssumption DEF IsMap
  <2>2. url' \in URLs /\ url'.source = url.source /\ url'.tag = url.tag
    BY <1>4, <2>1, RedirectKeeps DEF TypeOK
  <2> QED BY <1>3, <1>4, <2>2, HopStep DEF TypeOK, RedirectTo, Go
<1>5. CASE phase' = "away" /\ Arrive /\ url' = Home.url /\ UNCHANGED <<redirects, session>>
  BY <1>3, <1>5, HomeIsURL DEF TypeOK, AddressInv, RecordInv, HasSource, session
<1>6. CASE Go(CleanQuery(url))
  <2>1. url' \in URLs /\ url'.source = url.source /\ url'.tag = url.tag
    BY <1>6, CleaningKeeps DEF TypeOK
  <2> QED BY <1>3, <1>6, <2>1, HopStep DEF TypeOK, Go
<1>7. CASE Serve
  <2>1. AddressInv' /\ RecordInv'
    BY <1>7, ServeStep DEF LookUp
  <2> QED BY <1>3, <1>7, <2>1 DEF TypeOK, Serve
<1> QED BY <1>1, <1>4, <1>5, <1>6, <1>7

LEMMA Inductive == IInv /\ [Next]_vars => IInv'
<1> SUFFICES ASSUME IInv, [Next]_vars PROVE IInv'
  OBVIOUS
<1> USE DEF IInv
<1>1. CASE Editor
  <2>1. IsMap(redirects')
    <3>1. PICK p \in Paths : Delete(p) \/ \E t \in Targets : Upsert(p, t)
      BY <1>1 DEF Editor
    <3>2. CASE Delete(p)
      BY <3>2 DEF Delete, IsMap, TypeOK
    <3>3. ASSUME NEW t \in Targets, Upsert(p, t) PROVE IsMap(redirects')
      BY <3>3 DEF Upsert, IsMap, TypeOK
    <3> QED BY <3>1, <3>2, <3>3
  <2>2. UNCHANGED <<fetched, cache, fresh, address, session, trip>>
    BY <1>1 DEF Editor, Delete, Upsert, Edit
  <2> QED
    BY <2>1, <2>2 DEF TypeOK, AddressInv, RecordInv, HasSource, caches, address, session
<1>2. CASE Refetch
  BY <1>2 DEF Refetch, TypeOK, AddressInv, RecordInv, HasSource, address, session
<1>3. ASSUME NEW w \in Workers, Expire(w) PROVE IInv'
  BY <1>3 DEF Expire, TypeOK, AddressInv, RecordInv, HasSource, address, session
<1>4. CASE DropSlash
  <2>1. Go([url EXCEPT !.slash = FALSE]) /\ UNCHANGED caches
    BY <1>4 DEF DropSlash
  <2>2. url' \in URLs /\ url'.source = url.source /\ url'.tag = url.tag
    BY <2>1, DroppingKeeps DEF TypeOK
  <2> QED BY <2>1, <2>2, HopStep DEF TypeOK, Go, caches
<1>5. CASE FollowStatic
  <2>1. RedirectTo(STATIC_REDIRECTS[url.path], FALSE) /\ UNCHANGED caches
        /\ url.path \in DOMAIN STATIC_REDIRECTS
    BY <1>5 DEF FollowStatic
  <2>2. STATIC_REDIRECTS[url.path] \in Paths
    BY <2>1, VisitAssumption
  <2>3. url' \in URLs /\ url'.source = url.source /\ url'.tag = url.tag
    BY <2>1, <2>2, RedirectKeeps DEF TypeOK
  <2> QED BY <2>1, <2>3, HopStep DEF TypeOK, RedirectTo, Go, caches
<1>6. ASSUME NEW w \in Workers, LookUp(w) PROVE IInv'
  BY <1>6, LookUpStep
<1>7. ASSUME NEW k \in Links, Open(k) PROVE IInv'
  <2>1. k.url \in URLs
    BY VisitAssumption
  <2> QED
    BY <1>7, <2>1 DEF Open, Depart, TypeOK, AddressInv, RecordInv, HasSource, caches, session
<1>8. ASSUME NEW p \in Paths, Navigate(p) PROVE IInv'
  <2>1. url' \in URLs /\ url'.source = None /\ url'.tag = None
    <3>1. url' = [path |-> p, slash |-> FALSE, page |-> FALSE, legacy |-> FALSE,
                  source |-> None, tag |-> None]
      BY <1>8 DEF Navigate, Depart
    <3>2. None \in Words
      BY DEF Words
    <3> QED BY <3>1, <3>2 DEF URLs
  <2> QED
    BY <1>8, <2>1 DEF Navigate, Depart, TypeOK, AddressInv, RecordInv, HasSource, caches, session
<1>9. CASE Close
  BY <1>9, HomeIsURL
  DEF Close, TypeOK, AddressInv, RecordInv, HasSource, NoRecord, NoCredit, caches
<1>10. CASE UNCHANGED vars
  BY <1>10 DEF vars, TypeOK, AddressInv, RecordInv, HasSource, caches, address, session
<1> QED
  BY <1>1, <1>2, <1>3, <1>4, <1>5, <1>6, <1>7, <1>8, <1>9, <1>10 DEF Next, Middleware

LEMMA Invariance == Spec => []IInv
BY InitIInv, Inductive, PTL DEF Spec

(* The table, every copy of it and the address are well formed: a redirect *)
(* leads to a path of the site (middleware.ts:146-176).                    *)
THEOREM TypeCorrect == Spec => []TypeOK
<1>1. IInv => TypeOK
  BY DEF IInv
<1> QED BY <1>1, Invariance, PTL

(* A form is credited to the first link of the session that named a        *)
(* source, and to the page where the session began, whatever redirects     *)
(* there are, and also when they have cycles or are out of date            *)
(* (attribution.ts:13-15, 30-36; middleware.ts:237-239).                   *)
THEOREM FirstTouch == Spec => []FirstTouchIsCredited
<1>1. IInv => FirstTouchIsCredited
  <2> SUFFICES ASSUME IInv, phase = "page"
               PROVE  /\ GetAttribution.credit.source = first.source
                      /\ GetAttribution.credit.referrer = first.referrer
                      /\ GetAttribution.credit.tag = first.tag \/ loose
                      /\ GetAttribution.landing = landing
    BY DEF FirstTouchIsCredited
  <2> USE DEF IInv, AddressInv, RecordInv
  <2>1. /\ ReadAttribution.credit.source = url.source
        /\ ReadAttribution.credit.tag = url.tag
        /\ ReadAttribution.credit.referrer = referrer
    BY DEF ReadAttribution
  <2>2. GetAttribution.landing = landing
    BY MergeIs DEF GetAttribution
  <2>3. CASE HasSource(stored.credit)
    <3>1. HasSource(first)
      BY <2>3 DEF HasSource
    <3> QED BY <2>2, <2>3, <3>1, MergeIs DEF GetAttribution
  <2>4. CASE ~HasSource(stored.credit)
    <3>1. ~HasSource(first) /\ stored.credit.source = None /\ stored.credit.referrer = None
      BY <2>4 DEF HasSource
    <3>2. first.source = None /\ first.referrer = None
      BY <3>1 DEF HasSource
    <3> QED BY <2>1, <2>2, <2>4, <3>1, <3>2, MergeIs DEF GetAttribution
  <2> QED BY <2>3, <2>4
<1> QED BY <1>1, Invariance, PTL

----------------------------------------------------------------------------
(* The trip of one address, from the click to the page.                    *)

PathsOf(set) == {u.path : u \in set}

(* Who has met no map but m has, from every path passed and left, been led *)
(* on to a path passed, or to this one; and at this path, nothing is put   *)
(* back that was taken away.                                               *)
Trail(m) ==
  /\ \A p \in PathsOf(seen) \ {url.path} :
       Onward(m, p) \cap (PathsOf(seen) \cup {url.path}) # {}
  /\ \A u \in seen : u.path = url.path =>
       /\ url.slash => u.slash
       /\ url.legacy => u.legacy
       /\ u.slash # url.slash \/ u.legacy # url.legacy

(* A map that leads round from here is excused.                            *)
TrailOf(m) == Trail(m) \/ LeadsRound(m, url.path)

TrailInv == Asks => \A m : met \subseteq {m} => TrailOf(m)

(* Whoever was sent on for the query alone, by the one map met so far, is  *)
(* where that map and the fixed table lead no further.                     *)
AloneInv ==
  Asks /\ alone =>
    met # {} /\ \A m : met = {m} => Onward(m, url.path) = {} /\ Onward(NoMap, url.path) = {}

TripInv == TrailInv /\ AloneInv /\ IsFiniteSet(met) /\ seen \subseteq URLs

LEMMA URLParts ==
  ASSUME NEW u \in URLs
  PROVE  /\ u.path \in Paths /\ u.slash \in BOOLEAN /\ u.legacy \in BOOLEAN
         /\ [u EXCEPT !.slash = FALSE] \in URLs
         /\ [u EXCEPT !.slash = FALSE].path = u.path
         /\ [u EXCEPT !.slash = FALSE].slash = FALSE
         /\ [u EXCEPT !.slash = FALSE].legacy = u.legacy
         /\ CleanQuery(u) \in URLs /\ CleanQuery(u).path = u.path
         /\ CleanQuery(u).slash = u.slash /\ CleanQuery(u).legacy = FALSE
BY DEF URLs, CleanQuery

(* A path leads on to one other at most.                                   *)
LEMMA OneWayOn ==
  ASSUME NEW r, NEW p, NEW q \in Onward(r, p)
  PROVE  Onward(r, p) = {q}
BY DEF Onward

(* A redirect to where a map leads comes to a new path, or the map leads   *)
(* round.                                                                  *)
LEMMA NewPath ==
  ASSUME url \in URLs, seen \subseteq URLs, NEW m, TrailOf(m),
         NEW q \in Onward(m, url.path), NEW slash, RedirectTo(q, slash)
  PROVE  TrailOf(m)'
<1> DEFINE S == PathsOf(seen) \cup {url.path}
<1>1. seen' = seen \cup {url} /\ url'.path = q
  BY DEF RedirectTo, Go, CleanQuery, URLs
<1>2. PathsOf(seen)' = S
  BY <1>1 DEF PathsOf
<1>3. S \in SUBSET Paths /\ S # {}
  BY URLParts DEF PathsOf
<1>4. CASE LeadsRound(m, url.path)
  <2>1. PICK R \in SUBSET Paths : url.path \in R /\ \A p \in R : Onward(m, p) \cap R # {}
    BY <1>4 DEF LeadsRound
  <2>2. q \in R
    BY <2>1, OneWayOn
  <2> QED BY <1>1, <2>1, <2>2 DEF TrailOf, LeadsRound
<1>5. CASE Trail(m) /\ q \in S
  <2>1. ASSUME NEW p \in S PROVE Onward(m, p) \cap S # {}
    BY <1>5 DEF Trail
  <2> HIDE DEF S
  <2> QED BY <1>1, <1>3, <1>5, <2>1 DEF TrailOf, LeadsRound
<1>6. CASE Trail(m) /\ q \notin S
  <2>1. \A p \in S \ {q} : Onward(m, p) \cap (S \cup {q}) # {}
    <3>1. ASSUME NEW p \in S PROVE Onward(m, p) \cap (S \cup {q}) # {}
      BY <1>6 DEF Trail
    <3> QED BY <3>1
  <2>2. \A u \in seen' : u.path # q
    BY <1>2, <1>6 DEF PathsOf
  <2> HIDE DEF S
  <2> QED BY <1>1, <1>2, <2>1, <2>2 DEF TrailOf, Trail
<1> QED BY <1>4, <1>5, <1>6 DEF TrailOf

(* A slash dropped, or the query cleaned: the address is another.          *)
LEMMA SamePath ==
  ASSUME url \in URLs, seen \subseteq URLs, NEW m, TrailOf(m), seen' = seen \cup {url},
         \/ url.slash /\ url' = [url EXCEPT !.slash = FALSE]
         \/ url.legacy /\ url' = CleanQuery(url)
  PROVE  TrailOf(m)'
<1>1. /\ url'.path = url.path /\ url'.slash \in BOOLEAN /\ url'.legacy \in BOOLEAN
      /\ url'.slash => url.slash
      /\ url'.legacy => url.legacy
      /\ url'.slash # url.slash \/ url'.legacy # url.legacy
  <2>1. CASE url.slash /\ url' = [url EXCEPT !.slash = FALSE]
    BY <2>1, URLParts
  <2>2. CASE url.legacy /\ url' = CleanQuery(url)
    BY <2>2, URLParts
  <2> QED BY <2>1, <2>2
<1>2. CASE LeadsRound(m, url.path)
  BY <1>1, <1>2 DEF TrailOf, LeadsRound
<1>3. CASE Trail(m)
  <2>1. PathsOf(seen)' = PathsOf(seen) \cup {url.path}
    BY DEF PathsOf
  <2>2. \A p \in PathsOf(seen)' \ {url'.path} :
           Onward(m, p) \cap (PathsOf(seen)' \cup {url'.path}) # {}
    BY <1>1, <1>3, <2>1 DEF Trail
  <2>3. ASSUME NEW u \in seen', u.path = url'.path
        PROVE  /\ url'.slash => u.slash
               /\ url'.legacy => u.legacy
               /\ u.slash # url'.slash \/ u.legacy # url'.legacy
    <3>1. CASE u = url
      BY <1>1, <3>1
    <3>2. CASE u \in seen
      <4>1. /\ url.slash => u.slash
            /\ url.legacy => u.legacy
            /\ u.slash # url.slash \/ u.legacy # url.legacy
        BY <1>1, <1>3, <2>3, <3>2 DEF Trail
      <4>2. u.slash \in BOOLEAN /\ u.legacy \in BOOLEAN /\ url.slash \in BOOLEAN /\ url.legacy \in BOOLEAN
        BY <3>2, URLParts
      <4> QED BY <1>1, <4>1, <4>2
    <3> QED BY <2>3, <3>1, <3>2
  <2> QED BY <2>2, <2>3 DEF TrailOf, Trail
<1> QED BY <1>2, <1>3 DEF TrailOf

LEMMA LookUpTrip ==
  ASSUME TypeOK, TripInv, NEW w \in Workers, LookUp(w)
  PROVE  TripInv'
<1> USE DEF TripInv, TypeOK
<1>1. PICK m \in {cache[w], fetched} :
        /\ met' = met \cup {m}
        /\ \/ /\ url.path \in DOMAIN m /\ m[url.path] # Offsite
              /\ RedirectTo(m[url.path].path, m[url.path].slash)
              /\ UNCHANGED alone
           \/ phase' = "away" /\ Arrive
           \/ /\ url.path \notin DOMAIN m /\ url.legacy
              /\ Go(CleanQuery(url))
              /\ alone' = TRUE
           \/ Serve
  BY DEF LookUp
<1>2. Asks /\ ~url.slash /\ url.path \notin DOMAIN STATIC_REDIRECTS /\ IsMap(m)
  BY DEF LookUp
<1>3. IsFiniteSet(met')
  BY <1>1, FS_AddElement
<1>4. CASE url.path \in DOMAIN m /\ m[url.path] # Offsite
           /\ RedirectTo(m[url.path].path, m[url.path].slash) /\ UNCHANGED alone
  <2> DEFINE q == m[url.path].path
  <2>1. Onward(m, url.path) = {q}
    BY <1>2, <1>4 DEF Onward
  <2>2. seen' = seen \cup {url} /\ seen' \subseteq URLs /\ phase' = phase
    BY <1>4 DEF RedirectTo, Go
  <2>3. ASSUME NEW n, met' \subseteq {n} PROVE TrailOf(n)'
    <3>1. n = m /\ met \subseteq {n}
      BY <1>1, <2>3
    <3>2. TrailOf(n)
      BY <1>2, <2>3, <3>1 DEF TrailInv
    <3> QED BY <1>4, <2>1, <2>3, <3>1, <3>2, NewPath
  <2>4. ASSUME alone, NEW n, met' = {n} PROVE FALSE
    <3>1. met = {m} /\ n = m
      BY <1>1, <1>2, <2>4 DEF AloneInv
    <3> QED BY <1>2, <2>1, <2>4, <3>1 DEF AloneInv
  <2>5. met' # {}
    BY <1>1
  <2>6. TrailInv'
    BY <2>3 DEF TrailInv
  <2>7. AloneInv'
    BY <1>4, <2>4, <2>5 DEF AloneInv
  <2> QED BY <1>3, <2>2, <2>6, <2>7
<1>5. CASE (phase' = "away" \/ phase' = "page") /\ Arrive
  BY <1>3, <1>5 DEF Arrive, TrailInv, AloneInv, Asks
<1>6. CASE url.path \notin DOMAIN m /\ url.legacy /\ Go(CleanQuery(url)) /\ alone' = TRUE
  <2>1. seen' = seen \cup {url} /\ seen' \subseteq URLs /\ phase' = phase /\ url' = CleanQuery(url)
    BY <1>6 DEF Go
  <2>2. ASSUME NEW n, met' \subseteq {n} PROVE TrailOf(n)'
    <3>1. TrailOf(n)
      BY <1>1, <1>2, <2>2 DEF TrailInv
    <3> QED BY <1>6, <2>1, <3>1, SamePath
  <2>3. url'.path = url.path
    BY <2>1, URLParts
  <2>4. Onward(m, url.path) = {} /\ Onward(NoMap, url.path) = {}
    BY <1>2, <1>6 DEF Onward, NoMap
  <2>5. \A n : met' = {n} => n = m
    BY <1>1
  <2>6. met' # {}
    BY <1>1
  <2>7. TrailInv'
    BY <2>2 DEF TrailInv
  <2>8. AloneInv'
    BY <2>3, <2>4, <2>5, <2>6 DEF AloneInv
  <2> QED BY <1>3, <2>1, <2>7, <2>8
<1> QED BY <1>1, <1>4, <1>5, <1>6 DEF Serve

LEMMA TripStep ==
  ASSUME TypeOK, TripInv, [Next]_vars
  PROVE  TripInv'
<1> USE DEF TripInv
<1>1. CASE UNCHANGED <<phase, url, trip>>
  <2>1. \A m : TrailOf(m)' <=> TrailOf(m)
    BY <1>1 DEF trip, TrailOf, Trail, PathsOf
  <2> QED BY <1>1, <2>1 DEF trip, TrailInv, AloneInv, Asks
<1>2. CASE DropSlash
  <2>1. /\ url.slash /\ url' = [url EXCEPT !.slash = FALSE] /\ seen' = seen \cup {url}
        /\ phase' = phase /\ UNCHANGED <<met, alone>> /\ Asks
    BY <1>2 DEF DropSlash, Go
  <2>2. url'.path = url.path /\ seen' \subseteq URLs
    BY <2>1, URLParts DEF TypeOK
  <2>3. ASSUME NEW m, met' \subseteq {m} PROVE TrailOf(m)'
    BY <2>1, <2>3, SamePath DEF TypeOK, TrailInv
  <2>4. TrailInv'
    BY <2>3 DEF TrailInv
  <2>5. AloneInv'
    BY <2>1, <2>2 DEF AloneInv
  <2> QED BY <2>1, <2>2, <2>4, <2>5
<1>3. CASE FollowStatic
  <2> DEFINE q == STATIC_REDIRECTS[url.path]
  <2>1. RedirectTo(q, FALSE) /\ UNCHANGED <<met, alone>> /\ Asks
    BY <1>3 DEF FollowStatic
  <2>2. phase' = phase /\ seen' = seen \cup {url} /\ seen' \subseteq URLs
    BY <2>1 DEF RedirectTo, Go, TypeOK
  <2>3. \A m : Onward(m, url.path) = {q}
    BY <1>3 DEF FollowStatic, Onward
  <2>4. ASSUME NEW m, met' \subseteq {m} PROVE TrailOf(m)'
    BY <2>1, <2>3, <2>4, NewPath DEF TypeOK, TrailInv
  <2>5. TrailInv'
    BY <2>4 DEF TrailInv
  <2>6. AloneInv'
    BY <2>1, <2>3 DEF AloneInv
  <2> QED BY <2>1, <2>2, <2>5, <2>6
<1>4. ASSUME NEW w \in Workers, LookUp(w) PROVE TripInv'
  BY <1>4, LookUpTrip
<1>5. ASSUME NEW u, Depart(u) PROVE TripInv'
  BY <1>5, FS_EmptySet DEF Depart, TrailInv, TrailOf, Trail, PathsOf, AloneInv
<1>6. CASE Close
  BY <1>6 DEF Close, trip, TrailInv, AloneInv, Asks
<1>7. CASE Editor \/ Refetch \/ \E w \in Workers : Expire(w)
  <2>1. UNCHANGED <<phase, url, trip>>
    BY <1>7 DEF Editor, Delete, Upsert, Edit, Refetch, Expire, address
  <2> QED BY <1>1, <2>1
<1>8. CASE \E p \in Paths : Navigate(p)
  BY <1>5, <1>8 DEF Navigate
<1>9. CASE \E k \in Links : Open(k)
  BY <1>5, <1>9 DEF Open
<1>10. CASE UNCHANGED vars
  BY <1>1, <1>10 DEF vars, address
<1> QED
  BY <1>2, <1>3, <1>4, <1>6, <1>7, <1>8, <1>9, <1>10 DEF Next, Middleware

LEMMA TripInvariance == Spec => []TripInv
<1>1. Init => TripInv
  BY FS_EmptySet DEF Init, TripInv, TrailInv, AloneInv, Asks
<1>2. TypeOK /\ TripInv /\ [Next]_vars => TripInv'
  BY TripStep
<1> QED BY <1>1, <1>2, TypeCorrect, PTL DEF Spec

(* A finite set of at most one map is empty or a singleton.                *)
LEMMA OneMap ==
  ASSUME IsFiniteSet(met), Cardinality(met) <= 1, met # {}
  PROVE  \E m \in met : met = {m}
<1>1. PICK m \in met : TRUE
  OBVIOUS
<1>2. Cardinality(met) \in Nat /\ Cardinality(met \ {m}) = Cardinality(met) - 1
      /\ IsFiniteSet(met \ {m})
  BY <1>1, FS_RemoveElement, FS_CardinalityType
<1>3. Cardinality(met \ {m}) = 0
  BY <1>2, FS_CardinalityType
<1>4. met \ {m} = {}
  BY <1>2, <1>3, FS_EmptySet
<1> QED BY <1>1, <1>4

(* Who comes back to an address on one trip has met two maps, or one that  *)
(* itself leads round: the middleware adds no loop, with its slashes and   *)
(* its cleaned queries (middleware.ts:201-260), whatever the table is, its *)
(* edits and the workers' maps.                                            *)
THEOREM NoLoopOfItsOwn == Spec => []LoopIsInTheTable
<1>1. TripInv => LoopIsInTheTable
  <2> SUFFICES ASSUME TripInv, Asks, url \in seen, ~(Cardinality(met) > 1)
               PROVE  \E m \in met \cup {NoMap} : LeadsRound(m, url.path)
    BY DEF LoopIsInTheTable
  <2>1. Cardinality(met) <= 1
    BY FS_CardinalityType DEF TripInv
  <2>2. PICK m \in met \cup {NoMap} : met \subseteq {m}
    BY <2>1, OneMap DEF TripInv
  <2>3. TrailOf(m)
    BY <2>2 DEF TripInv, TrailInv
  <2>4. ~Trail(m)
    BY DEF Trail
  <2> QED BY <2>3, <2>4 DEF TrailOf
<1> QED BY <1>1, TripInvariance, PTL

(* After a redirect for the query alone comes the page, unless the map has *)
(* changed, and whatever the maps are (middleware.ts:224-260).             *)
THEOREM PathAndQueryAtOnce == Spec => []OneHopForTheQuery
<1>1. TripInv => OneHopForTheQuery
  <2> SUFFICES ASSUME TripInv, Asks, alone, Cardinality(met) <= 1
               PROVE  \A m \in met \cup {NoMap} : Onward(m, url.path) = {}
    BY DEF OneHopForTheQuery
  <2>1. PICK m \in met : met = {m}
    BY OneMap DEF TripInv, AloneInv
  <2> QED BY <2>1 DEF TripInv, AloneInv
<1> QED BY <1>1, TripInvariance, PTL
=============================================================================
