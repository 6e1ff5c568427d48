---------------------------- MODULE ConsoleProofs ---------------------------
(***************************************************************************)
(* The console: Publishing for any number of editors, URLs, contents and   *)
(* names, and SignIn for any number of browsers.  The two share no name.   *)
(***************************************************************************)
EXTENDS Publishing, SignIn, TLAPS

(* What a request has read by the step it is at.                           *)
ReadBy(e) ==
  /\ pc[e] = "writing" /\ kind = "post" => named[e] \in Names
  /\ pc[e] \in {"patching", "deleting"} => seen[e] # Nothing
  /\ pc[e] = "deleting" => kind # "post"
  /\ pc[e] # "purging" => purge[e] = {}

(* What a request has read became so on the date it has.                   *)
SeenIsTrue ==
  \A e \in Editors :
    seen[e] # Nothing /\ kind \in {"page", "post"}
      => <<seen[e].content, seen[e].contentUpdatedAt>> \in changes

IInv ==
  /\ TypeOK
  /\ \A e \in Editors : ReadBy(e)
  /\ PublishedIsDated
  /\ SeenIsTrue
  /\ DateIsOfContent
  /\ StaleIsKnown

----------------------------------------------------------------------------
(* What the API answers is an answer.                                      *)
LEMMA AnswerType ==
  ASSUME TypeOK PROVE \A k \in Copies : Answer(k) \in Answers
<1>. TAKE k \in Copies
<1>1. Listed(k) \subseteq Rows
  BY DEF Listed, TypeOK
<1>2. \A r \in Listed(k) : r.slug \in Slugs /\ r.content \in Contents /\ r.byline \in Names
  BY <1>1 DEF Rows
<1>3. Answer(k).name \in Names \cup {Nothing}
  BY DEF Answer, TypeOK
<1>4. Answer(k).shows \subseteq Slugs \X Contents \X (Names \cup {Nothing})
  BY <1>2 DEF Answer
<1>. QED
  BY <1>3, <1>4 DEF Answer, Answers

LEMMA DatesType ==
  ASSUME TypeOK, NEW e \in Editors, NEW status, NEW content, NEW sent
  PROVE  /\ PublishedAt(e, status) \in Nat
         /\ ContentUpdatedAt(e, content, sent) \in Nat
<1>1. seen[e] = Nothing \/ (seen[e] \in Rows /\ seen[e].publishedAt \in Nat
                                             /\ seen[e].contentUpdatedAt \in Nat)
  BY DEF TypeOK, Rows
<1>. QED
  BY <1>1 DEF PublishedAt, ContentUpdatedAt, TypeOK

LEMMA NewRowType ==
  ASSUME TypeOK, NEW e \in Editors, ReadBy(e), pc[e] = "writing",
         NEW slug \in Slugs, NEW status \in {"DRAFT", "PUBLISHED"},
         NEW content \in Contents, NEW sent \in Names
  PROVE  NewRow(e, slug, status, content, sent) \in Rows
<1>1. (IF kind = "post" THEN named[e] ELSE author) \in Names
  BY DEF TypeOK, ReadBy
<1>. QED
  BY <1>1, DatesType DEF NewRow, Rows

(* What a row of the table has for a URL.                                  *)
LEMMA SlugType ==
  ASSUME NEW r \in Rows \cup {Nothing} PROVE Slug(r) \subseteq Slugs
BY DEF Slug, Rows

LEMMA SendType ==
  ASSUME TypeOK, NEW e \in Editors, NEW tags, tags \subseteq Copies, NEW forgotten, NEW moved,
         Send(e, tags, forgotten, moved)
  PROVE  /\ pc' \in [Editors -> {"idle", "naming", "writing", "patching", "deleting",
                                 "renaming", "purging", "done"}]
         /\ seen' \in [Editors -> Rows \cup {Nothing}]
         /\ named' \in [Editors -> Names \cup {Nothing}]
         /\ purge' \in [Editors -> SUBSET Copies]
         /\ why' \in {"none", "lost", "late", "unpurged", "overtaken"}
BY DEF Send, TypeOK, Forget, Goto

LEMMA WriteType ==
  ASSUME TypeOK, NEW e \in Editors, NEW tags, tags \subseteq Copies, NEW forgotten, NEW moved,
         Send(e, tags, forgotten, moved), UNCHANGED <<kind, copy, cache, fill>>, now' = now + 1,
         row' \in Rows \cup {Nothing}, author' \in Names, changes' \subseteq Contents \X Nat
  PROVE  TypeOK'
<1>1. kind' \in Kinds /\ now' \in Nat /\ copy' \in Copies
  BY DEF TypeOK, Copies
<1>2. cache' \in Answers' \cup {Nothing} /\ fill' \in Answers' \cup {Nothing}
  BY DEF TypeOK, Answers
<1>3. /\ pc' \in [Editors -> {"idle", "naming", "writing", "patching", "deleting",
                              "renaming", "purging", "done"}]
      /\ seen' \in [Editors -> Rows \cup {Nothing}]
      /\ named' \in [Editors -> Names \cup {Nothing}]
      /\ purge' \in [Editors -> SUBSET Copies]
      /\ why' \in {"none", "lost", "late", "unpurged", "overtaken"}
  BY SendType
<1>. QED
  BY <1>1, <1>2, <1>3 DEF TypeOK

LEMMA TypeStep ==
  ASSUME TypeOK, \A e \in Editors : ReadBy(e), [Next]_vars PROVE TypeOK'
<1>1. ASSUME NEW e \in Editors, ReadRow(e) \/ ReadName(e) \/ ReadAuthor(e) \/ Abandon(e)
      PROVE  TypeOK'
  BY <1>1 DEF TypeOK, ReadRow, ReadName, ReadAuthor, Abandon, Goto, Forget, entry, reader
<1>2. ASSUME NEW e \in Editors, CreateRow(e) \/ UpdateRow(e) PROVE TypeOK'
  <2>1. PICK slug \in Slugs, status \in {"DRAFT", "PUBLISHED"}, content \in Contents, sent \in Names :
          /\ row' = NewRow(e, slug, status, content, sent)
          /\ \/ changes' = changes \cup {<<content, now + 1>>}
             \/ changes' = changes \cup Changed(e, content, sent)
          /\ \/ Send(e, {slug, "index"}, Profile, {})
             \/ Send(e, {slug, "index"} \cup Slug(seen[e]), Profile, Slug(row) \ Slug(seen[e]))
    BY <1>2 DEF CreateRow, UpdateRow
  <2>2. pc[e] = "writing"
    BY <1>2 DEF CreateRow, UpdateRow
  <2>3. row' \in Rows
    BY <2>1, <2>2, NewRowType
  <2>4. Slug(seen[e]) \subseteq Slugs
    BY SlugType DEF TypeOK
  <2>5. {slug, "index"} \subseteq Copies /\ {slug, "index"} \cup Slug(seen[e]) \subseteq Copies
    BY <2>4 DEF Copies
  <2>6. UNCHANGED <<kind, copy, cache, fill>> /\ now' = now + 1 /\ author' \in Names
    BY <1>2 DEF CreateRow, UpdateRow, TypeOK
  <2>7. changes' \subseteq Contents \X Nat
    BY <2>1 DEF TypeOK, Changed
  <2>8. CASE Send(e, {slug, "index"}, Profile, {})
    BY <2>3, <2>5, <2>6, <2>7, <2>8, WriteType
  <2>9. CASE Send(e, {slug, "index"} \cup Slug(seen[e]), Profile, Slug(row) \ Slug(seen[e]))
    BY <2>3, <2>5, <2>6, <2>7, <2>9, WriteType
  <2>. QED
    BY <2>1, <2>8, <2>9
<1>3. ASSUME NEW e \in Editors, WriteStatus(e) \/ DeleteRow(e) \/ Rename(e) PROVE TypeOK'
  <2>1. row # Nothing => row \in Rows /\ row.slug \in Slugs
    BY DEF TypeOK, Rows
  <2>2. pc[e] = "deleting" => seen[e].slug \in Slugs
    BY DEF TypeOK, ReadBy, Rows
  <2>3. row' \in Rows \cup {Nothing}
    <3>1. CASE WriteStatus(e)
      <4>1. PICK status \in {"DRAFT", "PUBLISHED"} :
              row' = [row EXCEPT !.status = status, !.publishedAt = PublishedAt(e, status)]
        BY <3>1 DEF WriteStatus
      <4>2. PublishedAt(e, status) \in Nat
        BY DatesType
      <4>. QED
        BY <3>1, <2>1, <4>1, <4>2 DEF WriteStatus, Rows
    <3>2. CASE DeleteRow(e)
      BY <3>2 DEF DeleteRow
    <3>3. CASE Rename(e)
      BY <3>3, <2>1 DEF Rename, TypeOK, Rows
    <3>. QED
      BY <1>3, <3>1, <3>2, <3>3
  <2>4. \E tags \in SUBSET Copies : \E forgotten, moved : Send(e, tags, forgotten, moved)
    <3>1. \A tags \in SUBSET Copies : \A forgotten, moved :
            Send(e, tags, forgotten, moved)
              => \E t \in SUBSET Copies : \E f, c : Send(e, t, f, c)
      OBVIOUS
    <3>2. CASE WriteStatus(e)
      <4>1. Send(e, {row.slug, "index"}, Profile, {}) /\ {row.slug, "index"} \in SUBSET Copies
        BY <3>2, <2>1 DEF WriteStatus, Copies
      <4>. QED
        BY <3>1, <4>1
    <3>3. CASE DeleteRow(e)
      <4>1. CASE Send(e, {row.slug, "index"}, Profile, {})
        <5>1. {row.slug, "index"} \in SUBSET Copies
          BY <3>3, <2>1 DEF DeleteRow, Copies
        <5>. QED
          BY <3>1, <4>1, <5>1
      <4>2. CASE pc[e] = "deleting" /\ Send(e, {seen[e].slug, "index"}, {}, Slug(row) \ Slug(seen[e]))
        <5>1. {seen[e].slug, "index"} \in SUBSET Copies
          BY <4>2, <2>2 DEF Copies
        <5>. QED
          BY <3>1, <4>2, <5>1
      <4>. QED
        BY <3>3, <4>1, <4>2 DEF DeleteRow
    <3>4. CASE Rename(e)
      <4>1. PICK name \in Names :
              \/ Send(e, {"profile"}, IF name = author THEN {} ELSE {"index"} \cup Slug(row), {})
              \/ Send(e, {"profile", "index"}, Slug(row), {})
        BY <3>4 DEF Rename
      <4>2. {"profile"} \in SUBSET Copies /\ {"profile", "index"} \in SUBSET Copies
        BY DEF Copies
      <4>. QED
        BY <3>1, <4>1, <4>2
    <3>. QED
      BY <1>3, <3>2, <3>3, <3>4
  <2>5. author' \in Names /\ now' = now + 1 /\ UNCHANGED <<kind, changes, copy, cache, fill>>
    BY <1>3 DEF TypeOK, WriteStatus, DeleteRow, Rename
  <2>6. PICK tags \in SUBSET Copies : \E forgotten, moved : Send(e, tags, forgotten, moved)
    BY <2>4
  <2>7. PICK forgotten, moved : Send(e, tags, forgotten, moved)
    BY <2>6
  <2>8. changes' \subseteq Contents \X Nat
    BY <2>5 DEF TypeOK
  <2>. QED
    BY <2>3, <2>5, <2>7, <2>8, WriteType
<1>4. ASSUME NEW e \in Editors, Purge(e) \/ PurgeLost(e) PROVE TypeOK'
  BY <1>4 DEF TypeOK, Purge, PurgeLost, Goto, entry
<1>5. CASE Fetch \/ Store \/ FetchFails
  BY <1>5, AnswerType DEF TypeOK, Fetch, Store, FetchFails, entry, request
<1>6. CASE UNCHANGED vars
  BY <1>6 DEF TypeOK, vars, entry, request, reader
<1>. QED
  BY <1>1, <1>2, <1>3, <1>4, <1>5, <1>6 DEF Next, EditorStep

LEMMA ReadByStep ==
  ASSUME TypeOK, \A e \in Editors : ReadBy(e), [Next]_vars
  PROVE  \A e \in Editors : ReadBy(e)'
<1>. TAKE x \in Editors
<1>. USE DEF TypeOK, ReadBy
<1>1. ASSUME NEW e \in Editors, ReadRow(e) \/ ReadName(e) \/ ReadAuthor(e) \/ Abandon(e)
      PROVE  ReadBy(x)'
  BY <1>1 DEF ReadRow, ReadName, ReadAuthor, Abandon, Goto, Forget, entry, reader
<1>2. ASSUME NEW e \in Editors, NEW tags, NEW forgotten, NEW moved,
             Send(e, tags, forgotten, moved), kind' = kind
      PROVE  ReadBy(x)'
  BY <1>2 DEF Send, Forget, Goto
<1>3. ASSUME NEW e \in Editors, CreateRow(e) \/ UpdateRow(e) PROVE ReadBy(x)'
  BY <1>2, <1>3 DEF CreateRow, UpdateRow
<1>4. ASSUME NEW e \in Editors, WriteStatus(e) \/ DeleteRow(e) \/ Rename(e) PROVE ReadBy(x)'
  BY <1>2, <1>4 DEF WriteStatus, DeleteRow, Rename
<1>5. ASSUME NEW e \in Editors, Purge(e) \/ PurgeLost(e) PROVE ReadBy(x)'
  BY <1>5 DEF Purge, PurgeLost, Goto, entry
<1>6. CASE Fetch \/ Store \/ FetchFails
  BY <1>6 DEF Fetch, Store, FetchFails, entry, request
<1>7. CASE UNCHANGED vars
  BY <1>7 DEF vars, entry, request
<1>. QED
  BY <1>1, <1>3, <1>4, <1>5, <1>6, <1>7 DEF Next, EditorStep

----------------------------------------------------------------------------
(* What is published gets a date in the step that publishes it.            *)
LEMMA PublishedAtIsDate ==
  ASSUME TypeOK, NEW e \in Editors PROVE PublishedAt(e, "PUBLISHED") # 0
BY DEF PublishedAt, TypeOK

LEMMA DatedStep ==
  ASSUME TypeOK, PublishedIsDated, [Next]_vars PROVE PublishedIsDated'
<1>. USE DEF PublishedIsDated
<1>1. ASSUME NEW e \in Editors, CreateRow(e) \/ UpdateRow(e) PROVE PublishedIsDated'
  <2>1. PICK slug \in Slugs, status \in {"DRAFT", "PUBLISHED"}, content \in Contents, sent \in Names :
          row' = NewRow(e, slug, status, content, sent)
    BY <1>1 DEF CreateRow, UpdateRow
  <2>. QED
    BY <2>1, PublishedAtIsDate DEF NewRow
<1>2. ASSUME NEW e \in Editors, WriteStatus(e) PROVE PublishedIsDated'
  <2>1. PICK status \in {"DRAFT", "PUBLISHED"} :
          row' = [row EXCEPT !.status = status, !.publishedAt = PublishedAt(e, status)]
    BY <1>2 DEF WriteStatus
  <2>2. row \in Rows
    BY <1>2 DEF WriteStatus, TypeOK
  <2>. QED
    BY <2>1, <2>2, PublishedAtIsDate DEF Rows
<1>3. ASSUME NEW e \in Editors, Rename(e) PROVE PublishedIsDated'
  BY <1>3 DEF Rename, TypeOK, Rows
<1>4. ASSUME NEW e \in Editors, DeleteRow(e) PROVE PublishedIsDated'
  BY <1>4 DEF DeleteRow
<1>5. ASSUME NEW e \in Editors, ReadRow(e) \/ ReadName(e) \/ ReadAuthor(e) \/ Abandon(e)
      PROVE  PublishedIsDated'
  BY <1>5 DEF ReadRow, ReadName, ReadAuthor, Abandon, entry
<1>6. ASSUME NEW e \in Editors, Purge(e) \/ PurgeLost(e) PROVE PublishedIsDated'
  BY <1>6 DEF Purge, PurgeLost, entry
<1>7. CASE Fetch \/ Store \/ FetchFails
  BY <1>7 DEF Fetch, Store, FetchFails, entry
<1>8. CASE UNCHANGED vars
  BY <1>8 DEF vars, entry
<1>. QED
  BY <1>1, <1>2, <1>3, <1>4, <1>5, <1>6, <1>7, <1>8 DEF Next, EditorStep

(* A save keeps a date only for the content that was read with it.         *)
LEMMA TrueStep ==
  ASSUME TypeOK, SeenIsTrue, DateIsOfContent, [Next]_vars
  PROVE  SeenIsTrue' /\ DateIsOfContent'
<1>. USE DEF SeenIsTrue, DateIsOfContent, DateIsTrue, TypeOK
<1>1. ASSUME NEW e \in Editors, NEW tags, NEW forgotten, NEW moved,
             Send(e, tags, forgotten, moved), kind' = kind, changes \subseteq changes'
      PROVE  SeenIsTrue'
  BY <1>1 DEF Send, Forget
<1>2. ASSUME NEW e \in Editors, CreateRow(e) \/ UpdateRow(e)
      PROVE  SeenIsTrue' /\ DateIsOfContent'
  <2>1. PICK slug \in Slugs, status \in {"DRAFT", "PUBLISHED"}, content \in Contents, sent \in Names :
          /\ row' = NewRow(e, slug, status, content, sent)
          /\ \/ seen[e] = Nothing /\ changes' = changes \cup {<<content, now + 1>>}
             \/ seen[e] # Nothing /\ changes' = changes \cup Changed(e, content, sent)
    <3>1. CASE CreateRow(e)
      BY <3>1 DEF CreateRow
    <3>2. CASE UpdateRow(e)
      BY <3>2 DEF UpdateRow
    <3>. QED
      BY <1>2, <3>1, <3>2
  <2>2. kind' = kind /\ changes \subseteq changes'
    BY <1>2, <2>1 DEF CreateRow, UpdateRow
  <2>3. kind \in {"page", "post"} => <<content, ContentUpdatedAt(e, content, sent)>> \in changes'
    <3>1. CASE seen[e] = Nothing
      BY <2>1, <3>1 DEF ContentUpdatedAt
    <3>2. CASE seen[e] # Nothing /\ content = seen[e].content
                                /\ (kind = "post" => sent = seen[e].byline)
      BY <2>2, <3>2 DEF ContentUpdatedAt
    <3>3. CASE seen[e] # Nothing /\ ~ (content = seen[e].content
                                       /\ (kind = "post" => sent = seen[e].byline))
      <4>1. Changed(e, content, sent) = {<<content, now + 1>>}
        BY <3>3 DEF Changed
      <4>. QED
        BY <2>1, <3>3, <4>1 DEF ContentUpdatedAt
    <3>. QED
      BY <3>1, <3>2, <3>3
  <2>4. DateIsOfContent'
    BY <2>1, <2>2, <2>3 DEF NewRow
  <2>5. SeenIsTrue'
    BY <1>1, <1>2, <2>2 DEF CreateRow, UpdateRow
  <2>. QED
    BY <2>4, <2>5
<1>3. ASSUME NEW e \in Editors, WriteStatus(e) \/ DeleteRow(e) \/ Rename(e)
      PROVE  SeenIsTrue' /\ DateIsOfContent'
  <2>1. kind' = kind /\ changes' = changes
    BY <1>3 DEF WriteStatus, DeleteRow, Rename
  <2>2. SeenIsTrue'
    BY <1>1, <1>3, <2>1 DEF WriteStatus, DeleteRow, Rename
  <2>3. CASE WriteStatus(e)
    <3>1. row' # Nothing => row # Nothing /\ row'.content = row.content
                                         /\ row'.contentUpdatedAt = row.contentUpdatedAt
      BY <2>3 DEF WriteStatus, Rows
    <3>. QED
      BY <2>1, <2>2, <3>1
  <2>4. CASE DeleteRow(e)
    BY <2>1, <2>2, <2>4 DEF DeleteRow
  <2>5. CASE Rename(e)
    <3>1. row' # Nothing => row # Nothing /\ row'.content = row.content
                                         /\ row'.contentUpdatedAt = row.contentUpdatedAt
      BY <2>5 DEF Rename, Rows
    <3>. QED
      BY <2>1, <2>2, <3>1
  <2>. QED
    BY <1>3, <2>3, <2>4, <2>5
<1>4. ASSUME NEW e \in Editors, ReadRow(e) \/ ReadName(e) \/ ReadAuthor(e) \/ Abandon(e)
      PROVE  SeenIsTrue' /\ DateIsOfContent'
  BY <1>4 DEF ReadRow, ReadName, ReadAuthor, Abandon, Forget, entry
<1>5. ASSUME NEW e \in Editors, Purge(e) \/ PurgeLost(e) PROVE SeenIsTrue' /\ DateIsOfContent'
  BY <1>5 DEF Purge, PurgeLost, entry
<1>6. CASE Fetch \/ Store \/ FetchFails
  BY <1>6 DEF Fetch, Store, FetchFails, entry, request
<1>7. CASE UNCHANGED vars
  BY <1>7 DEF vars, entry, request
<1>. QED
  BY <1>2, <1>3, <1>4, <1>5, <1>6, <1>7 DEF Next, EditorStep

----------------------------------------------------------------------------
(* A write leaves no copy stale without a purge on its way or a reason, if *)
(* it changes the answer only for copies it names.                         *)
LEMMA SendTells ==
  ASSUME TypeOK, StaleIsKnown, NEW e \in Editors, purge[e] = {},
         NEW tags, NEW forgotten, NEW moved, Send(e, tags, forgotten, moved),
         UNCHANGED <<kind, copy, cache>>,
         \/ Answer(copy)' = Answer(copy)
         \/ copy \in tags \cup forgotten \cup moved
  PROVE  StaleIsKnown'
<1>. SUFFICES ASSUME Stale' PROVE PurgeComing' \/ why' # "none"
  BY DEF StaleIsKnown
<1>1. Tags(copy)' = Tags(copy) /\ copy \in Tags(copy)
  BY DEF Tags
<1>2. purge' = [purge EXCEPT ![e] = tags]
  BY DEF Send
<1>3. CASE Tags(copy) \cap tags # {}
  BY <1>1, <1>2, <1>3 DEF PurgeComing, TypeOK
<1>4. CASE Tags(copy) \cap tags = {} /\ copy \in forgotten
  BY <1>4 DEF Send
<1>5. CASE Tags(copy) \cap tags = {} /\ copy \notin forgotten /\ copy \in moved
  BY <1>5 DEF Send
<1>6. CASE Tags(copy) \cap tags = {} /\ copy \notin forgotten /\ copy \notin moved
  <2>1. why' = why
    BY <1>6 DEF Send
  <2>2. Stale
    BY <1>1, <1>6 DEF Stale
  <2>3. PurgeComing => PurgeComing'
    BY <1>1, <1>2 DEF PurgeComing, TypeOK
  <2>. QED
    BY <2>1, <2>2, <2>3 DEF StaleIsKnown
<1>. QED
  BY <1>3, <1>4, <1>5, <1>6

(* The answer for a page of the site depends on the rows listed there, and *)
(* for the author's on the author.                                         *)
LEMMA AnswerOf ==
  ASSUME TypeOK, kind' = kind, author' = author, copy' = copy, Listed(copy)' = Listed(copy)
  PROVE  Answer(copy)' = Answer(copy)
BY DEF Answer

LEMMA StaleStep ==
  ASSUME TypeOK, TypeOK', \A e \in Editors : ReadBy(e), StaleIsKnown, [Next]_vars
  PROVE  StaleIsKnown'
<1>0. copy \in Slugs \/ copy = "index" \/ copy = "profile"
  BY DEF TypeOK, Copies
<1>1. ASSUME NEW e \in Editors, CreateRow(e) PROVE StaleIsKnown'
  <2>1. PICK slug \in Slugs, status \in {"DRAFT", "PUBLISHED"}, content \in Contents, sent \in Names :
          /\ row' = NewRow(e, slug, status, content, sent)
          /\ Send(e, {slug, "index"}, Profile, {})
    BY <1>1 DEF CreateRow
  <2>2. row = Nothing /\ purge[e] = {} /\ UNCHANGED <<kind, author, copy, cache>>
    BY <1>1 DEF CreateRow, ReadBy
  <2>3. row'.slug = slug
    BY <2>1 DEF NewRow
  <2>4. copy \notin {slug, "index"} \cup Profile => Listed(copy)' = Listed(copy)
    BY <1>0, <2>2, <2>3, SlugsAssumption DEF Listed, Profile
  <2>. QED
    BY <2>1, <2>2, <2>4, AnswerOf, SendTells
<1>2. ASSUME NEW e \in Editors, UpdateRow(e) PROVE StaleIsKnown'
  <2>1. PICK slug \in Slugs, status \in {"DRAFT", "PUBLISHED"}, content \in Contents, sent \in Names :
          /\ row' = NewRow(e, slug, status, content, sent)
          /\ Send(e, {slug, "index"} \cup Slug(seen[e]), Profile, Slug(row) \ Slug(seen[e]))
    BY <1>2 DEF UpdateRow
  <2>2. row # Nothing /\ purge[e] = {} /\ UNCHANGED <<kind, author, copy, cache>>
    BY <1>2 DEF UpdateRow, ReadBy
  <2>3. row'.slug = slug /\ row.slug \in Slug(row)
    BY <2>1, <2>2 DEF NewRow, Slug
  <2>4. copy \notin {slug, "index"} \cup Slug(seen[e]) \cup Profile \cup (Slug(row) \ Slug(seen[e]))
          => Listed(copy)' = Listed(copy)
    BY <1>0, <2>2, <2>3, SlugsAssumption DEF Listed, Profile
  <2>. QED
    BY <2>1, <2>2, <2>4, AnswerOf, SendTells
<1>3. ASSUME NEW e \in Editors, WriteStatus(e) PROVE StaleIsKnown'
  <2>1. /\ row # Nothing /\ purge[e] = {} /\ UNCHANGED <<kind, author, copy, cache>>
        /\ Send(e, {row.slug, "index"}, Profile, {})
    BY <1>3 DEF WriteStatus, ReadBy
  <2>2. row'.slug = row.slug
    BY <1>3, <2>1 DEF WriteStatus, TypeOK, Rows
  <2>3. copy \notin {row.slug, "index"} \cup Profile => Listed(copy)' = Listed(copy)
    BY <1>0, <2>1, <2>2, SlugsAssumption DEF Listed, Profile
  <2>. QED
    BY <2>1, <2>3, AnswerOf, SendTells
<1>4. ASSUME NEW e \in Editors, DeleteRow(e) PROVE StaleIsKnown'
  <2>1. /\ row # Nothing /\ row' = Nothing /\ purge[e] = {}
        /\ UNCHANGED <<kind, author, copy, cache>>
    BY <1>4 DEF DeleteRow, ReadBy
  <2>2. copy \notin {row.slug, "index"} \cup Profile => Listed(copy)' = Listed(copy)
    BY <1>0, <2>1, SlugsAssumption DEF Listed, Profile
  <2>3. row.slug \in Slug(row)
    BY <2>1 DEF Slug
  <2>4. CASE Send(e, {row.slug, "index"}, Profile, {})
    BY <2>1, <2>2, <2>4, AnswerOf, SendTells
  <2>5. CASE pc[e] = "deleting" /\ Send(e, {seen[e].slug, "index"}, {}, Slug(row) \ Slug(seen[e]))
    <3>1. kind # "post" /\ Slug(seen[e]) = {seen[e].slug}
      BY <2>5 DEF ReadBy, Slug
    <3>. QED
      BY <2>1, <2>2, <2>3, <2>5, <3>1, AnswerOf, SendTells DEF Profile
  <2>. QED
    BY <1>4, <2>4, <2>5 DEF DeleteRow, ReadBy
<1>5. ASSUME NEW e \in Editors, Rename(e) PROVE StaleIsKnown'
  <2>1. purge[e] = {} /\ UNCHANGED <<kind, copy, cache>>
    BY <1>5 DEF Rename, ReadBy
  <2>2. PICK name \in Names :
          /\ author' = name
          /\ \/ /\ Send(e, {"profile"}, IF name = author THEN {} ELSE {"index"} \cup Slug(row), {})
                /\ row' = row
             \/ /\ Send(e, {"profile", "index"}, Slug(row), {})
                /\ row' = IF row = Nothing THEN row ELSE [row EXCEPT !.byline = name]
    BY <1>5 DEF Rename
  <2>3. CASE copy \in {"profile", "index"} \cup Slug(row)
    <3>1. CASE name = author /\ row' = row
      <4>1. Answer(copy)' = Answer(copy)
        BY <2>1, <2>2, <3>1 DEF Answer, Listed
      <4>. QED
        BY <2>1, <2>2, <4>1, SendTells
    <3>2. CASE ~(name = author /\ row' = row)
      BY <2>1, <2>2, <2>3, <3>2, SendTells
    <3>. QED
      BY <3>1, <3>2
  <2>4. CASE copy \notin {"profile", "index"} \cup Slug(row)
    <3>1. row # Nothing => row'.slug = row.slug
      BY <2>2 DEF TypeOK, Rows
    <3>2. row = Nothing => row' = Nothing
      BY <2>2
    <3>3. \A r \in {row} \ {Nothing} : r.slug # copy
      BY <2>4 DEF Slug
    <3>4. Listed(copy) = {}
      BY <1>0, <2>4, <3>3 DEF Listed
    <3>5. Listed(copy)' = {}
      BY <1>0, <2>1, <2>4, <3>1, <3>2, <3>3 DEF Listed
    <3>6. Answer(copy)' = Answer(copy)
      BY <2>1, <2>4, <3>4, <3>5 DEF Answer
    <3>. QED
      BY <2>1, <2>2, <3>6, SendTells
  <2>. QED
    BY <2>3, <2>4
<1>6. ASSUME NEW e \in Editors, ReadRow(e) \/ ReadName(e) \/ ReadAuthor(e) \/ Abandon(e)
      PROVE  StaleIsKnown'
  <2>1. UNCHANGED <<entry, purge, reader>>
    BY <1>6 DEF ReadRow, ReadName, ReadAuthor, Abandon
  <2>. QED
    BY <2>1 DEF StaleIsKnown, Stale, PurgeComing, Answer, Listed, Tags, entry, reader
<1>7. ASSUME NEW e \in Editors, Purge(e) \/ PurgeLost(e) PROVE StaleIsKnown'
  <2>1. UNCHANGED <<entry, copy>> /\ purge' = [purge EXCEPT ![e] = {}]
    BY <1>7 DEF Purge, PurgeLost
  <2>2. Answer(copy)' = Answer(copy) /\ Tags(copy)' = Tags(copy)
    BY <2>1 DEF Answer, Listed, Tags, entry
  <2>3. CASE Tags(copy) \cap purge[e] = {}
    <3>1. UNCHANGED <<cache, why>>
      BY <1>7, <2>3 DEF Purge, PurgeLost
    <3>2. PurgeComing => PurgeComing'
      BY <2>1, <2>2, <2>3 DEF PurgeComing, TypeOK
    <3>. QED
      BY <2>2, <3>1, <3>2 DEF StaleIsKnown, Stale
  <2>4. CASE Tags(copy) \cap purge[e] # {}
    <3>1. cache' = Nothing \/ why' = "lost"
      BY <1>7, <2>4 DEF Purge, PurgeLost
    <3>. QED
      BY <3>1 DEF StaleIsKnown, Stale
  <2>. QED
    BY <2>3, <2>4
<1>8. CASE Store
  <2>1. Answer(copy)' = Answer(copy)
    BY <1>8 DEF Store, Answer, Listed, entry
  <2>2. CASE fill = Answer(copy)
    BY <1>8, <2>1, <2>2 DEF Store, StaleIsKnown, Stale
  <2>3. CASE fill # Answer(copy)
    BY <1>8, <2>3 DEF Store, StaleIsKnown
  <2>. QED
    BY <2>2, <2>3
<1>9. CASE Fetch \/ FetchFails \/ UNCHANGED vars
  <2>1. UNCHANGED <<entry, purge, copy, cache, why>>
    BY <1>9 DEF Fetch, FetchFails, vars, request, reader
  <2>. QED
    BY <2>1 DEF StaleIsKnown, Stale, PurgeComing, Answer, Listed, Tags, entry
<1>. QED
  BY <1>1, <1>2, <1>3, <1>4, <1>5, <1>6, <1>7, <1>8, <1>9 DEF Next, EditorStep

----------------------------------------------------------------------------
(* Only a request that had not read the date of an entry can change it.    *)
LEMMA DateKeptStep ==
  ASSUME TypeOK, [Next]_vars,
         row # Nothing, row' # Nothing, row'.publishedAt # row.publishedAt
  PROVE  \E e \in Editors : pc'[e] # pc[e] /\ (seen[e] = Nothing \/ seen[e].publishedAt # row.publishedAt
                                               \/ row.publishedAt = 0)
<1>1. ASSUME NEW e \in Editors, Rename(e) PROVE FALSE
  BY <1>1 DEF Rename, TypeOK, Rows
<1>2. ASSUME NEW e \in Editors,
             ReadRow(e) \/ ReadName(e) \/ ReadAuthor(e) \/ Abandon(e) \/ Purge(e) \/ PurgeLost(e)
      PROVE  FALSE
  BY <1>2 DEF ReadRow, ReadName, ReadAuthor, Abandon, Purge, PurgeLost, entry
<1>3. ~ (Fetch \/ Store \/ FetchFails \/ UNCHANGED vars)
  BY DEF Fetch, Store, FetchFails, vars, entry
<1>4. PICK e \in Editors : CreateRow(e) \/ UpdateRow(e) \/ WriteStatus(e) \/ DeleteRow(e)
  BY <1>1, <1>2, <1>3 DEF Next, EditorStep
<1>5. UpdateRow(e) \/ WriteStatus(e)
  BY <1>4 DEF CreateRow, DeleteRow
<1>6. PICK status \in {"DRAFT", "PUBLISHED"} : row'.publishedAt = PublishedAt(e, status)
  <2>1. CASE UpdateRow(e)
    BY <2>1 DEF UpdateRow, NewRow
  <2>2. CASE WriteStatus(e)
    <3>1. PICK status \in {"DRAFT", "PUBLISHED"} :
            row' = [row EXCEPT !.status = status, !.publishedAt = PublishedAt(e, status)]
      BY <2>2 DEF WriteStatus
    <3>2. row'.publishedAt = PublishedAt(e, status)
      BY <3>1 DEF TypeOK, Rows
    <3>. QED
      BY <3>2
  <2>. QED
    BY <1>5, <2>1, <2>2
<1>7. pc'[e] = "purging" /\ pc[e] # "purging"
  BY <1>5 DEF UpdateRow, WriteStatus, Send, Goto, TypeOK
<1>. QED
  BY <1>6, <1>7 DEF PublishedAt

LEMMA InitIInv == Init => IInv
<1>. SUFFICES ASSUME Init PROVE IInv
  OBVIOUS
<1>1. row \in Rows \cup {Nothing}
  BY DEF Init, Rows
<1>2. TypeOK
  BY <1>1 DEF Init, TypeOK, Rows
<1>3. PublishedIsDated
  BY DEF Init, PublishedIsDated
<1>4. DateIsOfContent
  BY DEF Init, DateIsOfContent, DateIsTrue
<1>. QED
  BY <1>2, <1>3, <1>4 DEF Init, IInv, ReadBy, SeenIsTrue, StaleIsKnown, Stale

LEMMA Inductive == IInv /\ [Next]_vars => IInv'
<1>. SUFFICES ASSUME IInv, [Next]_vars PROVE IInv'
  OBVIOUS
<1>1. TypeOK'
  BY TypeStep DEF IInv
<1>2. \A e \in Editors : ReadBy(e)'
  BY ReadByStep DEF IInv
<1>3. PublishedIsDated'
  BY DatedStep DEF IInv
<1>4. SeenIsTrue' /\ DateIsOfContent'
  BY TrueStep DEF IInv
<1>5. StaleIsKnown'
  BY <1>1, StaleStep DEF IInv
<1>. QED
  BY <1>1, <1>2, <1>3, <1>4, <1>5 DEF IInv

LEMMA Invariance == Spec => []IInv
BY InitIInv, Inductive, PTL DEF Spec

(* Entries, requests, copies and what becomes of purges have their types   *)
(* in every reachable state.                                               *)
THEOREM TypeCorrect == Spec => []TypeOK
<1>. IInv => TypeOK
  BY DEF IInv
<1>. QED
  BY Invariance, PTL

(* However saves and status changes overlap, what is published has a date  *)
(* of publication (admin.routes.ts:152-153, 209-210).                      *)
THEOREM Dated == Spec => []PublishedIsDated
<1>. IInv => PublishedIsDated
  BY DEF IInv
<1>. QED
  BY Invariance, PTL

(* The sitemap's date of a page or a post is one at which its content      *)
(* became what it is, not that of a save of the same, however many saves   *)
(* overlap (content-changed.ts:1-15, 103-110).                             *)
THEOREM TrueDates == Spec => []DateIsOfContent
<1>. IInv => DateIsOfContent
  BY DEF IInv
<1>. QED
  BY Invariance, PTL

(* A stale copy is about to be purged, or its purge was lost, came early,  *)
(* or was never to come for one of the reasons that the model names        *)
(* (revalidate.service.ts:4-17).                                           *)
THEOREM StaleKnown == Spec => []StaleIsKnown
<1>. IInv => StaleIsKnown
  BY DEF IInv
<1>. QED
  BY Invariance, PTL

(* The date of first publication gives way to no request that had read it, *)
(* whatever runs in between (admin.routes.ts:187-189).                     *)
THEOREM FirstDate == Spec => FirstDateIsKept
<1>1. IInv /\ [Next]_vars =>
        [row # Nothing /\ row' # Nothing /\ row'.publishedAt # row.publishedAt
          => \E e \in Editors : pc'[e] # pc[e] /\ (seen[e] = Nothing \/ seen[e].publishedAt # row.publishedAt
                                                  \/ row.publishedAt = 0)]_vars
  BY DateKeptStep DEF IInv
<1>. QED
  BY <1>1, Invariance, PTL DEF Spec, FirstDateIsKept

----------------------------------------------------------------------------
(***************************************************************************)
(* Signing in.                                                             *)
(***************************************************************************)

Requests ==
  [kind : {"none", "login", "verify", "setup", "enable", "disable", "change", "load"},
   step : {"none", "arriving", "mailing", "counting", "opening", "reading", "writing", "answered"},
   code : Nat, secret : Nat, enabled : BOOLEAN]

Pages == {"password"} \cup CodePages \cup Account

Mails == {"none", "arriving", "mailing", "stray"}

SignInTypeOK ==
  /\ totpSecret \in Nat /\ totpEnabled \in BOOLEAN /\ minted \in Nat
  /\ sessions \subseteq Browsers /\ challenge \subseteq Browsers
  /\ attempts \in [Browsers -> Nat]
  /\ emailed \subseteq Browsers /\ cooling \subseteq Browsers
  /\ page \in [Browsers -> Pages]
  /\ req \in [Browsers -> Requests] /\ mail \in [Browsers -> Mails]
  /\ phone \subseteq Nat /\ overtaken \in BOOLEAN /\ turns \in Nat

(* What a handler is about to write: a setup that found the authenticator  *)
(* off, or an enabling that found the secret of a code from the phone.     *)
WriteAt(b) ==
  /\ At(b, "setup", "writing") => ~req[b].enabled
  /\ req[b].kind = "enable" => req[b].code \in phone
  /\ At(b, "enable", "writing") => req[b].secret = req[b].code

WriteInv == \A b \in Browsers : WriteAt(b)

SignInInv == SignInTypeOK /\ WriteInv /\ FactorIsHeld

LEMMA NoReqIsRequest == NoReq \in Requests
BY DEF NoReq, Requests

LEMMA AskStep ==
  ASSUME SignInInv, NEW b \in Browsers, NEW code \in Nat,
         NEW what \in {"login", "verify", "setup", "enable", "disable", "change", "load"},
         Ask(b, what, code), what = "enable" => code \in phone, turns' \in Nat
  PROVE  SignInInv'
<1> USE DEF SignInInv, SignInTypeOK
<1> DEFINE r == [NoReq EXCEPT !.kind = what, !.step = "arriving", !.code = code]
<1>1. r \in Requests /\ r.kind = what /\ r.step = "arriving" /\ r.code = code
  BY NoReqIsRequest DEF Requests
<1>2. req' = [req EXCEPT ![b] = r]
  BY DEF Ask
<1> HIDE DEF r
<1>3. UNCHANGED <<user, minted, sessions, challenges, page, mail, phone, overtaken>>
  BY DEF Ask
<1>4. WriteInv' /\ req' \in [Browsers -> Requests]
  BY <1>1, <1>2, <1>3 DEF WriteInv, WriteAt, At
<1> QED BY <1>3, <1>4 DEF user, challenges, FactorIsHeld

(* Nothing of the user, of a request or of a secret changes.              *)
LEMMA SignInIdle ==
  ASSUME SignInInv, UNCHANGED <<user, minted, req, phone, overtaken>>,
         attempts' \in [Browsers -> Nat],
         page' \in [Browsers -> Pages], mail' \in [Browsers -> Mails], turns' \in Nat,
         challenge' \subseteq Browsers, sessions' \subseteq Browsers,
         emailed' \subseteq Browsers, cooling' \subseteq Browsers
  PROVE  SignInInv'
BY DEF SignInInv, SignInTypeOK, WriteInv, WriteAt, At, FactorIsHeld, user

LEMMA FormStep ==
  ASSUME SignInInv, NEW b \in Browsers, Form(b)
  PROVE  SignInInv'
<1>1. turns \in Nat /\ phone \subseteq Nat
  BY DEF SignInInv, SignInTypeOK
<1>2. turns + 1 \in Nat /\ EmailCode \in Nat /\ NoCode \in Nat
  BY <1>1, SignInBoundsAssumption DEF EmailCode, NoCode
<1>3. turns' \in Nat
  BY <1>1, <1>2 DEF Form, SubmitPassword, SubmitEmailed, SubmitShown, EmailACode, StartAgain,
                    StartSetup, ConfirmSetup, DisableMfa, ChangePassword, Reload, Turn
<1>4. CASE SubmitPassword(b)
  BY <1>3, <1>4, AskStep DEF SubmitPassword
<1>5. CASE SubmitEmailed(b)
  BY <1>2, <1>3, <1>5, AskStep DEF SubmitEmailed
<1>6. CASE SubmitShown(b)
  BY <1>1, <1>2, <1>3, <1>6, AskStep DEF SubmitShown
<1>7. CASE StartSetup(b) \/ DisableMfa(b) \/ ChangePassword(b) \/ Reload(b)
  BY <1>3, <1>7, AskStep DEF StartSetup, DisableMfa, ChangePassword, Reload
<1>8. CASE ConfirmSetup(b)
  BY <1>1, <1>3, <1>8, AskStep DEF ConfirmSetup
<1>9. CASE EmailACode(b) \/ StartAgain(b)
  <2>1. page' \in [Browsers -> Pages] /\ mail' \in [Browsers -> Mails]
    BY <1>9 DEF EmailACode, StartAgain, SignInInv, SignInTypeOK, Pages, Mails
  <2>2. UNCHANGED <<user, minted, sessions, challenges, req, phone, overtaken>>
    BY <1>9 DEF EmailACode, StartAgain
  <2> QED BY <1>3, <2>1, <2>2, SignInIdle DEF challenges, SignInInv, SignInTypeOK
<1> QED BY <1>4, <1>5, <1>6, <1>7, <1>8, <1>9 DEF Form

(* A handler that writes nothing of the user leaves a request that is not  *)
(* about to.                                                               *)
LEMMA Quiet ==
  ASSUME SignInInv, NEW b \in Browsers, NEW r \in Requests, req' = [req EXCEPT ![b] = r],
         UNCHANGED <<user, phone, overtaken>>,
         r.step # "writing", r.kind = "enable" => r.code = req[b].code /\ req[b].kind = "enable"
  PROVE  WriteInv' /\ FactorIsHeld' /\ req' \in [Browsers -> Requests]
BY DEF SignInInv, SignInTypeOK, WriteInv, WriteAt, At, FactorIsHeld, user

LEMMA StepIsRequest ==
  ASSUME SignInInv, NEW b \in Browsers,
         NEW step \in {"mailing", "counting", "opening", "reading"}
  PROVE  LET r == [req[b] EXCEPT !.step = step]
         IN r \in Requests /\ r.step = step /\ r.kind = req[b].kind /\ r.code = req[b].code
BY DEF SignInInv, SignInTypeOK, Requests

LEMMA SignInStep ==
  ASSUME SignInInv, NEW b \in Browsers, Step(b, "mailing") \/ Step(b, "counting")
           \/ Step(b, "opening") \/ Step(b, "reading"),
         UNCHANGED <<user, phone, overtaken>>
  PROVE  WriteInv' /\ FactorIsHeld' /\ req' \in [Browsers -> Requests]
<1>1. PICK step \in {"mailing", "counting", "opening", "reading"} :
        req' = [req EXCEPT ![b] = [req[b] EXCEPT !.step = step]]
  BY DEF Step, SignInInv, SignInTypeOK
<1> DEFINE r == [req[b] EXCEPT !.step = step]
<1>2. r \in Requests /\ r.step = step /\ r.kind = req[b].kind /\ r.code = req[b].code
  BY StepIsRequest
<1>3. req' = [req EXCEPT ![b] = r]
  BY <1>1
<1> HIDE DEF r
<1> QED BY <1>2, <1>3, Quiet

LEMMA SignInDone ==
  ASSUME SignInInv, NEW b \in Browsers, req' = [req EXCEPT ![b] = NoReq],
         UNCHANGED <<user, phone, overtaken>>
  PROVE  WriteInv' /\ FactorIsHeld' /\ req' \in [Browsers -> Requests]
<1>1. NoReq.step # "writing" /\ NoReq.kind # "enable"
  BY DEF NoReq
<1> QED BY <1>1, NoReqIsRequest, Quiet

LEMMA SignInLoadNext ==
  ASSUME SignInTypeOK, NEW b \in Browsers, LoadNext(b)
  PROVE  \E r \in Requests : /\ req' = [req EXCEPT ![b] = r]
                             /\ r.step = "arriving" /\ r.kind = "load"
<1> DEFINE r == [NoReq EXCEPT !.kind = "load", !.step = "arriving"]
<1>1. r \in Requests /\ r.step = "arriving" /\ r.kind = "load"
  BY NoReqIsRequest DEF Requests
<1> QED BY <1>1 DEF LoadNext

LEMMA HandlerStep ==
  ASSUME SignInInv, NEW b \in Browsers, Handler(b)
  PROVE  SignInInv'
<1> USE DEF SignInInv
<1>0. /\ SignInTypeOK /\ req[b] \in Requests /\ page[b] \in Pages
      /\ {"password", "totp", "email", "on", "off", "setup"} \subseteq Pages
      /\ turns + 1 \in Nat /\ minted + 1 \in Nat
  BY DEF SignInTypeOK, Pages, CodePages, Account
<1>1. CASE Login(b) \/ MailAtLogin(b)
  <2>1. WriteInv' /\ FactorIsHeld' /\ req' \in [Browsers -> Requests]
    BY <1>1, SignInStep, SignInDone DEF Login, MailAtLogin, SendChallengeEmail, Done
  <2>2. page' \in [Browsers -> Pages]
    BY <1>0, <1>1 DEF Login, MailAtLogin, SendChallengeEmail, Done, SignInTypeOK
  <2>3. turns' \in Nat
    BY <1>0, <1>1 DEF Login, MailAtLogin, SendChallengeEmail, Turn, SignInTypeOK
  <2>4. UNCHANGED <<user, minted, sessions, phone, overtaken>>
    BY <1>1 DEF Login, MailAtLogin, SendChallengeEmail
  <2>5. /\ challenge' \subseteq Browsers /\ attempts' \in [Browsers -> Nat]
        /\ emailed' \subseteq Browsers /\ cooling' \subseteq Browsers
    BY <1>0, <1>1 DEF Login, MailAtLogin, SendChallengeEmail, SignInTypeOK, challenges
  <2>6. mail' \in [Browsers -> Mails]
    BY <1>0, <1>1 DEF Login, MailAtLogin, SignInTypeOK, Mails
  <2> QED BY <1>0, <2>1, <2>2, <2>3, <2>4, <2>5, <2>6 DEF SignInTypeOK, user
<1>2. CASE Verify(b) \/ CountAttempt(b)
  <2>1. WriteInv' /\ FactorIsHeld' /\ req' \in [Browsers -> Requests]
    BY <1>2, SignInStep, SignInDone DEF Verify, CountAttempt, Done
  <2>2. page' \in [Browsers -> Pages]
    BY <1>0, <1>2 DEF Verify, CountAttempt, Done, SignInTypeOK
  <2>3. UNCHANGED <<user, minted, sessions, mail, phone, overtaken, turns>>
    BY <1>2 DEF Verify, CountAttempt
  <2>4. /\ challenge' \subseteq Browsers /\ attempts' \in [Browsers -> Nat]
        /\ emailed' \subseteq Browsers /\ cooling' \subseteq Browsers
    BY <1>0, <1>2 DEF Verify, CountAttempt, End, challenges, SignInTypeOK
  <2> QED BY <1>0, <2>1, <2>2, <2>3, <2>4 DEF SignInTypeOK, user
<1>3. CASE IssueSession(b)
  <2>1. PICK r \in Requests : /\ req' = [req EXCEPT ![b] = r]
                              /\ r.step = "arriving" /\ r.kind = "load"
    BY <1>0, <1>3, SignInLoadNext DEF IssueSession
  <2>2. WriteInv' /\ FactorIsHeld' /\ req' \in [Browsers -> Requests]
    BY <1>3, <2>1, Quiet DEF IssueSession
  <2> QED BY <1>0, <1>3, <2>2 DEF IssueSession, End, SignInTypeOK, user
<1>4. CASE Load(b) \/ Change(b)
  <2>1. WriteInv' /\ FactorIsHeld' /\ req' \in [Browsers -> Requests]
    BY <1>4, SignInDone DEF Load, Change, Done
  <2>2. page' \in [Browsers -> Pages]
    BY <1>0, <1>4 DEF Load, Change, Done, SignInTypeOK
  <2> QED BY <1>0, <1>4, <2>1, <2>2 DEF Load, Change, SignInTypeOK, user, challenges
<1>5. CASE RequireAuth(b)
  <2>1. WriteInv' /\ FactorIsHeld' /\ req' \in [Browsers -> Requests]
    BY <1>5, SignInStep, SignInDone DEF RequireAuth, Done
  <2>2. page' \in [Browsers -> Pages]
    BY <1>0, <1>5 DEF RequireAuth, Done, SignInTypeOK
  <2> QED BY <1>0, <1>5, <2>1, <2>2 DEF RequireAuth, SignInTypeOK, user, challenges
<1>6. CASE ReadForSetup(b) \/ ReadForEnable(b) \/ ReadForDisable(b)
  <2>1. UNCHANGED <<user, minted, sessions, challenges, mail, phone, overtaken, turns>>
    BY <1>6 DEF ReadForSetup, ReadForEnable, ReadForDisable
  <2>2. page' \in [Browsers -> Pages]
    BY <1>0, <1>6 DEF ReadForSetup, ReadForEnable, ReadForDisable, Done, SignInTypeOK
  <2>3. CASE req' = [req EXCEPT ![b] = NoReq]
    <3>1. WriteInv' /\ FactorIsHeld' /\ req' \in [Browsers -> Requests]
      BY <2>1, <2>3, SignInDone
    <3> QED BY <1>0, <2>1, <2>2, <3>1 DEF SignInTypeOK, user, challenges
  <2>4. CASE Read(b, "writing")
    <3> DEFINE r == [req[b] EXCEPT !.step = "writing", !.secret = totpSecret, !.enabled = totpEnabled]
    <3>1. req' = [req EXCEPT ![b] = r]
      BY <2>4 DEF Read, SignInTypeOK
    <3>2. /\ r \in Requests /\ r.kind = req[b].kind /\ r.code = req[b].code
          /\ r.secret = totpSecret /\ r.enabled = totpEnabled
      BY <1>0 DEF Requests, SignInTypeOK
    <3>3. /\ r.kind = "setup" => ~totpEnabled
          /\ r.kind = "enable" => r.code = totpSecret
      <4>1. req'[b].step = "writing"
        BY <1>0, <2>4 DEF Read, SignInTypeOK, Requests
      <4>2. req' # [req EXCEPT ![b] = NoReq]
        BY <1>0, <4>1 DEF NoReq, SignInTypeOK
      <4> QED BY <1>6, <3>2, <4>2 DEF ReadForSetup, ReadForEnable, ReadForDisable, At, Done
    <3> HIDE DEF r
    <3>4. WriteInv' /\ FactorIsHeld' /\ req' \in [Browsers -> Requests]
      BY <1>0, <2>1, <3>1, <3>2, <3>3 DEF SignInTypeOK, WriteInv, WriteAt, At, FactorIsHeld, user
    <3> QED BY <1>0, <2>1, <2>2, <3>4 DEF SignInTypeOK, user, challenges
  <2> QED BY <1>6, <2>3, <2>4 DEF ReadForSetup, ReadForEnable, ReadForDisable, Done
<1>7. CASE Setup(b)
  <2> DEFINE r == [req[b] EXCEPT !.step = "answered", !.code = minted + 1]
  <2>1. req' = [req EXCEPT ![b] = r]
    BY <1>7 DEF Setup, SignInTypeOK
  <2>2. r \in Requests /\ r.step = "answered" /\ r.kind = "setup"
    BY <1>0, <1>7 DEF Requests, Setup, At
  <2> HIDE DEF r
  <2>3. WriteInv' /\ req' \in [Browsers -> Requests]
    BY <1>0, <1>7, <2>1, <2>2 DEF SignInTypeOK, WriteInv, WriteAt, At, Setup
  <2>4. totpEnabled => overtaken'
    BY <1>0, <1>7 DEF Setup, Overtake, WriteInv, WriteAt, SignInTypeOK
  <2>5. FactorIsHeld'
    BY <1>7, <2>4 DEF Setup, FactorIsHeld
  <2>6. overtaken' \in BOOLEAN
    BY <1>0, <1>7 DEF Setup, Overtake, SignInTypeOK
  <2> QED BY <1>0, <1>7, <2>3, <2>5, <2>6 DEF Setup, SignInTypeOK, challenges
<1>8. CASE ShowSetup(b)
  <2>1. req' = [req EXCEPT ![b] = NoReq] /\ phone \subseteq phone' /\ phone' \subseteq Nat
    BY <1>0, <1>8 DEF ShowSetup, Done, SignInTypeOK, Requests
  <2>2. WriteInv' /\ req' \in [Browsers -> Requests]
    BY <1>0, <2>1, NoReqIsRequest DEF SignInTypeOK, WriteInv, WriteAt, At, NoReq
  <2>3. FactorIsHeld'
    BY <1>8, <2>1 DEF ShowSetup, FactorIsHeld, user
  <2>4. page' \in [Browsers -> Pages]
    BY <1>0, <1>8 DEF ShowSetup, Done, SignInTypeOK
  <2> QED BY <1>0, <1>8, <2>1, <2>2, <2>3, <2>4 DEF ShowSetup, SignInTypeOK, user, challenges
<1>9. CASE Enable(b) \/ Disable(b)
  <2>1. PICK r \in Requests : /\ req' = [req EXCEPT ![b] = r]
                              /\ r.step = "arriving" /\ r.kind = "load"
    BY <1>0, <1>9, SignInLoadNext DEF Enable, Disable
  <2>2. WriteInv' /\ req' \in [Browsers -> Requests]
    BY <1>0, <1>9, <2>1 DEF Enable, Disable, SignInTypeOK, WriteInv, WriteAt, At
  <2>3. overtaken' \in BOOLEAN
    BY <1>0, <1>9 DEF Enable, Disable, Overtake, SignInTypeOK
  <2>4. CASE Enable(b)
    <3>1. totpSecret \in phone \/ overtaken'
      BY <2>4 DEF Enable, Overtake, WriteInv, WriteAt, At
    <3> QED BY <1>0, <2>2, <2>3, <2>4, <3>1 DEF Enable, FactorIsHeld, SignInTypeOK, challenges
  <2>5. CASE Disable(b)
    BY <1>0, <2>2, <2>3, <2>5 DEF Disable, FactorIsHeld, SignInTypeOK, challenges
  <2> QED BY <1>9, <2>4, <2>5
<1> QED BY <1>1, <1>2, <1>3, <1>4, <1>5, <1>6, <1>7, <1>8, <1>9 DEF Handler

LEMMA MailerStep ==
  ASSUME SignInInv, NEW b \in Browsers, Mailer(b)
  PROVE  SignInInv'
<1>1. turns' \in Nat /\ mail' \in [Browsers -> Mails]
  BY DEF Mailer, SendEmail, MailAgain, SendChallengeEmail, MailStray, MailEnds, Turn, Mails,
         SignInInv, SignInTypeOK
<1>2. /\ UNCHANGED <<user, minted, sessions, challenge, attempts, page, req, phone, overtaken>>
      /\ emailed' \subseteq emailed \cup {b} /\ cooling' \subseteq cooling \cup {b}
  BY DEF Mailer, SendEmail, MailAgain, SendChallengeEmail, MailStray, MailEnds, challenges
<1> QED BY <1>1, <1>2, SignInIdle DEF SignInInv, SignInTypeOK

LEMMA SignInInductive == SignInInv /\ [SignInNext]_signInVars => SignInInv'
<1> SUFFICES ASSUME SignInInv, [SignInNext]_signInVars PROVE SignInInv'
  OBVIOUS
<1> USE DEF SignInInv
<1>1. ASSUME NEW b \in Browsers, Form(b) PROVE SignInInv'
  BY <1>1, FormStep
<1>2. ASSUME NEW b \in Browsers, Handler(b) PROVE SignInInv'
  BY <1>2, HandlerStep
<1>3. ASSUME NEW b \in Browsers, Cool(b) \/ Expire(b) \/ SessionEnds(b) PROVE SignInInv'
  <2>1. turns' \in Nat
    BY <1>3 DEF Cool, Expire, SessionEnds, Turn, SignInTypeOK
  <2>2. UNCHANGED <<user, minted, page, req, mail, phone, overtaken>>
    BY <1>3 DEF Cool, Expire, SessionEnds
  <2>3. /\ challenge' \subseteq challenge /\ sessions' \subseteq sessions
        /\ emailed' \subseteq emailed /\ cooling' \subseteq cooling
        /\ attempts' \in [Browsers -> Nat]
    BY <1>3 DEF Cool, Expire, SessionEnds, End, challenges, SignInTypeOK
  <2> QED BY <2>1, <2>2, <2>3, SignInIdle DEF SignInTypeOK
<1>4. CASE UNCHANGED signInVars
  BY <1>4 DEF signInVars, SignInTypeOK, WriteInv, WriteAt, At, FactorIsHeld, user, challenges
<1>5. ASSUME NEW b \in Browsers, Mailer(b) PROVE SignInInv'
  BY <1>5, MailerStep
<1> QED BY <1>1, <1>2, <1>3, <1>4, <1>5 DEF SignInNext

LEMMA SignInInvariance == SignInSpec => []SignInInv
<1>1. SignInInit => SignInInv
  <2> SUFFICES ASSUME SignInInit PROVE SignInInv
    OBVIOUS
  <2>1. SignInTypeOK
    BY NoReqIsRequest DEF SignInInit, SignInTypeOK, Pages, Mails
  <2>2. WriteInv /\ FactorIsHeld
    BY DEF SignInInit, WriteInv, WriteAt, At, NoReq, FactorIsHeld
  <2> QED BY <2>1, <2>2 DEF SignInInv
<1> QED BY <1>1, SignInInductive, PTL DEF SignInSpec

(* The user's row, the challenges, the pages and their requests are well   *)
(* formed at every step of every browser.                                  *)
THEOREM SignInTypeCorrect == SignInSpec => []SignInTypeOK
<1>1. SignInInv => SignInTypeOK
  BY DEF SignInInv
<1> QED BY <1>1, SignInInvariance, PTL

(* The authenticator in use is one that was scanned, or two handlers       *)
(* overlapped, in any number of browsers (auth.routes.ts:310-312,          *)
(* schema.prisma:630-632).                                                 *)
THEOREM FactorHeld == SignInSpec => []FactorIsHeld
<1>1. SignInInv => FactorIsHeld
  BY DEF SignInInv
<1> QED BY <1>1, SignInInvariance, PTL
=============================================================================
