----------------------------- MODULE Publishing -----------------------------
(***************************************************************************)
(* Publishing: what the console's editors do to an entry (a page, a post,  *)
(* a job or a case study, routes/admin.routes.ts) and what readers see of  *)
(* it through the cache of the web app (services/revalidate.service.ts,    *)
(* apps/web/src/lib/api.ts and app/api/revalidate/route.ts).               *)
(*                                                                         *)
(* A save reads the row, computes from it and writes it back, with no      *)
(* transaction over both; it then sends the tags to purge and does not     *)
(* wait.  There is one entry, and one cached copy that shows something of  *)
(* it: copies do not affect each other, so the one is any of them.  A post *)
(* belongs to one author; categories, questions and the form's checks are  *)
(* left out.                                                               *)
(***************************************************************************)
EXTENDS Naturals

CONSTANTS
  Kinds,     \* "heroPage" is a page with a header photo, which its form lacks
  Editors,   \* requests to save, publish, rename or delete
  Slugs,     \* URLs the entry may have
  Contents,  \* what it may say
  Names,     \* names its author may have
  Nothing    \* no row, no copy, no name

ASSUME KindsAssumption == Kinds \subseteq {"page", "heroPage", "post", "job", "caseStudy"}
ASSUME SlugsAssumption == Slugs \cap {"index", "profile"} = {}

VARIABLES
  kind,    \* of the entry
  row,     \* its row
  author,  \* the name of its author
  now,     \* the date
  changes, \* what the entry was changed to say, each with the date
  pc,      \* where each editor's request stands
  seen,    \* the row as the request has read it
  named,   \* the author's name as the request has read it
  purge,   \* the tags it sends to the web app
  copy,    \* the page of the site whose copy is watched
  cache,   \* that copy
  fill,    \* the answer a new copy is made from
  why      \* why no purge is coming for a copy that is stale

entry   == <<kind, row, author, now, changes>>
request == <<pc, seen, named, purge>>
reader  == <<copy, cache, fill, why>>
vars    == <<entry, request, reader>>

----------------------------------------------------------------------------
(* "index" stands for the lists and the sitemap, "profile" for the page of *)
(* the author.                                                             *)
Copies == Slugs \cup {"index", "profile"}

Rows == [slug : Slugs, status : {"DRAFT", "PUBLISHED"}, content : Contents, byline : Names,
         publishedAt : Nat, contentUpdatedAt : Nat]

(* What the API answers for a page of the site: published rows only, a     *)
(* post with its author.  ("DRAFT" stands for what is archived, too.)      *)
Listed(k) ==
  {r \in {row} \ {Nothing} :
     /\ r.status = "PUBLISHED"
     /\ k \in Slugs => r.slug = k
     /\ k = "profile" => kind = "post"}

Answer(k) ==
  [name  |-> IF k = "profile" \/ (kind = "post" /\ Listed(k) # {}) THEN author ELSE Nothing,
   shows |-> {<<r.slug, r.content, IF k = "profile" THEN Nothing ELSE r.byline>> : r \in Listed(k)}]

Answers == [name  : Names \cup {Nothing},
            shows : SUBSET (Slugs \X Contents \X (Names \cup {Nothing}))]

(* The tags of a copy; each stands also for the path that is purged with it. *)
Tags(k) == {k} \cup (IF kind \in {"job", "caseStudy"} /\ k \in Slugs THEN {"index"} ELSE {})

----------------------------------------------------------------------------
TypeOK ==
  /\ kind \in Kinds
  /\ row \in Rows \cup {Nothing}
  /\ author \in Names
  /\ now \in Nat
  /\ changes \subseteq Contents \X Nat
  /\ pc \in [Editors -> {"idle", "naming", "writing", "patching", "deleting", "renaming",
                         "purging", "done"}]
  /\ seen \in [Editors -> Rows \cup {Nothing}]
  /\ named \in [Editors -> Names \cup {Nothing}]
  /\ purge \in [Editors -> SUBSET Copies]
  /\ copy \in Copies
  /\ cache \in Answers \cup {Nothing}
  /\ fill \in Answers \cup {Nothing}
  /\ why \in {"none", "lost", "late", "unpurged", "overtaken"}

(* The entry exists, or is yet to be created.                              *)
Init ==
  /\ kind \in Kinds
  /\ author \in Names
  /\ now = 1
  /\ row \in {Nothing} \cup
       {r \in [slug : Slugs, status : {"DRAFT", "PUBLISHED"}, content : Contents,
               byline : {author}, publishedAt : {0, 1}, contentUpdatedAt : {1}] :
          r.status = "PUBLISHED" => r.publishedAt = 1}
  /\ changes = {<<r.content, 1>> : r \in {row} \ {Nothing}}
  /\ pc = [e \in Editors |-> "idle"]
  /\ seen = [e \in Editors |-> Nothing]
  /\ named = [e \in Editors |-> Nothing]
  /\ purge = [e \in Editors |-> {}]
  /\ copy \in Copies
  /\ cache = Nothing /\ fill = Nothing /\ why = "none"

PurgeComing == \E e \in Editors : Tags(copy) \cap purge[e] # {}

Goto(e, step) == pc' = [pc EXCEPT ![e] = step]

(* What a request has read ends with it.                                   *)
Forget(e) ==
  /\ seen' = [seen EXCEPT ![e] = Nothing]
  /\ named' = [named EXCEPT ![e] = Nothing]

(* The request has written, and sends the tags.  They leave out the pages  *)
(* the handler forgets, and the URL another request has moved the row to   *)
(* since this one read it.                                                 *)
Send(e, tags, forgotten, moved) ==
  /\ purge' = [purge EXCEPT ![e] = tags]
  /\ Forget(e)
  /\ Goto(e, "purging")
  /\ why' = CASE Tags(copy) \cap tags # {} -> why
              [] copy \in forgotten -> "unpurged"
              [] copy \in moved -> "overtaken"
              [] OTHER -> why

Slug(r) == {x.slug : x \in {r} \ {Nothing}}

Profile == IF kind = "post" THEN {"profile"} ELSE {}

----------------------------------------------------------------------------
(* Requests on the entry: POST when there is no row; PUT, PATCH and DELETE *)
(* when there is one.                                                      *)

ReadRow(e) ==
  /\ pc[e] = "idle"
  /\ seen' = [seen EXCEPT ![e] = row]
  /\ \/ Goto(e, IF kind = "post" THEN "naming" ELSE "writing")
     \/ row # Nothing /\ Goto(e, "patching")
     \/ row # Nothing /\ kind \in {"job", "caseStudy"} /\ Goto(e, "deleting")
  /\ UNCHANGED <<entry, named, purge, reader>>

(* withAuthorName, outside the transaction that writes.                    *)
ReadName(e) ==
  /\ pc[e] = "naming"
  /\ named' = [named EXCEPT ![e] = author]
  /\ Goto(e, "writing")
  /\ UNCHANGED <<entry, seen, purge, reader>>

(* The dates are computed from the row that was read.                      *)
PublishedAt(e, status) ==
  IF seen[e] # Nothing /\ (status = "DRAFT" \/ seen[e].publishedAt # 0)
    THEN seen[e].publishedAt
    ELSE IF status = "PUBLISHED" THEN now + 1 ELSE 0

(* Slip: every save gets a new date.                                       *)
SavedAt(e, content, sent) == IF kind = "job" THEN 0 ELSE now + 1

(* The form of a page carries no header photo, so that one that has it     *)
(* never looks the same; a case study is not compared; a post is compared  *)
(* with the author's name the form has; jobs have no such date.            *)
ContentUpdatedAt(e, content, sent) ==
  CASE kind = "job" -> 0
    [] /\ seen[e] # Nothing /\ kind \in {"page", "post"}
       /\ content = seen[e].content
       /\ kind = "post" => sent = seen[e].byline -> seen[e].contentUpdatedAt
    [] OTHER -> now + 1

NewRow(e, slug, status, content, sent) ==
  [slug |-> slug, status |-> status, content |-> content,
   byline |-> IF kind = "post" THEN named[e] ELSE author,
   publishedAt |-> PublishedAt(e, status),
   contentUpdatedAt |-> ContentUpdatedAt(e, content, sent)]

(* A second creation fails (Abandon).  What is created after a deletion is *)
(* the same entry here, which only lets more requests overlap.             *)
CreateRow(e) ==
  /\ pc[e] = "writing" /\ seen[e] = Nothing /\ row = Nothing
  /\ \E slug \in Slugs, status \in {"DRAFT", "PUBLISHED"}, content \in Contents, sent \in Names :
       /\ row' = NewRow(e, slug, status, content, sent)
       /\ changes' = changes \cup {<<content, now + 1>>}
       /\ Send(e, {slug, "index"}, Profile, {})
  /\ now' = now + 1
  /\ UNCHANGED <<kind, author, copy, cache, fill>>

(* What a save that ends now changes.  It is a change of the row as it is, *)
(* or another save or a rename came between, since the row was read or     *)
(* since the form was filled in.                                           *)
Changed(e, content, sent) ==
  IF \/ content # row.content
     \/ seen[e].content # row.content \/ seen[e].byline # row.byline
     \/ kind = "post" /\ sent # row.byline
    THEN {<<content, now + 1>>} ELSE {}

(* Slip: the URL the entry had is not purged.                              *)
UpdateForgetsOldUrl(e) ==
  /\ pc[e] = "writing" /\ seen[e] # Nothing /\ row # Nothing
  /\ \E slug \in Slugs, status \in {"DRAFT", "PUBLISHED"}, content \in Contents, sent \in Names :
       /\ row' = NewRow(e, slug, status, content, sent)
       /\ changes' = changes \cup Changed(e, content, sent)
       /\ Send(e, {slug, "index"}, Profile, Slug(row) \ Slug(seen[e]))
  /\ now' = now + 1
  /\ UNCHANGED <<kind, author, copy, cache, fill>>

(* An update of a row that is gone fails, too.  The URLs purged are the    *)
(* new one and the one that was read.                                      *)
UpdateRow(e) ==
  /\ pc[e] = "writing" /\ seen[e] # Nothing /\ row # Nothing
  /\ \E slug \in Slugs, status \in {"DRAFT", "PUBLISHED"}, content \in Contents, sent \in Names :
       /\ row' = NewRow(e, slug, status, content, sent)
       /\ changes' = changes \cup Changed(e, content, sent)
       /\ Send(e, {slug, "index"} \cup Slug(seen[e]), Profile, Slug(row) \ Slug(seen[e]))
  /\ now' = now + 1
  /\ UNCHANGED <<kind, author, copy, cache, fill>>

WriteStatus(e) ==
  /\ pc[e] = "patching" /\ row # Nothing
  /\ \E status \in {"DRAFT", "PUBLISHED"} :
       row' = [row EXCEPT !.status = status, !.publishedAt = PublishedAt(e, status)]
  /\ now' = now + 1
  /\ Send(e, {row.slug, "index"}, Profile, {})
  /\ UNCHANGED <<kind, author, changes, copy, cache, fill>>

(* A page or a post goes at once, a job or a case study after it was read: *)
(* it may have another URL by then.                                        *)
DeleteRow(e) ==
  /\ row # Nothing
  /\ \/ pc[e] = "idle" /\ kind \in {"page", "heroPage", "post"} /\ Send(e, {row.slug, "index"}, Profile, {})
     \/ pc[e] = "deleting" /\ Send(e, {seen[e].slug, "index"}, {}, Slug(row) \ Slug(seen[e]))
  /\ row' = Nothing
  /\ now' = now + 1
  /\ UNCHANGED <<kind, author, changes, copy, cache, fill>>

----------------------------------------------------------------------------
(* PUT /authors/:id.                                                       *)

ReadAuthor(e) ==
  /\ pc[e] = "idle" /\ kind = "post"
  /\ named' = [named EXCEPT ![e] = author]
  /\ Goto(e, "renaming")
  /\ UNCHANGED <<entry, seen, purge, reader>>

(* The posts follow a name that differs from the one that was read.        *)
Rename(e) ==
  /\ pc[e] = "renaming"
  /\ \E name \in Names :
       /\ author' = name
       /\ IF name = named[e]
            THEN /\ Send(e, {"profile"}, IF name = author THEN {} ELSE {"index"} \cup Slug(row), {})
                 /\ UNCHANGED row
            ELSE /\ Send(e, {"profile", "index"}, Slug(row), {})
                 /\ row' = IF row = Nothing THEN row ELSE [row EXCEPT !.byline = name]
  /\ now' = now + 1
  /\ UNCHANGED <<kind, changes, copy, cache, fill>>

(* The database refuses or fails, or the process dies.                     *)
Abandon(e) ==
  /\ pc[e] \notin {"idle", "purging", "done"}
  /\ Goto(e, "done") /\ Forget(e)
  /\ UNCHANGED <<entry, purge, reader>>

----------------------------------------------------------------------------
(* The web app.                                                            *)

Purge(e) ==
  /\ pc[e] = "purging"
  /\ Goto(e, "done")
  /\ IF Tags(copy) \cap purge[e] = {}
       THEN UNCHANGED <<cache, why>>
       ELSE cache' = Nothing /\ why' = "none"
  /\ purge' = [purge EXCEPT ![e] = {}]
  /\ UNCHANGED <<entry, seen, named, copy, fill>>

(* Refused, or not delivered within four seconds; or the process has died. *)
PurgeLost(e) ==
  /\ pc[e] = "purging"
  /\ Goto(e, "done")
  /\ why' = IF Tags(copy) \cap purge[e] = {} THEN why ELSE "lost"
  /\ purge' = [purge EXCEPT ![e] = {}]
  /\ UNCHANGED <<entry, seen, named, copy, cache, fill>>

(* Slip: a copy is kept until it is purged.                                *)
FetchWhenMissing ==
  /\ fill = Nothing /\ cache = Nothing
  /\ fill' = Answer(copy)
  /\ UNCHANGED <<entry, request, copy, cache, why>>

(* A reader asks for the page, and there is no copy or its 300 seconds are *)
(* over; the copy serves until the new one is stored.                      *)
Fetch ==
  /\ fill = Nothing
  /\ fill' = Answer(copy)
  /\ UNCHANGED <<entry, request, copy, cache, why>>

Store ==
  /\ fill # Nothing
  /\ cache' = fill /\ fill' = Nothing
  /\ why' = IF fill = Answer(copy) THEN "none" ELSE "late"
  /\ UNCHANGED <<entry, request, copy>>

(* The API did not answer: no copy is made of that.                        *)
FetchFails ==
  /\ fill # Nothing
  /\ fill' = Nothing
  /\ UNCHANGED <<entry, request, copy, cache, why>>

----------------------------------------------------------------------------
EditorStep(e) ==
  \/ ReadRow(e) \/ ReadName(e) \/ CreateRow(e) \/ UpdateRow(e) \/ WriteStatus(e) \/ DeleteRow(e)
  \/ ReadAuthor(e) \/ Rename(e)
  \/ Abandon(e) \/ Purge(e) \/ PurgeLost(e)

Next ==
  \/ \E e \in Editors : EditorStep(e)
  \/ Fetch \/ Store \/ FetchFails

Spec == Init /\ [][Next]_vars

(* The page has readers, and the API answers time and again.               *)
FairSpec == Spec /\ WF_vars(Fetch) /\ SF_vars(Store)

----------------------------------------------------------------------------
(***************************************************************************)
(* Properties                                                              *)
(***************************************************************************)

(* What is published has a date of publication (admin.routes.ts:152-153,   *)
(* 209-210), whichever saves and status changes overlap.                   *)
PublishedIsDated == row # Nothing /\ row.status = "PUBLISHED" => row.publishedAt # 0

(* The date of first publication is kept by every request that read it     *)
(* (admin.routes.ts:187-189).                                              *)
FirstDateIsKept ==
  [][row # Nothing /\ row' # Nothing /\ row'.publishedAt # row.publishedAt
       => \E e \in Editors : pc'[e] # pc[e] /\ (seen[e] = Nothing \/ seen[e].publishedAt # row.publishedAt
                                                \/ row.publishedAt = 0)]_vars

(* The date the sitemap gives is one at which the entry was changed to say *)
(* what it says.                                                           *)
DateIsTrue == row # Nothing => <<row.content, row.contentUpdatedAt>> \in changes

(* A page or a post has a date at which its content changed to what it is: *)
(* neither a save of the same nor one that was overtaken gives it another  *)
(* (content-changed.ts:1-15).  It is not so of a page with a header photo  *)
(* (admin.routes.ts:142, against 134-138) nor of a case study (1584,       *)
(* against schema.prisma:230-231): there every save gives another date.    *)
DateIsOfContent == kind \in {"page", "post"} => DateIsTrue

Stale == cache # Nothing /\ cache # Answer(copy)

(* A copy that shows what is no longer so is about to be purged, unless    *)
(* the purge was lost, the copy was made from an answer older than the     *)
(* purge, the row had another URL meanwhile, or it is the author's page    *)
(* after a post was saved, or the article after its author was renamed.    *)
StaleIsKnown == Stale => PurgeComing \/ why # "none"

(* However purges are lost and overtaken, readers see in the end what was  *)
(* saved last (revalidate.service.ts:12-16).                               *)
ReadersCatchUp == <>[]~Stale
=============================================================================
