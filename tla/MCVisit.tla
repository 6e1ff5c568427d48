------------------------------ MODULE MCVisit ------------------------------
(* Three paths, of which one has a static redirect to another, and two     *)
(* links: an ad with a trailing slash and the query of the old site, which *)
(* comes to every path, and another site's link to a page of a list.       *)
EXTENDS Visit

MCPaths == {"old", "here", "there"}

MCStatic == [p \in {"old"} |-> "here"]

MCTargets == {Offsite, [path |-> "here", slash |-> FALSE], [path |-> "there", slash |-> TRUE]}

MCEntered == [p \in {"here"} |-> [path |-> "there", slash |-> TRUE]]

Link(p, slash, page, legacy, source, tag, site) ==
  [url |-> [path |-> p, slash |-> slash, page |-> page, legacy |-> legacy,
            source |-> source, tag |-> tag],
   referrer |-> site]

MCLinks == {
  Link("old", TRUE, FALSE, TRUE, "ad", "cpc", None),
  Link("there", FALSE, TRUE, FALSE, None, None, "news")}
=============================================================================
