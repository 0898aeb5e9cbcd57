----------------------------- MODULE SiteCrawler -----------------------------
(***************************************************************************)
(* The same-site crawl of a full triage (crawler.py, consumed by api.py)   *)
(* on top of SafeFetch: pages are fetched one at a time, breadth first,    *)
(* each result is yielded to the stream before its links are looked at.    *)
(* Single fetches (link test, page suggestion, fast probe, entry document, *)
(* subresource) are jobs of their own.                                     *)
(***************************************************************************)
EXTENDS SafeFetch, Sequences

CONSTANTS
  Starts,     \* the URLs jobs start from
  Normal,     \* [Urls -> Urls]: normalize_crawl_url, for URLs it accepts
  Excluded,   \* the URLs whose path an exclude_paths glob matches
  Malformed,  \* an href that urljoin raises ValueError for
  PageBounds, \* the values of max_pages
  DepthBounds \* the values of max_depth

VARIABLE
  crawl       \* the crawl under way

crawlVars == <<web, names, network, nameChanges, fetch, lastRequest, crawl>>

ASSUME CrawlAssumption ==
  /\ IsFiniteSet(Urls)
  /\ Starts \subseteq Urls
  /\ Malformed \notin Urls
  /\ PageBounds \subseteq Nat /\ DepthBounds \subseteq Nat
  /\ \A w \in Webs, u \in Urls :
       w[u].type = "page" => w[u].links \in Seq(Urls \cup {Malformed})
  /\ \A u \in Urls : Normal[u] \in Urls /\ HostOf[Normal[u]] = HostOf[u]
  /\ \A u \in Urls : Normal[Normal[u]] = Normal[u]
  /\ \A u \in Urls : u \in Allowed <=> Normal[u] \in Allowed

NoCrawl ==
  [pc |-> "none", start |-> Nowhere, maxPages |-> 0, maxDepth |-> 0,
   queue |-> <<>>, queued |-> {}, checked |-> 0, depth |-> 0, reports |-> <<>>]

Init ==
  /\ web = Nowhere /\ names = Nowhere /\ network = Nowhere
  /\ nameChanges = 0
  /\ fetch = NoFetch
  /\ lastRequest = Nowhere
  /\ crawl = NoCrawl

Idle == fetch.pc = "none" /\ crawl.pc = "none"

JobOver ==
  \/ fetch.pc = "done" /\ crawl.pc = "none"
  \/ crawl.pc \in {"done", "raised", "closed"}

\* test_admin_link, suggest_admin_page, a fast check's probe and the browser's
\* fetches: one fetch and no crawl.
BeginFetch(caller, url) ==
  /\ Idle
  /\ FindWorld
  /\ fetch' = Started(caller, url)
  /\ crawl' = NoCrawl

\* crawl() up to its loop.  A start URL that is not allowed ends it at once.
BeginCrawl(url, maxPages, maxDepth) ==
  /\ Idle
  /\ FindWorld
  /\ fetch' = NoFetch
  /\ crawl' = LET start == Normal[url]
              IN  IF url \notin Allowed THEN [NoCrawl EXCEPT !.pc = "done", !.start = url]
                  ELSE [NoCrawl EXCEPT !.pc = "next", !.start = start,
                          !.maxPages = maxPages, !.maxDepth = maxDepth,
                          !.queue = <<[url |-> start, depth |-> 0]>>,
                          !.queued = {start}]

\* The loop condition.
MayFetchMore == crawl.queue # <<>> /\ crawl.checked < crawl.maxPages

NextInQueue == Head(crawl.queue)

FetchNext ==
  /\ crawl.pc = "next" /\ MayFetchMore
  /\ fetch' = Started("crawl", NextInQueue.url)
  /\ crawl' = [crawl EXCEPT !.pc = "fetching", !.depth = NextInQueue.depth,
                            !.queue = Tail(@)]
  /\ UNCHANGED <<web, names, network, nameChanges, lastRequest>>

\* CrawlResult.healthy
Healthy == fetch.outcome = "answered" /\ web[fetch.at].healthy

\* The result is yielded.
Report ==
  /\ crawl.pc = "fetching" /\ fetch.pc = "done"
  /\ crawl' = [crawl EXCEPT !.pc = "yielded", !.checked = @ + 1,
                 !.reports = Append(@, [url |-> fetch.start, depth |-> crawl.depth,
                                        healthy |-> Healthy])]
  /\ UNCHANGED <<web, names, network, nameChanges, fetch, lastRequest>>

\* Mutant: only what was fetched counts as known.
Follows_UnlessReported(url, queued) ==
  /\ url \in Allowed /\ HostOf[url] = HostOf[crawl.start]
  /\ \A i \in DOMAIN crawl.reports : crawl.reports[i].url # Normal[url]
  /\ Normal[url] \notin Excluded

\* A link is queued if it normalises, is on the host of the start page, was not
\* queued before and is not excluded.
Follows(url, queued) ==
  /\ url \in Allowed
  /\ HostOf[url] = HostOf[crawl.start]
  /\ Normal[url] \notin queued
  /\ Normal[url] \notin Excluded

\* Links are only looked for in healthy HTML pages above the greatest depth.
Expands == crawl.depth < crawl.maxDepth /\ Healthy /\ web[fetch.at].html

\* One link of a page; a malformed one raises.
QueueLink(c, href) ==
  IF c.pc = "raised" THEN c
  ELSE IF href = Malformed THEN [c EXCEPT !.pc = "raised"]
  ELSE IF ~Follows(href, c.queued) THEN c
  ELSE [c EXCEPT !.queued = @ \cup {Normal[href]},
                 !.queue = Append(@, [url |-> Normal[href], depth |-> c.depth + 1])]

\* The links of a page are queued in order.
QueueLinks(links) ==
  LET after[n \in 0 .. Len(links)] ==
        IF n = 0 THEN [crawl EXCEPT !.pc = "next"] ELSE QueueLink(after[n - 1], links[n])
  IN  after[Len(links)]

\* The stream asks for more.
Expand ==
  /\ crawl.pc = "yielded"
  /\ crawl' = IF Expands THEN QueueLinks(web[fetch.at].links) ELSE [crawl EXCEPT !.pc = "next"]
  /\ UNCHANGED <<web, names, network, nameChanges, fetch, lastRequest>>

EndCrawl ==
  /\ crawl.pc = "next" /\ ~MayFetchMore
  /\ crawl' = [crawl EXCEPT !.pc = "done"]
  /\ UNCHANGED <<web, names, network, nameChanges, fetch, lastRequest>>

\* The client of the stream disconnects: the crawl ends where it waits, in a
\* fetch or at the yield.
Disconnect ==
  /\ crawl.pc \in {"fetching", "yielded"}
  /\ crawl' = [crawl EXCEPT !.pc = "closed"]
  /\ fetch' = [fetch EXCEPT !.pc = "cancelled"]
  /\ UNCHANGED <<web, names, network, nameChanges, lastRequest>>

\* The answer of a job is with its caller.
Answer ==
  /\ JobOver
  /\ fetch' = NoFetch /\ crawl' = NoCrawl
  /\ ForgetWorld

CrawlStep == FetchNext \/ Report \/ Expand \/ EndCrawl

Next ==
  \/ \E url \in Starts :
       \/ \E caller \in Callers : BeginFetch(caller, url)
       \/ \E p \in PageBounds, d \in DepthBounds : BeginCrawl(url, p, d)
  \/ CrawlStep
  \/ Disconnect
  \/ Answer
  \/ (FetchStep \/ NamesChange) /\ UNCHANGED crawl

\* Requests and resolutions have timeouts, and the server reads the generator as
\* long as its client is there.  Jobs begin, clients leave and names change as
\* they like.
Fairness ==
  /\ WF_crawlVars(FetchStep /\ UNCHANGED crawl)
  /\ WF_crawlVars(CrawlStep)

Spec == Init /\ [][Next]_crawlVars /\ Fairness

-----------------------------------------------------------------------------
(* The site as a graph, for comparison.                                    *)

\* What a crawler that asks for url finds there, if it is healthy HTML: links.
LinksAt(url) ==
  LET chain == Chain(url, HopLimit["crawl"])
      ends == Ends("crawl", url)
  IN  IF ends = {} THEN {}
      ELSE LET p == web[chain[CHOOSE n \in ends : TRUE]]
           IN  IF p.healthy /\ p.html THEN Range(p.links) ELSE {}

\* The pages a crawl may report: links on the same host, permitted, in their
\* normal form.
Eligible == {u \in Allowed : Normal[u] = u /\ HostOf[u] = HostOf[crawl.start]} \ Excluded

\* The pages that can be reached by so many links from the start.
Within ==
  LET within[d \in 0 .. crawl.maxDepth] ==
        IF d = 0 THEN {crawl.start}
        ELSE within[d - 1] \cup
               {v \in Eligible : \E u \in within[d - 1] :
                  \E l \in LinksAt(u) : l \in Allowed /\ Normal[l] = v}
  IN  within

\* How many links away from the start a page is.
AtDistance(url, d) == url \in Within[d] /\ \A e \in 0 .. d - 1 : url \notin Within[e]

\* With names that stay put, a crawl that ends reports each page within max_depth
\* links of the start once, nearest pages first and with their true distance, and
\* leaves pages out only when there are more of them than max_pages
\* (crawl, crawler.py:134-179).
CrawlIsBreadthFirst ==
  crawl.pc = "done" /\ crawl.maxPages > 0 /\ nameChanges = 0 =>
    LET r == crawl.reports
    IN  /\ \A i, j \in DOMAIN r : r[i].url = r[j].url => i = j
        /\ \A i \in DOMAIN r : r[i].depth <= crawl.maxDepth /\ AtDistance(r[i].url, r[i].depth)
        /\ \A i, j \in DOMAIN r : i < j => r[i].depth <= r[j].depth
        /\ Len(r) = Min({crawl.maxPages, Cardinality(Within[crawl.maxDepth])})

\* Every fetch ends, whatever circle of redirects the servers lay out, and every
\* crawl ends or is abandoned, whatever the pages link to
\* (the hop limits and the bounds of CrawlManifest, manifests.py:146-150).
JobsEnd == ~Idle ~> JobOver
=============================================================================
