---------------------------- MODULE MCSiteCrawler ----------------------------
(***************************************************************************)
(* A site of five pages on one host, one of them excluded, b also under an *)
(* address that only differs in the order of its query; a sibling host the *)
(* page may use, and a host it may not.  Two public addresses and a        *)
(* private one.  Redirects form chains up to the limits, beyond them, and  *)
(* circles.                                                                *)
(***************************************************************************)
EXTENDS SiteCrawler

CONSTANTS a, b, bq, c, d, e, s, x, h1, h2, h3

MCUrls == {a, b, bq, c, d, e, s, x}
MCHostOf == [u \in MCUrls |-> CASE u = s -> h2 [] u = x -> h3 [] OTHER -> h1]
MCNormal == [u \in MCUrls |-> IF u = bq THEN b ELSE u]
MCHopLimit == [k \in {"probe", "crawl", "entry", "resource"} |->
                 IF k \in {"probe", "crawl"} THEN 2 ELSE 3]

HtmlPage(links) ==
  [type |-> "page", healthy |-> TRUE, html |-> TRUE, large |-> FALSE, links |-> links]
ErrorPage(links) == [HtmlPage(links) EXCEPT !.healthy = FALSE]
FeedPage(links) == [HtmlPage(links) EXCEPT !.html = FALSE]
LargePage == [HtmlPage(<<>>) EXCEPT !.large = TRUE]
BareRedirect == [type |-> "bare", healthy |-> TRUE, html |-> FALSE, large |-> FALSE, links |-> <<>>]
MalformedRedirect == [BareRedirect EXCEPT !.type = "malformed"]
RedirectTo(u) == [type |-> "redirect", to |-> u]

MCWebs ==
  {[u \in MCUrls |-> CASE u = a -> pa [] u \in {b, bq} -> pb [] u = c -> pc [] u = s -> ps
                       [] u \in {d, e, x} -> HtmlPage(<<>>)] :
     pa \in {HtmlPage(<<bq, s, x, e, b, c>>), HtmlPage(<<c, b>>), ErrorPage(<<b>>), RedirectTo(b)},
     pb \in {HtmlPage(<<a, c, d, s>>), FeedPage(<<c>>), RedirectTo(c), BareRedirect},
     pc \in {HtmlPage(<<Malformed, b>>), HtmlPage(<<bq>>), RedirectTo(s), RedirectTo(x), LargePage},
     ps \in {HtmlPage(<<a, c>>), RedirectTo(b), MalformedRedirect}}

Resolving(one, two) == [h \in {h1, h2, h3} |-> CASE h = h1 -> one [] h = h2 -> two [] h = h3 -> {1}]
MCNameServices ==
  {Resolving({1, 2}, {2}), Resolving({1, 9}, {}), Resolving({1, 2}, {9})}

Connecting(one, two) == [n \in {1, 2, 9} |-> CASE n = 1 -> one [] n = 2 -> two [] n = 9 -> "answers"]
MCNetworks ==
  {Connecting("answers", "answers"), Connecting("refuses", "answers"),
   Connecting("breaks", "answers"), Connecting("refuses", "breaks")}
=============================================================================
