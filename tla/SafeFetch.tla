------------------------------ MODULE SafeFetch ------------------------------
(***************************************************************************)
(* Fetching a URL with redirects followed by hand, the three ways the code *)
(* does it: probe_url (probes.py), SafeCrawlFetcher (crawler.py) and       *)
(* fetch_browser_redirect_chain (browser_runner.py), the last for the      *)
(* entry document, which may change origin, and for subresources, which    *)
(* may not.  Every hop resolves its host again, checks what it got and     *)
(* connects to those very addresses, one after the other.                  *)
(*                                                                         *)
(* One fetch is under way at a time.  The servers and the name service are *)
(* the environment: the job finds some web, and names may come to resolve  *)
(* differently while it waits.                                             *)
(***************************************************************************)
EXTENDS Naturals, FiniteSetsExt

CONSTANTS
  Urls,           \* absolute URLs, with the scheme and port the code insists on or not
  HostOf,         \* [Urls -> Hosts]
  Allowed,        \* the URLs that validate_probe_url accepts
  Addresses,      \* as numbers, in the order they are tried
  Public,         \* the addresses that are global
  HopLimit,       \* by caller: MAX_REDIRECTS, MAX_BROWSER_REDIRECTS
  Webs,           \* what servers may answer: a set of functions from Urls
  NameServices,   \* what hosts may resolve to: functions from hosts to sets of addresses
  Networks,       \* how connections may go: functions from Addresses to Links
  MaxNameChanges, \* bound on the changes of the name service during a job
  Nowhere         \* no request was sent yet

\* An address takes the connection and answers, refuses it, or breaks off in
\* the middle of the body.
Connections == {"answers", "refuses", "breaks"}

Callers == {"probe", "crawl", "entry", "resource"}

\* entry and resource are the two uses of fetch_browser_redirect_chain.
Browser == {"entry", "resource"}

ASSUME FetchAssumption ==
  /\ Allowed \subseteq Urls
  /\ Addresses \subseteq Nat
  /\ HopLimit \in [Callers -> Nat]
  /\ NameServices \subseteq [{HostOf[u] : u \in Urls} -> SUBSET Addresses]
  /\ Networks \subseteq [Addresses -> Connections]
  /\ \A w \in Webs, u \in Urls :
       /\ w[u].type \in {"page", "bare", "malformed", "redirect"}
       /\ w[u].type = "redirect" => w[u].to \in Urls

VARIABLES
  web,          \* what each URL answers: a page, a redirect, a 3xx without Location or
                \* with one that urljoin raises ValueError for
  names,        \* what each host resolves to; nothing, if the resolver fails
  network,      \* how each address behaves
  nameChanges,  \* how often names changed during this job
  fetch,        \* the fetch under way
  lastRequest   \* history: the request sent last

fetchVars == <<web, names, network, nameChanges, fetch, lastRequest>>

-----------------------------------------------------------------------------
NoFetch == [caller |-> "probe", start |-> Nowhere, at |-> Nowhere, hop |-> 0,
            pc |-> "none", left |-> {}, outcome |-> "none"]

Started(caller, url) ==
  [caller |-> caller, start |-> url, at |-> url, hop |-> 0,
   pc |-> "resolve", left |-> {}, outcome |-> "none"]

Ended(outcome) == [fetch EXCEPT !.pc = "done", !.left = {}, !.outcome = outcome]

\* Mutant: one public address is enough.
Trusted_SomePublic(addresses) == addresses \cap Public # {}

\* validate_resolved_addresses
Trusted(addresses) == addresses # {} /\ addresses \subseteq Public

\* validate_probe_url, as each hop calls it.
Authorised(url) == url \in Allowed

\* validate_probe_url and the resolver, at the beginning of a hop.
Resolve ==
  /\ fetch.pc = "resolve"
  /\ LET addresses == names[HostOf[fetch.at]]
     IN  fetch' =
           IF ~Authorised(fetch.at) THEN Ended("unsafe target")
           ELSE IF addresses = {} THEN Ended("resolution failed")
           ELSE IF ~Trusted(addresses) THEN Ended("unsafe target")
           ELSE [fetch EXCEPT !.pc = "send", !.left = addresses]
  /\ UNCHANGED <<web, names, network, nameChanges, lastRequest>>

\* Cross-origin redirects are blocked for subresources only.
MayFollow(to) == fetch.caller = "resource" => HostOf[to] = HostOf[fetch.start]

\* Mutant: a redirect less is followed than the limit says.
AtLimit_OneEarly == fetch.hop + 1 >= HopLimit[fetch.caller]

AtLimit == fetch.hop >= HopLimit[fetch.caller]

\* Mutant: hops are not counted.
NextHop_NotCounted(to) == [fetch EXCEPT !.pc = "resolve", !.at = to, !.left = {}]

NextHop(to) == [fetch EXCEPT !.pc = "resolve", !.at = to, !.hop = @ + 1, !.left = {}]

\* What each caller does with a redirect.  The probe looks at the target before
\* it counts, and looks at its addresses even if it does not go there; the
\* crawler counts and leaves the target to the next hop.
Redirected(to) ==
  CASE fetch.caller = "probe" ->
         IF to \notin Allowed THEN Ended("unsafe redirect target")
         ELSE IF AtLimit THEN [fetch EXCEPT !.pc = "last target", !.left = {}]
         ELSE NextHop(to)
    [] fetch.caller = "crawl" ->
         IF AtLimit THEN Ended("too many redirects") ELSE NextHop(to)
    [] fetch.caller \in Browser ->
         IF to \notin Allowed THEN Ended("unsafe target")
         ELSE IF AtLimit THEN Ended("too many redirects")
         ELSE IF ~MayFollow(to) THEN Ended("cross-origin redirect")
         ELSE NextHop(to)

\* What each caller does with a complete answer.  A 3xx without a Location is an
\* error to the crawler and an answer to the others; of a malformed one the crawler
\* catches urljoin's ValueError, the others do not; a body over the limit is an error
\* to all but the probe, which has no limit.
Answered ==
  LET answer == web[fetch.at]
  IN  CASE answer.type = "redirect" -> Redirected(answer.to)
        [] answer.type = "bare" ->
             IF fetch.caller # "crawl" THEN Ended("answered")
             ELSE IF AtLimit THEN Ended("too many redirects")
             ELSE Ended("invalid redirect")
        [] answer.type = "malformed" ->
             IF fetch.caller # "crawl" THEN Ended("raised")
             ELSE IF AtLimit THEN Ended("too many redirects")
             ELSE Ended("request failed")
        [] answer.type = "page" ->
             IF answer.large /\ fetch.caller # "probe" THEN Ended("too large")
             ELSE Ended("answered")

\* A RequestError: the next address is tried, if there is one.
Refused ==
  LET left == fetch.left \ {Min(fetch.left)}
  IN  IF left = {} THEN Ended("request failed") ELSE [fetch EXCEPT !.left = left]

\* One request to the next address.  The crawler has the headers before the
\* body: it follows a redirect without reading on, and does not try another
\* address once the body breaks off.
Attempt ==
  /\ fetch.pc = "send"
  /\ LET address == Min(fetch.left)
     IN  /\ lastRequest' = [url |-> fetch.at, address |-> address]
         /\ fetch' =
              CASE network[address] = "answers" -> Answered
                [] network[address] = "refuses" -> Refused
                [] network[address] = "breaks" ->
                     IF fetch.caller # "crawl" THEN Refused
                     ELSE IF web[fetch.at].type = "page" THEN Ended("request failed")
                     ELSE Answered
  /\ UNCHANGED <<web, names, network, nameChanges>>

\* The probe at its limit resolves the host it will not follow to.
CheckLastTarget ==
  /\ fetch.pc = "last target"
  /\ fetch' = IF Trusted(names[HostOf[web[fetch.at].to]])
              THEN Ended("redirect limit exceeded") ELSE Ended("unsafe redirect target")
  /\ UNCHANGED <<web, names, network, nameChanges, lastRequest>>

FetchStep == Resolve \/ Attempt \/ CheckLastTarget

\* The name service changes its mind while a job is under way.
NamesChange ==
  /\ fetch.pc \in {"resolve", "send", "last target"}
  /\ nameChanges < MaxNameChanges
  /\ names' \in NameServices \ {names}
  /\ nameChanges' = nameChanges + 1
  /\ UNCHANGED <<web, network, fetch, lastRequest>>

\* A job finds the world in some state; between jobs it does not matter.
FindWorld ==
  /\ web' \in Webs
  /\ names' \in NameServices
  /\ network' \in Networks
  /\ nameChanges' = 0
  /\ lastRequest' = Nowhere

ForgetWorld ==
  /\ web' = Nowhere /\ names' = Nowhere /\ network' = Nowhere
  /\ nameChanges' = 0
  /\ lastRequest' = Nowhere

-----------------------------------------------------------------------------
(* The chain as a whole, for comparison: a definition over the web itself, *)
(* without hops, attempts or order.                                        *)

\* The URL a chain has reached after n redirects.
Chain(start, limit) ==
  LET url[n \in 0 .. limit] ==
        IF n = 0 THEN start
        ELSE IF web[url[n - 1]].type = "redirect" THEN web[url[n - 1]].to ELSE url[n - 1]
  IN  url

\* Some address gives the caller what it needs from url.
Served(caller, url) ==
  /\ url \in Allowed
  /\ Trusted(names[HostOf[url]])
  /\ LET open == {a \in names[HostOf[url]] : network[a] # "refuses"}
     IN  IF caller = "crawl"
         THEN open # {} /\ (network[Min(open)] = "breaks" => web[url].type # "page")
         ELSE \E a \in open : network[a] = "answers"

\* The chain from start ends after n redirects with an answer for the caller.
EndsAt(caller, start, n) ==
  LET url == Chain(start, HopLimit[caller])
      last == web[url[n]]
  IN  /\ \A i \in 0 .. n : Served(caller, url[i])
      /\ \A i \in 0 .. n - 1 : web[url[i]].type = "redirect"
      /\ caller = "resource" => \A i \in 0 .. n : HostOf[url[i]] = HostOf[start]
      /\ \/ last.type = "page" /\ (caller # "probe" => ~last.large)
         \/ last.type = "bare" /\ caller # "crawl"

\* The places where the chain may end: one at most.
Ends(caller, start) ==
  {n \in 0 .. HopLimit[caller] : EndsAt(caller, start, n)}

-----------------------------------------------------------------------------
(* Properties.                                                             *)

\* Whatever names resolve to from one hop to the next, a request only goes to an
\* allowed URL at a public address, and a subresource is never asked for at
\* another origin (probes.py:52-90, crawler.py:189-222, browser_runner.py:174-193,
\* 280-327 and 501-505).
RequestsStayInside ==
  [][lastRequest' # lastRequest /\ lastRequest' # Nowhere =>
       /\ lastRequest'.url \in Allowed
       /\ lastRequest'.address \in Public
       /\ fetch.caller = "resource" => HostOf[lastRequest'.url] = HostOf[fetch.start]
    ]_fetchVars

\* With names that stay put, a fetch is answered exactly if its chain ends within
\* the limit at something the caller accepts, and then reports the end of the
\* chain as its final URL (final_url in probes.py:142-151, crawler.py:235-263,
\* browser_runner.py:493-500).
AnswerIsTheEndOfTheChain ==
  fetch.pc = "done" /\ nameChanges = 0 =>
    LET ends == Ends(fetch.caller, fetch.start)
    IN  /\ fetch.outcome = "answered" <=> ends # {}
        /\ \A n \in ends : fetch.at = Chain(fetch.start, HopLimit[fetch.caller])[n]
=============================================================================
