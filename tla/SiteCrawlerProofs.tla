-------------------------- MODULE SiteCrawlerProofs --------------------------
(***************************************************************************)
(* For any web, name service and network: a request only goes where it may *)
(* go, the answer of a fetch is the end of its chain of redirects, and a   *)
(* crawl reports its site breadth first and within its bounds.             *)
(***************************************************************************)
EXTENDS SiteCrawler, FiniteSetTheorems, SequenceTheorems, WellFoundedInduction, TLAPS

-----------------------------------------------------------------------------
(* Induction on the natural numbers, for sets of them: the theorems of the *)
(* library take an operator.                                               *)

Before == {p \in Nat \X Nat : p[1] < p[2]}

\* A set of numbers has a least one.
LEMMA SomeLeast ==
  ASSUME NEW T \in SUBSET Nat, T # {}
  PROVE  \E x \in T : \A y \in T : x <= y
<1>1. IsWellFoundedOn(Before, Nat)
  BY NatLessThanWellFounded DEF OpToRel, Before
<1>2. PICK x \in T : \A y \in T : ~(<<y, x>> \in Before)
  BY <1>1, WFMin
<1>3. \A y \in T : ~ (y < x)
  BY <1>2 DEF Before
<1>4. QED
  BY <1>3

LEMMA MinIsLeast ==
  ASSUME NEW T \in SUBSET Nat, T # {}
  PROVE  Min(T) \in T /\ \A y \in T : Min(T) <= y
BY SomeLeast DEF Min

LEMMA LeastIsMin ==
  ASSUME NEW T \in SUBSET Nat, NEW x \in T, \A y \in T : x <= y
  PROVE  Min(T) = x
<1>1. Min(T) \in T /\ Min(T) <= x /\ x <= Min(T)
  BY MinIsLeast
<1>2. Min(T) \in Nat /\ x \in Nat
  BY <1>1
<1>3. QED
  BY <1>1, <1>2

\* What holds of 0, and of the next number after each it holds of, holds of all.
LEMMA UpTo ==
  ASSUME NEW N \in Nat, NEW T, 0 \in T, \A n \in 1 .. N : n - 1 \in T => n \in T
  PROVE  \A n \in 0 .. N : n \in T
<1> SUFFICES ASSUME NEW m \in 0 .. N, m \notin T PROVE FALSE
  OBVIOUS
<1> DEFINE Out == {n \in 0 .. N : n \notin T}
<1>1. Out \in SUBSET Nat /\ Out # {}
  OBVIOUS
<1>2. PICK x \in Out : \A y \in Out : x <= y
  BY <1>1, SomeLeast
<1>3. x \in 0 .. N /\ x # 0
  OBVIOUS
<1>4. x - 1 \in 0 .. N /\ x - 1 \notin Out
  BY <1>2, <1>3
<1>5. QED
  BY <1>3, <1>4

\* Where N steps lead from s.
IsRun(g, N, S, s, step) ==
  g \in [0 .. N -> S] /\ g[0] = s /\ \A n \in 1 .. N : g[n] = step[<<n, g[n - 1]>>]

\* A step function can be followed for any number of steps.
LEMMA Iterated ==
  ASSUME NEW N \in Nat, NEW S, NEW s \in S, NEW step \in [(1 .. N) \X S -> S]
  PROVE  \E g : IsRun(g, N, S, s, step)
<1> DEFINE Steps(g, m) == g[0] = s /\ \A n \in 1 .. m : g[n] = step[<<n, g[n - 1]>>]
           T == {m \in 0 .. N : \E g \in [0 .. N -> S] : Steps(g, m)}
<1>1. 0 \in T
  <2> DEFINE h == [n \in 0 .. N |-> s]
  <2>1. h \in [0 .. N -> S] /\ h[0] = s /\ \A n \in 1 .. 0 : FALSE
    OBVIOUS
  <2> HIDE DEF h
  <2>2. Steps(h, 0)
    BY <2>1
  <2>3. QED
    BY <2>1, <2>2
<1>2. ASSUME NEW m \in 1 .. N, m - 1 \in T PROVE m \in T
  <2>1. PICK g \in [0 .. N -> S] : Steps(g, m - 1)
    BY <1>2
  <2>2. /\ m - 1 \in 0 .. N /\ m \in 0 .. N /\ m # 0
        /\ \A n \in 1 .. m : n \in 0 .. N /\ n - 1 \in 0 .. N /\ n - 1 # m
        /\ \A n \in 1 .. m : n = m \/ n \in 1 .. m - 1
    OBVIOUS
  <2>3. <<m, g[m - 1]>> \in (1 .. N) \X S
    BY <2>2
  <2>4. PICK v \in S : v = step[<<m, g[m - 1]>>]
    BY <2>3
  <2> DEFINE h == [g EXCEPT ![m] = v]
  <2>5. h \in [0 .. N -> S]
    OBVIOUS
  <2>6. h[0] = s
    BY <2>1, <2>2
  <2>7. ASSUME NEW n \in 1 .. m PROVE h[n] = step[<<n, h[n - 1]>>]
    <3>1. h[n - 1] = g[n - 1]
      BY <2>2
    <3>2. CASE n = m
      BY <2>2, <2>4, <3>1, <3>2
    <3>3. CASE n # m
      <4>1. n \in 1 .. m - 1 /\ h[n] = g[n]
        BY <2>2, <3>3
      <4>2. QED
        BY <2>1, <3>1, <4>1
    <3>4. QED
      BY <3>2, <3>3
  <2>8. QED
    BY <2>2, <2>5, <2>6, <2>7
<1> HIDE DEF T
<1>3. \A m \in 0 .. N : m \in T
  BY <1>1, <1>2, UpTo
<1>4. N \in T
  BY <1>3
<1>5. QED
  BY <1>4 DEF T, IsRun

-----------------------------------------------------------------------------
(* Chains of redirects.                                                    *)

\* Where one redirect leads.
Target(url) == IF web[url].type = "redirect" THEN web[url].to ELSE url

IsChain(p, start, limit) ==
  /\ p \in [0 .. limit -> Urls]
  /\ p[0] = start
  /\ \A n \in 1 .. limit : p[n] = Target(p[n - 1])

\* From each page there is one chain.
LEMMA ChainsExist ==
  ASSUME web \in Webs, NEW start \in Urls, NEW limit \in Nat
  PROVE  \E p : IsChain(p, start, limit)
<1> DEFINE step == [q \in (1 .. limit) \X Urls |-> Target(q[2])]
<1>1. \A u \in Urls : Target(u) \in Urls
  BY FetchAssumption DEF Target
<1>2. step \in [(1 .. limit) \X Urls -> Urls]
  BY <1>1
<1>3. \A n \in 1 .. limit, u \in Urls : step[<<n, u>>] = Target(u)
  OBVIOUS
<1> HIDE DEF step
<1>4. PICK p : IsRun(p, limit, Urls, start, step)
  BY <1>2, Iterated
<1>5. \A n \in 1 .. limit : n - 1 \in 0 .. limit /\ p[n - 1] \in Urls
  BY <1>4 DEF IsRun
<1>6. QED
  BY <1>3, <1>4, <1>5 DEF IsChain, IsRun

LEMMA ChainsAreUnique ==
  ASSUME NEW start, NEW limit \in Nat, NEW p, NEW q,
         IsChain(p, start, limit), IsChain(q, start, limit)
  PROVE  p = q
<1> DEFINE T == {n \in 0 .. limit : p[n] = q[n]}
<1>1. 0 \in T
  BY DEF IsChain
<1>2. ASSUME NEW n \in 1 .. limit, n - 1 \in T PROVE n \in T
  BY <1>2 DEF IsChain
<1> HIDE DEF T
<1>3. \A n \in 0 .. limit : n \in T
  BY <1>1, <1>2, UpTo
<1>4. \A n \in 0 .. limit : p[n] = q[n]
  BY <1>3 DEF T
<1>5. QED
  BY <1>4 DEF IsChain

\* Chain is defined by recursion, and is that chain.
LEMMA ChainIsTheChain ==
  ASSUME web \in Webs, NEW start \in Urls, NEW limit \in Nat, NEW p,
         IsChain(p, start, limit)
  PROVE  Chain(start, limit) = p
<1> DEFINE Recursive(f) ==
      f = [n \in 0 .. limit |->
             IF n = 0 THEN start
             ELSE IF web[f[n - 1]].type = "redirect" THEN web[f[n - 1]].to ELSE f[n - 1]]
<1>1. Chain(start, limit) = CHOOSE f : Recursive(f)
  BY DEF Chain
<1>2. ASSUME NEW f, Recursive(f) PROVE f = p
  <2>1. f[0] = start /\ \A n \in 1 .. limit : f[n] = Target(f[n - 1])
    <3>1. f[0] = start
      BY <1>2
    <3>2. ASSUME NEW n \in 1 .. limit PROVE f[n] = Target(f[n - 1])
      <4>1. n \in 0 .. limit /\ n # 0
        OBVIOUS
      <4>2. QED
        BY <1>2, <4>1 DEF Target
    <3>3. QED
      BY <3>1, <3>2
  <2> DEFINE T == {n \in 0 .. limit : f[n] = p[n]}
  <2>2. 0 \in T
    BY <2>1 DEF IsChain
  <2>3. ASSUME NEW n \in 1 .. limit, n - 1 \in T PROVE n \in T
    BY <2>1, <2>3 DEF IsChain
  <2> HIDE DEF T
  <2>4. \A n \in 0 .. limit : n \in T
    BY <2>2, <2>3, UpTo
  <2>5. \A n \in 0 .. limit : f[n] = p[n]
    BY <2>4 DEF T
  <2>6. f = [n \in 0 .. limit |-> f[n]]
    BY <1>2
  <2>7. QED
    BY <2>5, <2>6 DEF IsChain
<1>3. Recursive(p)
  <2>1. \A n \in 0 .. limit : p[n] = (IF n = 0 THEN start
             ELSE IF web[p[n - 1]].type = "redirect" THEN web[p[n - 1]].to ELSE p[n - 1])
    BY DEF IsChain, Target
  <2>2. QED
    BY <2>1 DEF IsChain
<1> HIDE DEF Recursive
<1>4. QED
  BY <1>1, <1>2, <1>3

-----------------------------------------------------------------------------
(* What holds of a fetch.                                                  *)

Outcomes ==
  {"none", "answered", "unsafe target", "resolution failed", "request failed",
   "too large", "invalid redirect", "too many redirects", "cross-origin redirect",
   "unsafe redirect target", "redirect limit exceeded", "raised"}

FetchType ==
  [caller : Callers, start : Urls \cup {Nowhere}, at : Urls \cup {Nowhere}, hop : Nat,
   pc : {"none", "resolve", "send", "last target", "done", "cancelled"},
   left : SUBSET Addresses, outcome : Outcomes]

\* A job has found a world, and a fetch that is not cancelled is somewhere in it.
FetchTyped ==
  /\ fetch \in FetchType
  /\ nameChanges \in Nat
  /\ ~Idle => web \in Webs /\ names \in NameServices /\ network \in Networks
  /\ fetch.pc \notin {"none", "cancelled"} => fetch.start \in Urls /\ fetch.at \in Urls

\* The addresses to be tried are those that were checked, and a subresource has not
\* left its origin.
SafeInv ==
  /\ fetch.pc = "send" =>
       fetch.at \in Allowed /\ fetch.left # {} /\ fetch.left \subseteq Public
  /\ fetch.caller = "resource" /\ fetch.pc \in {"resolve", "send"} =>
       HostOf[fetch.at] = HostOf[fetch.start]

OnChain(p) == IsChain(p, fetch.start, HopLimit[fetch.caller])

\* The caller can use what it finds at url.
Final(url) ==
  \/ web[url].type = "page" /\ (fetch.caller # "probe" => ~web[url].large)
  \/ web[url].type = "bare" /\ fetch.caller # "crawl"

\* The fetch has come along p, by redirects it could follow.
Reached(p) ==
  /\ fetch.hop \in 0 .. HopLimit[fetch.caller]
  /\ fetch.at = p[fetch.hop]
  /\ \A i \in 0 .. fetch.hop - 1 : web[p[i]].type = "redirect"
  /\ fetch.caller = "resource" =>
       \A i \in 0 .. fetch.hop : HostOf[p[i]] = HostOf[fetch.start]
  /\ fetch.pc = "last target" =>
       fetch.hop = HopLimit[fetch.caller] /\ web[fetch.at].type = "redirect"
  /\ fetch.pc = "done" /\ fetch.outcome = "answered" => Final(fetch.at)

\* EndsAt, along p.
EndsOn(p, n) ==
  /\ \A i \in 0 .. n : Served(fetch.caller, p[i])
  /\ \A i \in 0 .. n - 1 : web[p[i]].type = "redirect"
  /\ fetch.caller = "resource" => \A i \in 0 .. n : HostOf[p[i]] = HostOf[fetch.start]
  /\ Final(p[n])

EndsNowhere(p) == \A n \in 0 .. HopLimit[fetch.caller] : ~EndsOn(p, n)

\* An address that is of no use to the caller.
Fails(a) == network[a] = "refuses" \/ (fetch.caller # "crawl" /\ network[a] = "breaks")

\* With names that stay put: the chain was served so far, only useless addresses were
\* tried before those that are left, and a fetch that is done ended where p does.
ServedSoFar(p) ==
  /\ \A i \in 0 .. fetch.hop - 1 : Served(fetch.caller, p[i])
  /\ fetch.pc = "send" =>
       /\ Trusted(names[HostOf[fetch.at]])
       /\ fetch.left \subseteq names[HostOf[fetch.at]]
       /\ \A a \in names[HostOf[fetch.at]] \ fetch.left :
            Fails(a) /\ \A b \in fetch.left : a < b
  /\ fetch.pc = "done" =>
       IF fetch.outcome = "answered" THEN EndsOn(p, fetch.hop) ELSE EndsNowhere(p)

Along(p) == OnChain(p) /\ Reached(p) /\ (nameChanges = 0 => ServedSoFar(p))

ChainInv == fetch.pc \notin {"none", "cancelled"} => \E p : Along(p)

FetchInv == FetchTyped /\ SafeInv /\ ChainInv

\* The world of a fetch stays as it is.
SameWorld == UNCHANGED <<web, names, network, nameChanges>>

LEMMA SameServed ==
  ASSUME SameWorld, NEW caller, NEW url
  PROVE  Served(caller, url)' <=> Served(caller, url)
<1>1. {a \in names'[HostOf[url]] : network'[a] # "refuses"}
        = {a \in names[HostOf[url]] : network[a] # "refuses"}
  BY DEF SameWorld
<1>2. names' = names /\ network' = network /\ web' = web
  BY DEF SameWorld
<1>3. QED
  BY <1>1, <1>2 DEF Served, Trusted

LEMMA SameEnds ==
  ASSUME SameWorld, fetch'.caller = fetch.caller, fetch'.start = fetch.start, NEW p
  PROVE  /\ \A n : EndsOn(p, n)' <=> EndsOn(p, n)
         /\ EndsNowhere(p)' <=> EndsNowhere(p)
         /\ OnChain(p)' <=> OnChain(p)
<1>1. \A c, u : Served(c, u)' <=> Served(c, u)
  BY SameServed
<1>2. web' = web
  BY DEF SameWorld
<1>3. \A u : Final(u)' <=> Final(u)
  BY <1>2 DEF Final
<1>4. ASSUME NEW n PROVE EndsOn(p, n)' <=> EndsOn(p, n)
  BY <1>1, <1>2, <1>3 DEF EndsOn
<1>5. EndsNowhere(p)' <=> EndsNowhere(p)
  BY <1>4 DEF EndsNowhere
<1>6. OnChain(p)' <=> OnChain(p)
  BY <1>2 DEF OnChain, IsChain, Target
<1>7. QED
  BY <1>4, <1>5, <1>6

\* What is at a place of the chain, and next.
LEMMA AlongTheChain ==
  ASSUME FetchTyped, fetch.pc \notin {"none", "cancelled"}, NEW p, OnChain(p), Reached(p)
  PROVE  /\ HopLimit[fetch.caller] \in Nat /\ fetch.hop \in Nat
         /\ fetch.hop <= HopLimit[fetch.caller]
         /\ web \in Webs /\ fetch.at \in Urls /\ fetch.start \in Urls
         /\ \A n \in 0 .. HopLimit[fetch.caller] : p[n] \in Urls
         /\ fetch.hop < HopLimit[fetch.caller] => p[fetch.hop + 1] = Target(fetch.at)
<1>1. HopLimit[fetch.caller] \in Nat /\ fetch.hop \in Nat
  BY FetchAssumption DEF FetchTyped, FetchType
<1>2. web \in Webs /\ fetch.at \in Urls /\ fetch.start \in Urls
  BY DEF FetchTyped, Idle
<1>3. fetch.hop <= HopLimit[fetch.caller]
  <2>1. fetch.hop \in 0 .. HopLimit[fetch.caller]
    BY DEF Reached
  <2>2. QED
    BY <1>1, <2>1
<1>4. ASSUME fetch.hop < HopLimit[fetch.caller] PROVE p[fetch.hop + 1] = Target(fetch.at)
  <2>1. fetch.hop + 1 \in 1 .. HopLimit[fetch.caller] /\ fetch.hop + 1 - 1 = fetch.hop
    BY <1>1, <1>4
  <2>2. \A n \in 1 .. HopLimit[fetch.caller] : p[n] = Target(p[n - 1])
    BY DEF OnChain, IsChain
  <2>3. PICK n : n = fetch.hop + 1
    OBVIOUS
  <2>4. p[n] = Target(p[n - 1])
    BY <2>1, <2>2, <2>3
  <2>5. n - 1 = fetch.hop
    BY <1>1, <2>3
  <2>6. p[n - 1] = fetch.at
    BY <2>5 DEF Reached
  <2>7. QED
    BY <2>3, <2>4, <2>6
<1>5. \A n \in 0 .. HopLimit[fetch.caller] : p[n] \in Urls
  BY DEF OnChain, IsChain
<1>6. QED
  BY <1>1, <1>2, <1>3, <1>4, <1>5

\* A fetch that cannot go on from where it is has no end.
LEMMA NoEnd ==
  ASSUME FetchTyped, fetch.pc \notin {"none", "cancelled"}, NEW p, OnChain(p), Reached(p),
         \/ ~Served(fetch.caller, fetch.at)
         \/ web[fetch.at].type # "redirect" /\ ~Final(fetch.at)
         \/ /\ web[fetch.at].type = "redirect"
            /\ \/ fetch.hop = HopLimit[fetch.caller]
               \/ ~Served(fetch.caller, web[fetch.at].to)
               \/ fetch.caller = "resource" /\ HostOf[web[fetch.at].to] # HostOf[fetch.start]
  PROVE  EndsNowhere(p)
<1> SUFFICES ASSUME NEW n \in 0 .. HopLimit[fetch.caller], EndsOn(p, n) PROVE FALSE
  BY DEF EndsNowhere
<1>1. /\ HopLimit[fetch.caller] \in Nat /\ fetch.hop \in Nat /\ n \in Nat
      /\ fetch.hop <= HopLimit[fetch.caller] /\ n <= HopLimit[fetch.caller]
  BY AlongTheChain
<1>2. web[p[n]].type # "redirect"
  BY DEF EndsOn, Final
<1>3. n >= fetch.hop
  <2>1. n \notin 0 .. fetch.hop - 1
    BY <1>2 DEF Reached
  <2>2. QED
    BY <1>1, <2>1
<1>4. fetch.hop \in 0 .. n
  BY <1>1, <1>3
<1>5. Served(fetch.caller, fetch.at)
  BY <1>4 DEF EndsOn, Reached
<1>6. CASE n = fetch.hop
  BY <1>2, <1>5, <1>6 DEF EndsOn, Reached
<1>7. CASE n # fetch.hop
  <2>1. fetch.hop < HopLimit[fetch.caller] /\ fetch.hop + 1 \in 0 .. n /\ fetch.hop \in 0 .. n - 1
    BY <1>1, <1>3, <1>7
  <2>2. web[fetch.at].type = "redirect"
    BY <2>1 DEF EndsOn, Reached
  <2>3. p[fetch.hop + 1] = web[fetch.at].to
    BY <2>1, <2>2, AlongTheChain DEF Target
  <2>4. /\ Served(fetch.caller, web[fetch.at].to)
        /\ fetch.caller = "resource" => HostOf[web[fetch.at].to] = HostOf[fetch.start]
    BY <2>1, <2>3 DEF EndsOn
  <2>5. fetch.hop # HopLimit[fetch.caller]
    BY <1>1, <2>1
  <2>6. QED
    BY <1>5, <2>2, <2>4, <2>5
<1>8. QED
  BY <1>6, <1>7

\* The fetch ends where it is, rightly.
LEMMA EndedKeeps ==
  ASSUME FetchInv, SameWorld, UNCHANGED crawl, fetch.pc \in {"resolve", "send", "last target"},
         NEW outcome \in Outcomes, fetch' = Ended(outcome),
         NEW p, Along(p),
         outcome = "answered" => Final(fetch.at),
         nameChanges = 0 /\ outcome = "answered" => EndsOn(p, fetch.hop),
         nameChanges = 0 /\ outcome # "answered" => EndsNowhere(p)
  PROVE  FetchInv'
<1> USE DEF FetchInv
<1>1. /\ fetch' \in FetchType /\ fetch'.pc = "done" /\ fetch'.outcome = outcome
      /\ fetch'.hop = fetch.hop /\ fetch'.at = fetch.at
      /\ fetch'.start = fetch.start /\ fetch'.caller = fetch.caller
  BY DEF FetchTyped, FetchType, Ended
<1>2. web' = web /\ names' = names /\ network' = network /\ nameChanges' = nameChanges
  BY DEF SameWorld
<1>3. FetchTyped'
  BY <1>1, <1>2 DEF FetchTyped, Idle
<1>4. SafeInv'
  BY <1>1 DEF SafeInv
<1>5. Reached(p)'
  <2>1. outcome = "answered" => Final(fetch.at)'
    BY <1>1, <1>2 DEF Final
  <2>2. QED
    BY <1>1, <1>2, <2>1 DEF Along, Reached
<1>6. nameChanges' = 0 => ServedSoFar(p)'
  BY <1>1, <1>2, SameServed, SameEnds DEF Along, ServedSoFar
<1>7. OnChain(p)'
  BY <1>1, SameEnds DEF Along
<1>8. QED
  BY <1>3, <1>4, <1>5, <1>6, <1>7 DEF ChainInv, Along

\* The fetch follows a redirect that it may follow.
LEMMA HopKeeps ==
  ASSUME FetchInv, SameWorld, UNCHANGED crawl, fetch.pc = "send",
         web[fetch.at].type = "redirect", fetch' = NextHop(web[fetch.at].to),
         fetch.hop < HopLimit[fetch.caller], MayFollow(web[fetch.at].to),
         NEW p, Along(p),
         nameChanges = 0 => Served(fetch.caller, fetch.at)
  PROVE  FetchInv'
<1> USE DEF FetchInv
<1> PICK to : to = web[fetch.at].to
  OBVIOUS
<1>1. to \in Urls
  BY AlongTheChain, FetchAssumption DEF Along
<1>2. /\ fetch' \in FetchType /\ fetch'.pc = "resolve" /\ fetch'.at = to
      /\ fetch'.hop = fetch.hop + 1
      /\ fetch'.start = fetch.start /\ fetch'.caller = fetch.caller
  <2>1. fetch' = NextHop(to)
    OBVIOUS
  <2>2. fetch.hop + 1 \in Nat
    BY AlongTheChain DEF Along
  <2>3. QED
    BY <1>1, <2>1, <2>2 DEF FetchTyped, FetchType, NextHop
<1>3. web' = web /\ names' = names /\ network' = network /\ nameChanges' = nameChanges
  BY DEF SameWorld
<1>4. FetchTyped'
  BY <1>1, <1>2, <1>3 DEF FetchTyped, Idle
<1>5. SafeInv'
  BY <1>2 DEF SafeInv, MayFollow
<1>6. /\ fetch.hop \in Nat /\ HopLimit[fetch.caller] \in Nat
      /\ p[fetch.hop + 1] = to
  BY AlongTheChain DEF Along, Target
<1>7. \A i \in 0 .. fetch.hop : i \in 0 .. fetch.hop - 1 \/ i = fetch.hop
  BY <1>6
<1>8. fetch.hop + 1 \in 0 .. HopLimit[fetch.caller] /\ fetch.hop + 1 - 1 = fetch.hop
  BY <1>6
<1>9. \A i \in 0 .. fetch.hop + 1 : i \in 0 .. fetch.hop \/ i = fetch.hop + 1
  BY <1>6
<1>10. Reached(p)'
  <2>1. Reached(p)
    BY DEF Along
  <2>2. \A i \in 0 .. fetch.hop : web'[p[i]].type = "redirect"
    BY <1>3, <1>7, <2>1 DEF Reached
  <2>3. fetch.caller = "resource" =>
          \A i \in 0 .. fetch.hop + 1 : HostOf[p[i]] = HostOf[fetch.start]
    BY <1>6, <1>9, <2>1 DEF Reached, MayFollow
  <2>4. QED
    BY <1>2, <1>6, <1>8, <2>2, <2>3 DEF Reached
<1>11. ASSUME nameChanges' = 0 PROVE ServedSoFar(p)'
  <2>1. \A i \in 0 .. fetch.hop : Served(fetch.caller, p[i])
    BY <1>3, <1>7, <1>11 DEF Along, Reached, ServedSoFar
  <2> PICK c : c = fetch.caller
    OBVIOUS
  <2>2. \A i \in 0 .. fetch.hop : Served(c, p[i])'
    BY <2>1, SameServed
  <2>3. c = fetch'.caller /\ fetch'.pc \notin {"send", "done"} /\ fetch'.hop - 1 = fetch.hop
    BY <1>2, <1>6
  <2>4. QED
    BY <2>2, <2>3 DEF ServedSoFar
<1>12. OnChain(p)'
  BY <1>2, SameEnds DEF Along
<1>13. QED
  BY <1>4, <1>5, <1>10, <1>11, <1>12 DEF ChainInv, Along

\* What the attempt at the next address tells, with names that stay put.
LEMMA AttemptTells ==
  ASSUME FetchInv, fetch.pc = "send", NEW p, Along(p), nameChanges = 0,
         NEW m, m = Min(fetch.left)
  PROVE  /\ ~Fails(m) /\ (network[m] = "answers" \/ web[fetch.at].type # "page") =>
              Served(fetch.caller, fetch.at)
         /\ ~Fails(m) /\ network[m] # "answers" /\ web[fetch.at].type = "page" =>
              ~Served(fetch.caller, fetch.at)
         /\ Fails(m) /\ fetch.left = {m} => ~Served(fetch.caller, fetch.at)
<1> DEFINE found == names[HostOf[fetch.at]]
           open == {a \in found : network[a] # "refuses"}
<1>1. /\ fetch.left \in SUBSET Nat /\ fetch.left # {}
      /\ web \in Webs /\ names \in NameServices /\ network \in Networks
      /\ fetch.at \in Urls /\ fetch.at \in Allowed
  BY FetchAssumption DEF FetchInv, FetchTyped, FetchType, SafeInv, Idle
<1>2. found \in SUBSET Nat /\ \A a \in found : network[a] \in Connections
  BY <1>1, FetchAssumption
<1>3. /\ Trusted(found) /\ fetch.left \subseteq found
      /\ \A a \in found \ fetch.left : Fails(a) /\ \A b \in fetch.left : a < b
  BY DEF Along, ServedSoFar
<1> HIDE DEF found
<1>4. m \in fetch.left /\ m \in Nat /\ \A b \in fetch.left : m <= b
  BY <1>1, MinIsLeast
<1>5. open = {a \in names[HostOf[fetch.at]] : network[a] # "refuses"} /\ open \in SUBSET Nat
  BY <1>2 DEF found
<1>6. CASE fetch.caller = "crawl"
  <2>1. \A a : Fails(a) <=> network[a] = "refuses"
    BY <1>6 DEF Fails
  <2>2. \A a \in open : a \in fetch.left
    BY <1>3, <2>1
  <2>3. ASSUME ~Fails(m) PROVE Min(open) = m
    <3>1. m \in open
      BY <1>3, <1>4, <2>1, <2>3
    <3>2. \A a \in open : m <= a
      BY <1>4, <2>2
    <3> HIDE DEF open
    <3>3. QED
      BY <1>5, <3>1, <3>2, LeastIsMin
  <2>4. ASSUME ~Fails(m) PROVE open # {} /\ (network[m] = "breaks" <=> network[m] # "answers")
    BY <1>2, <1>3, <1>4, <2>1, <2>4 DEF Connections
  <2>5. ASSUME Fails(m), fetch.left = {m} PROVE open = {}
    BY <2>1, <2>2, <2>5
  <2>6. Served(fetch.caller, fetch.at) <=>
          open # {} /\ (network[Min(open)] = "breaks" => web[fetch.at].type # "page")
    BY <1>1, <1>3, <1>5, <1>6 DEF Served, found
  <2> HIDE DEF open
  <2>7. QED
    BY <2>3, <2>4, <2>5, <2>6
<1>7. CASE fetch.caller # "crawl"
  <2>1. \A a : Fails(a) <=> (network[a] = "refuses" \/ network[a] = "breaks")
    BY <1>7 DEF Fails
  <2>2. \A a \in found : ~Fails(a) <=> network[a] = "answers"
    BY <1>2, <2>1 DEF Connections
  <2>3. Served(fetch.caller, fetch.at) <=> \E a \in found : network[a] = "answers"
    BY <1>1, <1>3, <1>7 DEF Served, found
  <2>4. QED
    BY <1>3, <1>4, <2>2, <2>3
<1>8. QED
  BY <1>6, <1>7

\* The next address was of no use.
LEMMA RefusedKeeps ==
  ASSUME FetchInv, SameWorld, UNCHANGED crawl, fetch.pc = "send", fetch' = Refused,
         Fails(Min(fetch.left))
  PROVE  FetchInv'
<1> PICK m : m = Min(fetch.left)
  OBVIOUS
<1> PICK p : Along(p)
  BY DEF FetchInv, ChainInv
<1> DEFINE left == fetch.left \ {m}
<1>1. fetch' = IF left = {} THEN Ended("request failed") ELSE [fetch EXCEPT !.left = left]
  BY DEF Refused
<1>2. /\ fetch.left \in SUBSET Addresses /\ fetch.left # {} /\ fetch.left \in SUBSET Nat
      /\ m \in fetch.left /\ \A b \in fetch.left : m <= b
  <2>1. /\ fetch.left \in SUBSET Addresses /\ fetch.left # {} /\ fetch.left \in SUBSET Nat
    BY FetchAssumption DEF FetchInv, FetchTyped, FetchType, SafeInv
  <2>2. QED
    BY <2>1, MinIsLeast
<1>3. CASE left = {}
  <2>1. nameChanges = 0 => EndsNowhere(p)
    <3>1. fetch.left = {m}
      BY <1>2, <1>3
    <3>2. nameChanges = 0 => ~Served(fetch.caller, fetch.at)
      BY <3>1, AttemptTells
    <3>3. QED
      BY <3>2, NoEnd DEF FetchInv, Along
  <2>2. fetch' = Ended("request failed")
    BY <1>1, <1>3
  <2> HIDE DEF left
  <2>3. "request failed" \in Outcomes /\ "request failed" # "answered"
    BY DEF Outcomes
  <2>4. QED
    BY <2>1, <2>2, <2>3, EndedKeeps
<1>4. CASE left # {}
  <2>0. fetch' = [fetch EXCEPT !.left = left] /\ left \in SUBSET Addresses
    BY <1>1, <1>2, <1>4
  <2>1. /\ fetch' \in FetchType /\ fetch'.pc = "send" /\ fetch'.left = left
        /\ fetch'.hop = fetch.hop /\ fetch'.at = fetch.at
        /\ fetch'.start = fetch.start /\ fetch'.caller = fetch.caller
    <3> HIDE DEF left
    <3>1. QED
      BY <2>0 DEF FetchInv, FetchTyped, FetchType
  <2>2. web' = web /\ names' = names /\ network' = network /\ nameChanges' = nameChanges
    BY DEF SameWorld
  <2>3. FetchTyped'
    BY <2>1, <2>2 DEF FetchInv, FetchTyped, Idle
  <2>4. SafeInv'
    BY <1>4, <2>1 DEF FetchInv, SafeInv
  <2>5. Reached(p)'
    BY <2>1, <2>2 DEF Along, Reached
  <2>6. OnChain(p)'
    BY <2>1, SameEnds DEF Along
  <2>7. ASSUME nameChanges' = 0 PROVE ServedSoFar(p)'
    <3> PICK c, found : c = fetch.caller /\ found = names[HostOf[fetch.at]]
      OBVIOUS
    <3>1. /\ \A i \in 0 .. fetch.hop - 1 : Served(c, p[i])
          /\ Trusted(found) /\ fetch.left \subseteq found
          /\ \A a \in found \ fetch.left : Fails(a) /\ \A b \in fetch.left : a < b
      BY <2>2, <2>7 DEF Along, ServedSoFar
    <3>2. \A i \in 0 .. fetch.hop - 1 : Served(c, p[i])'
      BY <3>1, SameServed
    <3>3. \A a \in found \ left : Fails(a) /\ \A b \in left : a < b
      <4>1. \A b \in left : m < b
        BY <1>2
      <4>2. \A a \in found \ left : a = m \/ a \in found \ fetch.left
        OBVIOUS
      <4>3. QED
        BY <3>1, <4>1, <4>2
    <3>4. \A a : Fails(a)' <=> Fails(a)
      BY <2>1, <2>2 DEF Fails
    <3>5. Trusted(found)' /\ left \subseteq found
      BY <3>1 DEF Trusted
    <3>6. c = fetch'.caller /\ found = names'[HostOf[fetch'.at]] /\ fetch'.hop = fetch.hop
      BY <2>1, <2>2
    <3> HIDE DEF left
    <3>7. QED
      BY <2>1, <3>2, <3>3, <3>4, <3>5, <3>6 DEF ServedSoFar
  <2>8. QED
    BY <2>3, <2>4, <2>5, <2>6, <2>7, <2>1 DEF FetchInv, ChainInv, Along
<1>5. QED
  BY <1>3, <1>4

\* The fetch fails where it is, for a reason.
LEMMA FailedKeeps ==
  ASSUME FetchInv, SameWorld, UNCHANGED crawl, fetch.pc \in {"resolve", "send", "last target"},
         NEW outcome \in Outcomes, outcome # "answered", fetch' = Ended(outcome),
         nameChanges = 0 =>
           \/ ~Served(fetch.caller, fetch.at)
           \/ web[fetch.at].type # "redirect" /\ ~Final(fetch.at)
           \/ /\ web[fetch.at].type = "redirect"
              /\ \/ fetch.hop = HopLimit[fetch.caller]
                 \/ ~Served(fetch.caller, web[fetch.at].to)
                 \/ fetch.caller = "resource" /\ HostOf[web[fetch.at].to] # HostOf[fetch.start]
  PROVE  FetchInv'
<1>1. PICK p : Along(p)
  BY DEF FetchInv, ChainInv
<1>2. nameChanges = 0 => EndsNowhere(p)
  BY <1>1, NoEnd DEF FetchInv, Along
<1>3. QED
  BY <1>1, <1>2, EndedKeeps

\* The probe looks at the target it will not follow to.
LEMMA LastTargetKeeps ==
  ASSUME FetchInv, SameWorld, UNCHANGED crawl, fetch.pc = "send",
         web[fetch.at].type = "redirect", fetch.hop = HopLimit[fetch.caller],
         fetch' = [fetch EXCEPT !.pc = "last target", !.left = {}]
  PROVE  FetchInv'
<1>1. /\ fetch' \in FetchType /\ fetch'.pc = "last target"
      /\ fetch'.hop = fetch.hop /\ fetch'.at = fetch.at
      /\ fetch'.start = fetch.start /\ fetch'.caller = fetch.caller
  BY DEF FetchInv, FetchTyped, FetchType
<1>2. web' = web /\ names' = names /\ network' = network /\ nameChanges' = nameChanges
  BY DEF SameWorld
<1>3. FetchTyped' /\ SafeInv'
  BY <1>1, <1>2 DEF FetchInv, FetchTyped, SafeInv, Idle
<1>4. PICK p : Along(p)
  BY DEF FetchInv, ChainInv
<1>5. Reached(p)' /\ OnChain(p)'
  BY <1>1, <1>2, <1>4, SameEnds DEF Along, Reached
<1>6. nameChanges' = 0 => ServedSoFar(p)'
  BY <1>1, <1>2, <1>4, SameServed DEF Along, ServedSoFar
<1>7. QED
  BY <1>3, <1>5, <1>6 DEF FetchInv, ChainInv, Along

\* The server's answer ends the fetch, or leads it on.
LEMMA AnsweredKeeps ==
  ASSUME FetchInv, SameWorld, UNCHANGED crawl, fetch.pc = "send", fetch' = Answered,
         nameChanges = 0 => Served(fetch.caller, fetch.at)
  PROVE  FetchInv'
<1> PICK p : Along(p)
  BY DEF FetchInv, ChainInv
<1>1. /\ HopLimit[fetch.caller] \in Nat /\ fetch.hop \in Nat
      /\ fetch.hop <= HopLimit[fetch.caller]
      /\ web \in Webs /\ fetch.at \in Urls /\ fetch.caller \in Callers
  BY AlongTheChain DEF FetchInv, FetchTyped, FetchType, Along
<1>2. web[fetch.at].type \in {"page", "bare", "malformed", "redirect"}
  BY <1>1, FetchAssumption
<1>3. AtLimit <=> fetch.hop = HopLimit[fetch.caller]
  BY <1>1 DEF AtLimit
<1>4. ASSUME web[fetch.at].type # "redirect", Final(fetch.at), fetch' = Ended("answered")
      PROVE  FetchInv'
  <2>1. nameChanges = 0 => EndsOn(p, fetch.hop)
    <3> SUFFICES ASSUME nameChanges = 0 PROVE EndsOn(p, fetch.hop)
      OBVIOUS
    <3>1. \A i \in 0 .. fetch.hop : i \in 0 .. fetch.hop - 1 \/ i = fetch.hop
      BY <1>1
    <3>2. QED
      BY <1>4, <3>1 DEF Along, Reached, ServedSoFar, EndsOn
  <2>2. "answered" \in Outcomes
    BY DEF Outcomes
  <2>3. QED
    BY <1>4, <2>1, <2>2, EndedKeeps
<1>5. CASE web[fetch.at].type = "page"
  <2>1. CASE web[fetch.at].large /\ fetch.caller # "probe"
    <3>1. fetch' = Ended("too large") /\ ~Final(fetch.at)
      BY <1>5, <2>1 DEF Answered, Final
    <3>2. "too large" \in Outcomes /\ "too large" # "answered"
      BY DEF Outcomes
    <3>3. QED
      BY <1>5, <3>1, <3>2, FailedKeeps
  <2>2. CASE ~(web[fetch.at].large /\ fetch.caller # "probe")
    <3>1. fetch' = Ended("answered") /\ Final(fetch.at)
      BY <1>5, <2>2 DEF Answered, Final
    <3>2. QED
      BY <1>4, <1>5, <3>1
  <2>3. QED
    BY <2>1, <2>2
<1>6. CASE web[fetch.at].type = "bare"
  <2>1. CASE fetch.caller # "crawl"
    <3>1. fetch' = Ended("answered") /\ Final(fetch.at)
      BY <1>6, <2>1 DEF Answered, Final
    <3>2. QED
      BY <1>4, <1>6, <3>1
  <2>2. CASE fetch.caller = "crawl"
    <3>1. /\ fetch' = Ended("too many redirects") \/ fetch' = Ended("invalid redirect")
          /\ ~Final(fetch.at)
      BY <1>6, <2>2 DEF Answered, Final
    <3>2. /\ "too many redirects" \in Outcomes /\ "too many redirects" # "answered"
          /\ "invalid redirect" \in Outcomes /\ "invalid redirect" # "answered"
      BY DEF Outcomes
    <3>3. QED
      BY <1>6, <3>1, <3>2, FailedKeeps
  <2>3. QED
    BY <2>1, <2>2
<1>7. CASE web[fetch.at].type = "redirect"
  <2> PICK to : to = web[fetch.at].to
    OBVIOUS
  <2>1. fetch' = Redirected(to)
    BY <1>7 DEF Answered
  <2>2. ASSUME ~AtLimit, MayFollow(to), fetch' = NextHop(to) PROVE FetchInv'
    BY <1>1, <1>3, <1>7, <2>2, HopKeeps
  <2>3. ASSUME NEW outcome \in Outcomes, outcome # "answered", fetch' = Ended(outcome),
               AtLimit \/ to \notin Allowed \/ ~MayFollow(to)
        PROVE  FetchInv'
    <3>1. \/ fetch.hop = HopLimit[fetch.caller]
          \/ ~Served(fetch.caller, to)
          \/ fetch.caller = "resource" /\ HostOf[to] # HostOf[fetch.start]
      BY <1>3, <2>3 DEF Served, MayFollow
    <3>2. QED
      BY <1>7, <2>3, <3>1, FailedKeeps
  <2>4. /\ "unsafe redirect target" \in Outcomes /\ "unsafe redirect target" # "answered"
        /\ "too many redirects" \in Outcomes /\ "too many redirects" # "answered"
        /\ "cross-origin redirect" \in Outcomes /\ "cross-origin redirect" # "answered"
        /\ "unsafe target" \in Outcomes /\ "unsafe target" # "answered"
    BY DEF Outcomes
  <2>5. CASE fetch.caller = "probe"
    <3>1. MayFollow(to)
      BY <2>5 DEF MayFollow
    <3>2. fetch' = IF to \notin Allowed THEN Ended("unsafe redirect target")
                   ELSE IF AtLimit THEN [fetch EXCEPT !.pc = "last target", !.left = {}]
                   ELSE NextHop(to)
      BY <2>1, <2>5 DEF Redirected, Browser
    <3>3. CASE to \notin Allowed
      BY <2>3, <2>4, <3>2, <3>3
    <3>4. CASE to \in Allowed /\ AtLimit
      BY <1>3, <1>7, <3>2, <3>4, LastTargetKeeps
    <3>5. CASE to \in Allowed /\ ~AtLimit
      BY <2>2, <3>1, <3>2, <3>5
    <3>6. QED
      BY <3>3, <3>4, <3>5
  <2>6. CASE fetch.caller = "crawl"
    <3>1. MayFollow(to)
      BY <2>6 DEF MayFollow
    <3>2. fetch' = IF AtLimit THEN Ended("too many redirects") ELSE NextHop(to)
      BY <2>1, <2>6 DEF Redirected, Browser
    <3>3. QED
      BY <2>2, <2>3, <2>4, <3>1, <3>2
  <2>7. CASE fetch.caller \in Browser
    <3>1. fetch' = IF to \notin Allowed THEN Ended("unsafe target")
                   ELSE IF AtLimit THEN Ended("too many redirects")
                   ELSE IF ~MayFollow(to) THEN Ended("cross-origin redirect")
                   ELSE NextHop(to)
      BY <2>1, <2>7 DEF Redirected, Browser
    <3>2. QED
      BY <2>2, <2>3, <2>4, <3>1
  <2>8. QED
    BY <1>1, <2>5, <2>6, <2>7 DEF Callers, Browser
<1>8. CASE web[fetch.at].type = "malformed"
  <2>1. /\ \/ fetch' = Ended("raised")
           \/ fetch' = Ended("too many redirects")
           \/ fetch' = Ended("request failed")
        /\ ~Final(fetch.at)
    BY <1>8 DEF Answered, Final
  <2>2. /\ "raised" \in Outcomes /\ "raised" # "answered"
        /\ "too many redirects" \in Outcomes /\ "too many redirects" # "answered"
        /\ "request failed" \in Outcomes /\ "request failed" # "answered"
    BY DEF Outcomes
  <2>3. QED
    BY <1>8, <2>1, <2>2, FailedKeeps
<1>9. QED
  BY <1>2, <1>5, <1>6, <1>7, <1>8

LEMMA AttemptKeeps ==
  ASSUME FetchInv, Attempt, UNCHANGED crawl
  PROVE  FetchInv'
<1> PICK m : m = Min(fetch.left)
  OBVIOUS
<1>1. SameWorld /\ fetch.pc = "send"
  BY DEF Attempt, SameWorld
<1> PICK p : Along(p)
  BY <1>1 DEF FetchInv, ChainInv
<1>2. network[m] \in Connections
  <2>1. /\ fetch.left \in SUBSET Addresses /\ fetch.left # {} /\ fetch.left \in SUBSET Nat
        /\ network \in Networks
    BY <1>1, FetchAssumption DEF FetchInv, FetchTyped, FetchType, SafeInv, Idle
  <2>2. m \in Addresses
    BY <2>1, MinIsLeast
  <2>3. QED
    BY <2>1, <2>2, FetchAssumption
<1>3. fetch' = CASE network[m] = "answers" -> Answered
                 [] network[m] = "refuses" -> Refused
                 [] network[m] = "breaks" ->
                      IF fetch.caller # "crawl" THEN Refused
                      ELSE IF web[fetch.at].type = "page" THEN Ended("request failed")
                      ELSE Answered
  BY DEF Attempt
<1>4. ASSUME Fails(m), fetch' = Refused PROVE FetchInv'
  BY <1>1, <1>4, RefusedKeeps
<1>5. ASSUME ~Fails(m), network[m] = "answers" \/ web[fetch.at].type # "page", fetch' = Answered
      PROVE  FetchInv'
  <2>1. nameChanges = 0 => Served(fetch.caller, fetch.at)
    BY <1>1, <1>5, AttemptTells
  <2>2. QED
    BY <1>1, <1>5, <2>1, AnsweredKeeps
<1>6. ASSUME ~Fails(m), network[m] # "answers", web[fetch.at].type = "page",
             fetch' = Ended("request failed")
      PROVE  FetchInv'
  <2>1. nameChanges = 0 => ~Served(fetch.caller, fetch.at)
    BY <1>1, <1>6, AttemptTells
  <2>2. "request failed" \in Outcomes /\ "request failed" # "answered"
    BY DEF Outcomes
  <2>3. QED
    BY <1>1, <1>6, <2>1, <2>2, FailedKeeps
<1>7. CASE network[m] = "answers"
  BY <1>3, <1>5, <1>7 DEF Fails
<1>8. CASE network[m] = "refuses"
  BY <1>3, <1>4, <1>8 DEF Fails
<1>9. CASE network[m] = "breaks"
  <2>1. fetch' = IF fetch.caller # "crawl" THEN Refused
                 ELSE IF web[fetch.at].type = "page" THEN Ended("request failed")
                 ELSE Answered
    BY <1>3, <1>9
  <2>2. CASE fetch.caller # "crawl"
    BY <1>4, <1>9, <2>1, <2>2 DEF Fails
  <2>3. CASE fetch.caller = "crawl" /\ web[fetch.at].type = "page"
    BY <1>6, <1>9, <2>1, <2>3 DEF Fails
  <2>4. CASE fetch.caller = "crawl" /\ web[fetch.at].type # "page"
    BY <1>5, <1>9, <2>1, <2>4 DEF Fails
  <2>5. QED
    BY <2>2, <2>3, <2>4
<1>10. QED
  BY <1>2, <1>7, <1>8, <1>9 DEF Connections

LEMMA CheckLastTargetKeeps ==
  ASSUME FetchInv, CheckLastTarget, UNCHANGED crawl
  PROVE  FetchInv'
<1>1. SameWorld /\ fetch.pc = "last target"
  BY DEF CheckLastTarget, SameWorld
<1>2. PICK p : Along(p)
  BY <1>1 DEF FetchInv, ChainInv
<1>3. fetch.hop = HopLimit[fetch.caller] /\ web[fetch.at].type = "redirect"
  BY <1>1, <1>2 DEF Along, Reached
<1>4. \/ fetch' = Ended("redirect limit exceeded")
      \/ fetch' = Ended("unsafe redirect target")
  BY DEF CheckLastTarget
<1>5. /\ "redirect limit exceeded" \in Outcomes /\ "redirect limit exceeded" # "answered"
      /\ "unsafe redirect target" \in Outcomes /\ "unsafe redirect target" # "answered"
  BY DEF Outcomes
<1>6. QED
  BY <1>1, <1>3, <1>4, <1>5, FailedKeeps

LEMMA ResolveKeeps ==
  ASSUME FetchInv, Resolve, UNCHANGED crawl
  PROVE  FetchInv'
<1> PICK found : found = names[HostOf[fetch.at]]
  OBVIOUS
<1>1. SameWorld /\ fetch.pc = "resolve"
  BY DEF Resolve, SameWorld
<1>2. fetch' = IF ~Authorised(fetch.at) THEN Ended("unsafe target")
               ELSE IF found = {} THEN Ended("resolution failed")
               ELSE IF ~Trusted(found) THEN Ended("unsafe target")
               ELSE [fetch EXCEPT !.pc = "send", !.left = found]
  BY DEF Resolve
<1>3. CASE ~Authorised(fetch.at) \/ ~Trusted(found)
  <2>1. ~Served(fetch.caller, fetch.at)
    BY <1>3 DEF Served, Authorised
  <2>2. fetch' = Ended("unsafe target") \/ fetch' = Ended("resolution failed")
    BY <1>2, <1>3
  <2>3. /\ "unsafe target" \in Outcomes /\ "unsafe target" # "answered"
        /\ "resolution failed" \in Outcomes /\ "resolution failed" # "answered"
    BY DEF Outcomes
  <2>4. QED
    BY <1>1, <2>1, <2>2, <2>3, FailedKeeps
<1>4. CASE Authorised(fetch.at) /\ Trusted(found)
  <2>1. fetch' = [fetch EXCEPT !.pc = "send", !.left = found] /\ found # {}
    BY <1>2, <1>4 DEF Trusted
  <2>2. found \in SUBSET Addresses
    <3>1. names \in NameServices /\ fetch.at \in Urls
      BY <1>1 DEF FetchInv, FetchTyped, Idle
    <3>2. HostOf[fetch.at] \in {HostOf[u] : u \in Urls}
      BY <3>1
    <3>3. names \in [{HostOf[u] : u \in Urls} -> SUBSET Addresses]
      BY <3>1, FetchAssumption
    <3>4. QED
      BY <3>2, <3>3
  <2>3. /\ fetch' \in FetchType /\ fetch'.pc = "send" /\ fetch'.left = found
        /\ fetch'.hop = fetch.hop /\ fetch'.at = fetch.at
        /\ fetch'.start = fetch.start /\ fetch'.caller = fetch.caller
    BY <2>1, <2>2 DEF FetchInv, FetchTyped, FetchType
  <2>4. web' = web /\ names' = names /\ network' = network /\ nameChanges' = nameChanges
    BY <1>1 DEF SameWorld
  <2>5. FetchTyped'
    BY <1>1, <2>3, <2>4 DEF FetchInv, FetchTyped, Idle
  <2>6. SafeInv'
    BY <1>1, <1>4, <2>1, <2>3 DEF FetchInv, SafeInv, Authorised, Trusted
  <2>7. PICK p : Along(p)
    BY <1>1 DEF FetchInv, ChainInv
  <2>8. Reached(p)' /\ OnChain(p)'
    BY <1>1, <2>3, <2>4, <2>7, SameEnds DEF Along, Reached
  <2>9. ASSUME nameChanges' = 0 PROVE ServedSoFar(p)'
    <3> PICK c : c = fetch.caller
      OBVIOUS
    <3>1. \A i \in 0 .. fetch.hop - 1 : Served(c, p[i])
      BY <2>4, <2>7, <2>9 DEF Along, ServedSoFar
    <3>2. \A i \in 0 .. fetch.hop - 1 : Served(c, p[i])'
      BY <1>1, <3>1, SameServed
    <3>3. c = fetch'.caller /\ found = names'[HostOf[fetch'.at]] /\ fetch'.hop = fetch.hop
      BY <2>3, <2>4
    <3>4. Trusted(found)' /\ found \ fetch'.left = {}
      BY <1>4, <2>3 DEF Trusted
    <3>5. QED
      BY <2>3, <3>2, <3>3, <3>4 DEF ServedSoFar
  <2>10. QED
    BY <2>5, <2>6, <2>8, <2>9 DEF FetchInv, ChainInv, Along
<1>5. QED
  BY <1>3, <1>4

\* A step of a fetch is a step of that fetch.
LEMMA FetchGoesOn ==
  ASSUME FetchInv, FetchStep
  PROVE  /\ fetch.pc \in {"resolve", "send", "last target"}
         /\ fetch'.pc \in {"resolve", "send", "last target", "done"}
         /\ fetch'.caller = fetch.caller /\ fetch'.start = fetch.start
<1> DEFINE Goes(f) == /\ f.pc \in {"resolve", "send", "last target", "done"}
                      /\ f.caller = fetch.caller /\ f.start = fetch.start
<1>1. fetch \in FetchType /\ fetch.caller \in Callers
  BY DEF FetchInv, FetchTyped, FetchType
<1>2. \A outcome : Goes(Ended(outcome))
  BY <1>1 DEF Ended, FetchType
<1>3. CASE Resolve
  BY <1>1, <1>2, <1>3 DEF Resolve, FetchType
<1>4. CASE CheckLastTarget
  BY <1>2, <1>4 DEF CheckLastTarget
<1>5. CASE Attempt
  <2>1. fetch.pc = "send"
    BY <1>5 DEF Attempt
  <2> PICK m : m = Min(fetch.left)
    OBVIOUS
  <2>2. network[m] \in Connections /\ web[fetch.at].type \in {"page", "bare", "malformed", "redirect"}
    <3>1. /\ fetch.left \in SUBSET Addresses /\ fetch.left # {} /\ fetch.left \in SUBSET Nat
          /\ network \in Networks /\ web \in Webs /\ fetch.at \in Urls
      BY <2>1, FetchAssumption DEF FetchInv, FetchTyped, FetchType, SafeInv, Idle
    <3>2. m \in Addresses
      BY <3>1, MinIsLeast
    <3>3. QED
      BY <3>1, <3>2, FetchAssumption
  <2>3. Goes(Refused)
    BY <1>1, <1>2, <2>1 DEF Refused, FetchType
  <2>4. ASSUME NEW to PROVE Goes(NextHop(to))
    BY <1>1 DEF NextHop, FetchType
  <2>5. Goes([fetch EXCEPT !.pc = "last target", !.left = {}])
    BY <1>1 DEF FetchType
  <2> HIDE DEF Goes
  <2>6. ASSUME NEW to PROVE Goes(Redirected(to))
    BY <1>1, <1>2, <2>4, <2>5 DEF Redirected, Callers, Browser
  <2>7. Goes(Answered)
    BY <1>2, <2>2, <2>6 DEF Answered
  <2>8. Goes(fetch')
    <3>1. fetch' = CASE network[m] = "answers" -> Answered
                     [] network[m] = "refuses" -> Refused
                     [] network[m] = "breaks" ->
                          IF fetch.caller # "crawl" THEN Refused
                          ELSE IF web[fetch.at].type = "page" THEN Ended("request failed")
                          ELSE Answered
      BY <1>5 DEF Attempt
    <3>2. QED
      BY <1>2, <2>2, <2>3, <2>7, <3>1 DEF Connections
  <2>9. QED
    BY <2>1, <2>8 DEF Goes
<1>6. QED
  BY <1>3, <1>4, <1>5 DEF FetchStep, Resolve, CheckLastTarget

-----------------------------------------------------------------------------
(* The crawl around the fetches.                                           *)

Entries == [url : Urls, depth : Nat]

CrawlType ==
  [pc : {"none", "next", "fetching", "yielded", "done", "raised", "closed"},
   start : Urls \cup {Nowhere}, maxPages : Nat, maxDepth : Nat,
   queue : Seq(Entries), queued : SUBSET Urls, checked : Nat, depth : Nat,
   reports : Seq([url : Urls, depth : Nat, healthy : BOOLEAN])]

\* A crawl is of its type and in step with its fetch.
CrawlTyped ==
  /\ crawl \in CrawlType
  /\ crawl.pc = "fetching" =>
       /\ fetch.pc \in {"resolve", "send", "last target", "done"}
       /\ fetch.caller = "crawl"
  /\ crawl.pc = "yielded" => fetch.pc = "done" /\ fetch.caller = "crawl"
  /\ crawl.pc \in {"next", "done", "raised"} => fetch.pc \in {"none", "done"}
  /\ crawl.pc = "closed" <=> fetch.pc = "cancelled"

SiteInv == FetchInv /\ CrawlTyped

\* The states the crawl goes through while it queues links.
LinkByLink(g, links) ==
  /\ g \in [0 .. Len(links) -> CrawlType]
  /\ g[0] = [crawl EXCEPT !.pc = "next"]
  /\ \A n \in 1 .. Len(links) : g[n] = QueueLink(g[n - 1], links[n])

LEMMA LinkIsQueued ==
  ASSUME NEW c \in CrawlType, NEW href \in Urls \cup {Malformed}
  PROVE  QueueLink(c, href) \in CrawlType
<1>1. CASE c.pc = "raised" \/ href = Malformed \/ ~Follows(href, c.queued)
  BY <1>1 DEF QueueLink, CrawlType
<1>2. CASE ~(c.pc = "raised" \/ href = Malformed \/ ~Follows(href, c.queued))
  <2>1. href \in Urls /\ Normal[href] \in Urls
    BY <1>2, CrawlAssumption
  <2>2. PICK q, e : q = c.queue /\ e = [url |-> Normal[href], depth |-> c.depth + 1]
    OBVIOUS
  <2>3. q \in Seq(Entries) /\ e \in Entries
    BY <2>1, <2>2 DEF CrawlType, Entries
  <2>4. Append(q, e) \in Seq(Entries)
    BY <2>3
  <2>5. QueueLink(c, href) =
          [c EXCEPT !.queued = c.queued \cup {Normal[href]}, !.queue = Append(q, e)]
    BY <1>2, <2>2 DEF QueueLink
  <2>6. PICK s, k : s = Append(q, e) /\ k = c.queued \cup {Normal[href]}
    OBVIOUS
  <2>7. s \in Seq(Entries) /\ k \in SUBSET Urls
    BY <2>1, <2>4, <2>6 DEF CrawlType
  <2>8. [c EXCEPT !.queued = k, !.queue = s] \in CrawlType
    BY <2>7 DEF CrawlType
  <2>9. QED
    BY <2>5, <2>6, <2>8
<1>3. QED
  BY <1>1, <1>2

LEMMA LinksAreQueued ==
  ASSUME crawl \in CrawlType, NEW links \in Seq(Urls \cup {Malformed})
  PROVE  \E g : LinkByLink(g, links) /\ QueueLinks(links) = g[Len(links)]
<1> DEFINE N == Len(links)
           first == [crawl EXCEPT !.pc = "next"]
           step == [q \in (1 .. N) \X CrawlType |-> QueueLink(q[2], links[q[1]])]
           Recursive(f) == f = [n \in 0 .. N |->
                                  IF n = 0 THEN first ELSE QueueLink(f[n - 1], links[n])]
<1>1. N \in Nat /\ \A n \in 1 .. N : links[n] \in Urls \cup {Malformed}
  OBVIOUS
<1>2. first \in CrawlType
  BY DEF CrawlType
<1>3. step \in [(1 .. N) \X CrawlType -> CrawlType]
  BY <1>1, LinkIsQueued
<1>4. \A n \in 1 .. N, c \in CrawlType : step[<<n, c>>] = QueueLink(c, links[n])
  OBVIOUS
<1> HIDE DEF step, N
<1>5. PICK g : IsRun(g, N, CrawlType, first, step)
  BY <1>1, <1>2, <1>3, Iterated
<1>6. \A n \in 1 .. N : n - 1 \in 0 .. N /\ g[n - 1] \in CrawlType
  BY <1>1, <1>5 DEF IsRun
<1>7. /\ g \in [0 .. N -> CrawlType] /\ g[0] = first
      /\ \A n \in 1 .. N : g[n] = QueueLink(g[n - 1], links[n])
  BY <1>4, <1>5, <1>6 DEF IsRun
<1>8. LinkByLink(g, links)
  BY <1>7 DEF LinkByLink, N
<1> HIDE DEF first
<1>9. \A n \in 0 .. N : g[n] = IF n = 0 THEN first ELSE QueueLink(g[n - 1], links[n])
  BY <1>1, <1>7
<1>10. Recursive(g)
  BY <1>7, <1>9
<1>11. ASSUME NEW f, Recursive(f) PROVE f = g
  <2>1. f[0] = first /\ \A n \in 1 .. N : f[n] = QueueLink(f[n - 1], links[n])
    BY <1>1, <1>11
  <2> DEFINE T == {n \in 0 .. N : f[n] = g[n]}
  <2>2. 0 \in T
    BY <1>1, <1>7, <2>1
  <2>3. ASSUME NEW n \in 1 .. N, n - 1 \in T PROVE n \in T
    <3>1. f[n] = QueueLink(f[n - 1], links[n]) /\ g[n] = QueueLink(g[n - 1], links[n])
      BY <1>7, <2>1
    <3>2. f[n - 1] = g[n - 1] /\ n \in 0 .. N
      BY <2>3, <1>1
    <3>3. QED
      BY <3>1, <3>2
  <2> HIDE DEF T
  <2>4. \A n \in 0 .. N : n \in T
    BY <1>1, <2>2, <2>3, UpTo
  <2>5. \A n \in 0 .. N : f[n] = g[n]
    BY <2>4 DEF T
  <2>6. f = [n \in 0 .. N |-> f[n]]
    BY <1>11
  <2>7. QED
    BY <1>7, <2>5, <2>6
<1>12. QueueLinks(links) = (CHOOSE f : Recursive(f))[N]
  BY DEF QueueLinks, N, first
<1> HIDE DEF Recursive
<1>13. QueueLinks(links) = g[N]
  BY <1>10, <1>11, <1>12
<1>14. QED
  BY <1>8, <1>13 DEF N

\* Which fields QueueLinks leaves alone.
LEMMA QueueLinksKeeps ==
  ASSUME crawl \in CrawlType, NEW links \in Seq(Urls \cup {Malformed})
  PROVE  /\ QueueLinks(links) \in CrawlType /\ QueueLinks(links).pc \in {"next", "raised"}
         /\ QueueLinks(links).start = crawl.start
         /\ QueueLinks(links).maxPages = crawl.maxPages
         /\ QueueLinks(links).maxDepth = crawl.maxDepth
         /\ QueueLinks(links).checked = crawl.checked
         /\ QueueLinks(links).depth = crawl.depth
         /\ QueueLinks(links).reports = crawl.reports
<1> DEFINE N == Len(links)
           Kept(c) == /\ c.pc \in {"next", "raised"} /\ c.start = crawl.start
                      /\ c.maxPages = crawl.maxPages /\ c.maxDepth = crawl.maxDepth
                      /\ c.checked = crawl.checked /\ c.depth = crawl.depth
                      /\ c.reports = crawl.reports
<1>1. N \in Nat
  OBVIOUS
<1>2. PICK g : LinkByLink(g, links) /\ QueueLinks(links) = g[N]
  BY LinksAreQueued
<1> HIDE DEF N
<1>3. /\ g \in [0 .. N -> CrawlType] /\ g[0] = [crawl EXCEPT !.pc = "next"]
      /\ \A n \in 1 .. N : g[n] = QueueLink(g[n - 1], links[n])
  BY <1>2 DEF LinkByLink, N
<1> DEFINE T == {n \in 0 .. N : Kept(g[n])}
<1>4. 0 \in T
  BY <1>1, <1>3 DEF CrawlType
<1>5. ASSUME NEW n \in 1 .. N, n - 1 \in T PROVE n \in T
  <2>1. ASSUME NEW c \in CrawlType, NEW href, Kept(c) PROVE Kept(QueueLink(c, href))
    BY <2>1 DEF QueueLink, CrawlType
  <2>2. n - 1 \in 0 .. N /\ n \in 0 .. N /\ g[n - 1] \in CrawlType
    BY <1>1, <1>3
  <2> HIDE DEF Kept
  <2>3. QED
    BY <1>3, <1>5, <2>1, <2>2
<1> HIDE DEF T
<1>6. \A n \in 0 .. N : n \in T
  BY <1>1, <1>4, <1>5, UpTo
<1>7. N \in 0 .. N /\ Kept(g[N])
  BY <1>1, <1>6 DEF T
<1>8. g[N] \in CrawlType
  BY <1>3, <1>7
<1>9. QED
  BY <1>2, <1>7, <1>8

\* The page a crawl is about to expand is a page.
LEMMA ExpandsAPage ==
  ASSUME SiteInv, crawl.pc = "yielded", Expands
  PROVE  web[fetch.at].links \in Seq(Urls \cup {Malformed})
<1>1. fetch.pc = "done" /\ fetch.caller = "crawl"
  BY DEF SiteInv, CrawlTyped
<1>2. PICK p : Along(p)
  BY <1>1 DEF SiteInv, FetchInv, ChainInv
<1>3. web[fetch.at].type = "page"
  BY <1>1, <1>2 DEF Along, Reached, Final, Expands, Healthy
<1>4. web \in Webs /\ fetch.at \in Urls
  BY <1>1 DEF SiteInv, FetchInv, FetchTyped, Idle
<1>5. QED
  BY <1>3, <1>4, CrawlAssumption

\* The fetch of a crawl, or of a job of its own, begins.
LEMMA StartedKeeps ==
  ASSUME NEW caller \in Callers, NEW url \in Urls, fetch' = Started(caller, url),
         web' \in Webs, names' \in NameServices, network' \in Networks, nameChanges' \in Nat
  PROVE  FetchInv'
<1>1. /\ fetch' \in FetchType /\ fetch'.pc = "resolve" /\ fetch'.hop = 0
      /\ fetch'.start = url /\ fetch'.at = url /\ fetch'.caller = caller
  BY DEF Started, FetchType, Outcomes
<1>2. FetchTyped' /\ SafeInv'
  BY <1>1 DEF FetchTyped, SafeInv
<1>3. HopLimit[caller] \in Nat
  BY FetchAssumption
<1>4. \E p : OnChain(p)'
  <2> DEFINE step == [q \in (1 .. HopLimit[caller]) \X Urls |-> Target(q[2])']
  <2>1. \A u \in Urls : Target(u)' \in Urls
    BY FetchAssumption DEF Target
  <2>2. step \in [(1 .. HopLimit[caller]) \X Urls -> Urls]
    BY <2>1
  <2>3. \A n \in 1 .. HopLimit[caller], u \in Urls : step[<<n, u>>] = Target(u)'
    OBVIOUS
  <2> HIDE DEF step
  <2>4. PICK p : IsRun(p, HopLimit[caller], Urls, url, step)
    BY <1>3, <2>2, Iterated
  <2>5. \A n \in 1 .. HopLimit[caller] : n - 1 \in 0 .. HopLimit[caller] /\ p[n - 1] \in Urls
    BY <1>3, <2>4 DEF IsRun
  <2>6. \A n \in 1 .. HopLimit[caller] : p[n] = Target(p[n - 1])'
    BY <2>3, <2>4, <2>5 DEF IsRun
  <2>7. p \in [0 .. HopLimit[caller] -> Urls] /\ p[0] = url
    BY <2>4 DEF IsRun
  <2>8. fetch'.start = url /\ HopLimit[fetch'.caller] = HopLimit[caller]
    BY <1>1
  <2>9. OnChain(p)'
    BY <2>6, <2>7, <2>8 DEF OnChain, IsChain
  <2>10. QED
    BY <2>9
<1>5. PICK p : OnChain(p)'
  BY <1>4
<1>6. p[0] = url
  BY <1>1, <1>5 DEF OnChain, IsChain
<1>7. Reached(p)'
  BY <1>1, <1>3, <1>6 DEF Reached
<1>8. ServedSoFar(p)'
  BY <1>1 DEF ServedSoFar
<1>9. QED
  BY <1>2, <1>5, <1>7, <1>8 DEF FetchInv, ChainInv, Along

\* The names change under a fetch.
LEMMA NamesChangeKeeps ==
  ASSUME FetchInv, NamesChange, UNCHANGED crawl
  PROVE  FetchInv'
<1>1. /\ fetch.pc \in {"resolve", "send", "last target"} /\ fetch' = fetch
      /\ web' = web /\ network' = network /\ names' \in NameServices
      /\ nameChanges' = nameChanges + 1
  BY DEF NamesChange
<1>2. nameChanges' \in Nat /\ nameChanges' # 0
  <2>1. nameChanges \in Nat
    BY DEF FetchInv, FetchTyped
  <2>2. nameChanges + 1 \in Nat /\ nameChanges + 1 # 0
    BY <2>1
  <2>3. QED
    BY <1>1, <2>2
<1>3. FetchTyped' /\ SafeInv'
  BY <1>1, <1>2 DEF FetchInv, FetchTyped, SafeInv, Idle
<1>4. PICK p : OnChain(p) /\ Reached(p)
  BY <1>1 DEF FetchInv, ChainInv, Along
<1>5. OnChain(p)' /\ Reached(p)'
  BY <1>1, <1>4 DEF OnChain, IsChain, Target, Reached
<1>6. QED
  BY <1>2, <1>3, <1>5 DEF FetchInv, ChainInv, Along

\* The fetch is as it was, and so is its world; a crawl is under way.
LEMMA FetchWaits ==
  ASSUME FetchInv, SameWorld, UNCHANGED fetch, ~Idle
  PROVE  FetchInv'
<1>1. fetch' = fetch /\ web' = web /\ names' = names /\ network' = network
      /\ nameChanges' = nameChanges
  BY DEF SameWorld
<1>2. FetchTyped' /\ SafeInv'
  BY <1>1 DEF FetchInv, FetchTyped, SafeInv, Idle
<1>3. ASSUME fetch.pc \notin {"none", "cancelled"} PROVE \E p : Along(p)'
  <2>1. PICK p : Along(p)
    BY <1>3 DEF FetchInv, ChainInv
  <2>2. OnChain(p)' /\ Reached(p)'
    BY <1>1, <2>1 DEF Along, OnChain, IsChain, Target, Reached, Final
  <2>3. nameChanges' = 0 => ServedSoFar(p)'
    <3> PICK c : c = fetch.caller
      OBVIOUS
    <3>1. \A u : Served(c, u)' <=> Served(c, u)
      BY SameServed
    <3>2. \A n : EndsOn(p, n)' <=> EndsOn(p, n)
      BY <1>1, SameEnds
    <3>3. EndsNowhere(p)' <=> EndsNowhere(p)
      BY <1>1, SameEnds
    <3>4. \A a : Fails(a)' <=> Fails(a)
      BY <1>1 DEF Fails
    <3>5. fetch'.caller = c
      BY <1>1
    <3>6. QED
      BY <1>1, <2>1, <3>1, <3>2, <3>3, <3>4, <3>5 DEF Along, ServedSoFar, Trusted
  <2>4. QED
    BY <2>2, <2>3 DEF Along
<1>4. QED
  BY <1>1, <1>2, <1>3 DEF FetchInv, ChainInv

LEMMA SiteInvHolds ==
  Spec => []SiteInv
<1>1. Init => SiteInv
  <2> SUFFICES ASSUME Init PROVE SiteInv
    OBVIOUS
  <2>1. NoFetch \in FetchType /\ NoCrawl \in CrawlType
    BY FetchAssumption DEF NoFetch, FetchType, Outcomes, Callers, NoCrawl, CrawlType
  <2>2. QED
    BY <2>1 DEF Init, SiteInv, FetchInv, FetchTyped, SafeInv, ChainInv, CrawlTyped, Idle,
      NoFetch, NoCrawl
<1>2. SiteInv /\ [Next]_crawlVars => SiteInv'
  <2> SUFFICES ASSUME SiteInv, [Next]_crawlVars PROVE SiteInv'
    OBVIOUS
  <2>0. FetchInv /\ crawl \in CrawlType
    BY DEF SiteInv, CrawlTyped
  <2>a. ASSUME fetch' = NoFetch, nameChanges' \in Nat,
               ~Idle' => web' \in Webs /\ names' \in NameServices /\ network' \in Networks
        PROVE  FetchInv'
    <3>1. NoFetch \in FetchType
      BY DEF NoFetch, FetchType, Outcomes, Callers
    <3>2. QED
      BY <2>a, <3>1 DEF FetchInv, FetchTyped, SafeInv, ChainInv, NoFetch
  <2>1. ASSUME NEW caller \in Callers, NEW url \in Starts, BeginFetch(caller, url) PROVE SiteInv'
    <3>1. url \in Urls
      BY CrawlAssumption
    <3>2. FetchInv'
      BY <2>1, <3>1, StartedKeeps DEF BeginFetch, FindWorld
    <3>3. CrawlTyped'
      BY <2>1 DEF BeginFetch, CrawlTyped, NoCrawl, CrawlType, Started
    <3>4. QED
      BY <3>2, <3>3 DEF SiteInv
  <2>2. ASSUME NEW url \in Starts, NEW n \in PageBounds, NEW d \in DepthBounds,
               BeginCrawl(url, n, d)
        PROVE  SiteInv'
    <3>1. FetchInv'
      BY <2>2, <2>a DEF BeginCrawl, FindWorld
    <3>2. url \in Urls /\ Normal[url] \in Urls /\ n \in Nat /\ d \in Nat
      BY CrawlAssumption
    <3> PICK q : q = <<[url |-> Normal[url], depth |-> 0]>>
      OBVIOUS
    <3>3. q \in Seq(Entries)
      BY <3>2 DEF Entries
    <3>4. crawl' \in CrawlType /\ crawl'.pc \in {"next", "done"}
      <4> PICK known : known = {Normal[url]}
        OBVIOUS
      <4>0. NoCrawl \in CrawlType /\ known \in SUBSET Urls
        BY <3>2 DEF NoCrawl, CrawlType
      <4>1. CASE url \notin Allowed
        <5>1. crawl' = [NoCrawl EXCEPT !.pc = "done", !.start = url]
          BY <2>2, <4>1 DEF BeginCrawl
        <5>2. QED
          BY <3>2, <4>0, <5>1 DEF CrawlType
      <4>2. CASE url \in Allowed
        <5>1. crawl' = [NoCrawl EXCEPT !.pc = "next", !.start = Normal[url],
                          !.maxPages = n, !.maxDepth = d, !.queue = q,
                          !.queued = known]
          BY <2>2, <4>2 DEF BeginCrawl
        <5>2. QED
          BY <3>2, <3>3, <4>0, <5>1 DEF CrawlType
      <4>3. QED
        BY <4>1, <4>2
    <3>5. fetch'.pc = "none"
      BY <2>2 DEF BeginCrawl, NoFetch
    <3>6. QED
      BY <3>1, <3>4, <3>5 DEF SiteInv, CrawlTyped
  <2>3. CASE FetchNext
    <3>1. crawl.pc = "next" /\ crawl.queue # <<>> /\ crawl.queue \in Seq(Entries)
      BY <2>0, <2>3 DEF FetchNext, MayFetchMore, CrawlType
    <3> PICK e, q : e = NextInQueue /\ q = Tail(crawl.queue)
      OBVIOUS
    <3>2. e \in Entries /\ q \in Seq(Entries)
      BY <3>1 DEF NextInQueue
    <3>3. /\ web \in Webs /\ names \in NameServices /\ network \in Networks
          /\ nameChanges \in Nat
      BY <2>0, <3>1 DEF FetchInv, FetchTyped, Idle
    <3>4. e.url \in Urls /\ e.depth \in Nat /\ "crawl" \in Callers
      BY <3>2 DEF Entries, Callers
    <3>5. FetchInv'
      BY <2>3, <3>3, <3>4, StartedKeeps DEF FetchNext
    <3>6. crawl' \in CrawlType /\ crawl'.pc = "fetching"
      BY <2>0, <2>3, <3>2, <3>4 DEF FetchNext, CrawlType
    <3>7. fetch'.pc = "resolve" /\ fetch'.caller = "crawl"
      BY <2>3 DEF FetchNext, Started
    <3>8. QED
      BY <3>5, <3>6, <3>7 DEF SiteInv, CrawlTyped
  <2>4. CASE Report
    <3>1. FetchInv' /\ crawl.pc = "fetching" /\ fetch.pc = "done" /\ fetch' = fetch
      BY <2>0, <2>4, FetchWaits DEF Report, SameWorld, Idle
    <3> PICK r, s : /\ r = [url |-> fetch.start, depth |-> crawl.depth, healthy |-> Healthy]
                    /\ s = Append(crawl.reports, r)
      OBVIOUS
    <3>2. r \in [url : Urls, depth : Nat, healthy : BOOLEAN]
      BY <2>0, <3>1 DEF FetchInv, FetchTyped, CrawlType, Healthy
    <3>3. s \in Seq([url : Urls, depth : Nat, healthy : BOOLEAN])
      BY <2>0, <3>2 DEF CrawlType
    <3> PICK k : k = crawl.checked + 1
      OBVIOUS
    <3>4. crawl' = [crawl EXCEPT !.pc = "yielded", !.checked = k, !.reports = s] /\ k \in Nat
      BY <2>0, <2>4 DEF Report, CrawlType
    <3>5. crawl' \in CrawlType /\ crawl'.pc = "yielded"
      BY <2>0, <3>3, <3>4 DEF CrawlType
    <3>6. fetch.caller = "crawl"
      BY <3>1 DEF SiteInv, CrawlTyped
    <3>7. QED
      BY <3>1, <3>5, <3>6 DEF SiteInv, CrawlTyped
  <2>5. CASE Expand
    <3>1. FetchInv' /\ crawl.pc = "yielded" /\ fetch' = fetch
      BY <2>0, <2>5, FetchWaits DEF Expand, SameWorld, Idle
    <3>2. crawl' \in CrawlType /\ crawl'.pc \in {"next", "raised"}
      <4>1. CASE Expands
        BY <2>0, <2>5, <3>1, <4>1, ExpandsAPage, QueueLinksKeeps DEF Expand
      <4>2. CASE ~Expands
        BY <2>0, <2>5, <4>2 DEF Expand, CrawlType
      <4>3. QED
        BY <4>1, <4>2
    <3>3. fetch.pc = "done"
      BY <3>1 DEF SiteInv, CrawlTyped
    <3>4. QED
      BY <3>1, <3>2, <3>3 DEF SiteInv, CrawlTyped
  <2>6. CASE EndCrawl
    <3>1. FetchInv' /\ crawl.pc = "next" /\ fetch' = fetch
      BY <2>0, <2>6, FetchWaits DEF EndCrawl, SameWorld, Idle
    <3>2. crawl' \in CrawlType /\ crawl'.pc = "done"
      BY <2>0, <2>6 DEF EndCrawl, CrawlType
    <3>3. QED
      BY <3>1, <3>2 DEF SiteInv, CrawlTyped
  <2>7. CASE Disconnect
    <3>1. crawl.pc \in {"fetching", "yielded"}
      BY <2>7 DEF Disconnect
    <3>2. crawl' \in CrawlType /\ crawl'.pc = "closed"
      BY <2>0, <2>7 DEF Disconnect, CrawlType
    <3>3. fetch' \in FetchType /\ fetch'.pc = "cancelled"
      BY <2>0, <2>7 DEF Disconnect, FetchInv, FetchTyped, FetchType
    <3>4. FetchInv'
      BY <2>0, <2>7, <3>1, <3>2, <3>3
         DEF Disconnect, FetchInv, FetchTyped, SafeInv, ChainInv, Idle
    <3>5. QED
      BY <3>2, <3>3, <3>4 DEF SiteInv, CrawlTyped
  <2>8. CASE Answer
    <3>1. Idle'
      BY <2>8 DEF Answer, NoFetch, NoCrawl, Idle
    <3>2. FetchInv'
      BY <2>8, <2>a, <3>1 DEF Answer, ForgetWorld
    <3>3. CrawlTyped'
      BY <2>8 DEF Answer, CrawlTyped, CrawlType, NoCrawl, NoFetch
    <3>4. QED
      BY <3>2, <3>3 DEF SiteInv
  <2>9. CASE FetchStep /\ UNCHANGED crawl
    <3>1. FetchInv'
      BY <2>0, <2>9, ResolveKeeps, AttemptKeeps, CheckLastTargetKeeps DEF FetchStep
    <3>2. QED
      BY <2>0, <2>9, <3>1, FetchGoesOn DEF SiteInv, CrawlTyped
  <2>10. CASE NamesChange /\ UNCHANGED crawl
    <3>1. FetchInv' /\ fetch' = fetch
      BY <2>0, <2>10, NamesChangeKeeps DEF NamesChange
    <3>2. QED
      BY <2>10, <3>1 DEF SiteInv, CrawlTyped
  <2>11. CASE UNCHANGED crawlVars
    <3>1. fetch' = fetch /\ crawl' = crawl /\ SameWorld
      BY <2>11 DEF crawlVars, SameWorld
    <3>2. CASE ~Idle
      BY <2>0, <3>1, <3>2, FetchWaits DEF SiteInv, CrawlTyped
    <3>3. CASE Idle
      BY <2>0, <3>1, <3>3
         DEF SiteInv, FetchInv, FetchTyped, SafeInv, ChainInv, CrawlTyped, Idle, SameWorld
    <3>4. QED
      BY <3>2, <3>3
  <2>12. QED
    BY <2>1, <2>2, <2>3, <2>4, <2>5, <2>6, <2>7, <2>8, <2>9, <2>10, <2>11 DEF Next, CrawlStep
<1>3. QED
  BY <1>1, <1>2, PTL DEF Spec

-----------------------------------------------------------------------------
(* The theorems about a fetch.                                             *)

\* The places where a chain may end are those on it that EndsOn names, and there is
\* one at most.
LEMMA EndsAreOnTheChain ==
  ASSUME FetchTyped, fetch.pc = "done", NEW p, OnChain(p)
  PROVE  /\ Chain(fetch.start, HopLimit[fetch.caller]) = p
         /\ Ends(fetch.caller, fetch.start)
              = {n \in 0 .. HopLimit[fetch.caller] : EndsOn(p, n)}
         /\ \A m, n \in 0 .. HopLimit[fetch.caller] : EndsOn(p, m) /\ EndsOn(p, n) => m = n
<1>1. web \in Webs /\ fetch.start \in Urls /\ HopLimit[fetch.caller] \in Nat
  BY FetchAssumption DEF FetchTyped, FetchType, Idle
<1>2. Chain(fetch.start, HopLimit[fetch.caller]) = p
  BY <1>1, ChainIsTheChain DEF OnChain
<1>3. \A n : EndsAt(fetch.caller, fetch.start, n) <=> EndsOn(p, n)
  BY <1>2 DEF EndsAt, EndsOn, Final
<1>4. ASSUME NEW m \in 0 .. HopLimit[fetch.caller], NEW n \in 0 .. HopLimit[fetch.caller],
             EndsOn(p, m), EndsOn(p, n)
      PROVE  ~(m < n)
  <2> SUFFICES ASSUME m < n PROVE FALSE
    OBVIOUS
  <2>1. m \in 0 .. n - 1
    BY <1>1
  <2>2. QED
    BY <1>4, <2>1 DEF EndsOn, Final
<1>5. \A m, n \in 0 .. HopLimit[fetch.caller] : EndsOn(p, m) /\ EndsOn(p, n) => m = n
  <2> SUFFICES ASSUME NEW m \in 0 .. HopLimit[fetch.caller], NEW n \in 0 .. HopLimit[fetch.caller],
                      EndsOn(p, m), EndsOn(p, n)
               PROVE  m = n
    OBVIOUS
  <2>1. ~(m < n) /\ ~(n < m)
    BY <1>4
  <2>2. m \in Nat /\ n \in Nat
    BY <1>1
  <2>3. QED
    BY <2>1, <2>2
<1>6. QED
  BY <1>2, <1>3, <1>5 DEF Ends

LEMMA DoneTells ==
  ASSUME FetchInv, fetch.pc = "done", nameChanges = 0
  PROVE  /\ fetch.outcome = "answered" <=> Ends(fetch.caller, fetch.start) # {}
         /\ \A n \in Ends(fetch.caller, fetch.start) :
              fetch.at = Chain(fetch.start, HopLimit[fetch.caller])[n]
<1>1. PICK p : Along(p)
  BY DEF FetchInv, ChainInv
<1>2. /\ fetch.hop \in 0 .. HopLimit[fetch.caller] /\ fetch.at = p[fetch.hop]
      /\ IF fetch.outcome = "answered" THEN EndsOn(p, fetch.hop) ELSE EndsNowhere(p)
  BY <1>1 DEF Along, Reached, ServedSoFar
<1>3. /\ Chain(fetch.start, HopLimit[fetch.caller]) = p
      /\ Ends(fetch.caller, fetch.start) = {n \in 0 .. HopLimit[fetch.caller] : EndsOn(p, n)}
      /\ \A m, n \in 0 .. HopLimit[fetch.caller] : EndsOn(p, m) /\ EndsOn(p, n) => m = n
  BY <1>1, EndsAreOnTheChain DEF FetchInv, Along
<1>4. CASE fetch.outcome = "answered"
  <2>1. EndsOn(p, fetch.hop)
    BY <1>2, <1>4
  <2>2. QED
    BY <1>2, <1>3, <1>4, <2>1
<1>5. CASE fetch.outcome # "answered"
  <2>1. \A n \in 0 .. HopLimit[fetch.caller] : ~EndsOn(p, n)
    BY <1>2, <1>5 DEF EndsNowhere
  <2>2. QED
    BY <1>3, <1>5, <2>1
<1>6. QED
  BY <1>4, <1>5

\* For any web, name service and network: with names that stay put, a probe, a crawl's
\* fetch or a browser's fetch is answered exactly if its chain of redirects ends within
\* the limit at something it accepts, and final_url is that end
\* (probes.py:52-151, crawler.py:181-263, browser_runner.py:455-512).
THEOREM AnswersAreTrue ==
  Spec => []AnswerIsTheEndOfTheChain
<1>1. SiteInv => AnswerIsTheEndOfTheChain
  BY DoneTells DEF SiteInv, AnswerIsTheEndOfTheChain
<1>2. QED
  BY <1>1, SiteInvHolds, PTL

\* However often names change under a fetch: a request goes to an allowed URL at a
\* public address, and a subresource's to its own origin
\* (validate_probe_url and the pinned addresses, probes.py:52-90, crawler.py:189-222,
\* browser_runner.py:280-327 and 501-505).
THEOREM RequestsAreContained ==
  Spec => RequestsStayInside
<1> DEFINE Inside ==
      lastRequest' # lastRequest /\ lastRequest' # Nowhere =>
        /\ lastRequest'.url \in Allowed
        /\ lastRequest'.address \in Public
        /\ fetch.caller = "resource" => HostOf[lastRequest'.url] = HostOf[fetch.start]
<1>1. SiteInv /\ [Next]_crawlVars => [Inside]_fetchVars
  <2> SUFFICES ASSUME SiteInv, [Next]_crawlVars, lastRequest' # lastRequest,
                      lastRequest' # Nowhere
               PROVE  Inside
    BY DEF fetchVars
  <2>1. Attempt
    BY DEF Next, crawlVars, BeginFetch, BeginCrawl, FindWorld, CrawlStep, FetchNext, Report,
      Expand, EndCrawl, Disconnect, Answer, ForgetWorld, FetchStep, Resolve, CheckLastTarget,
      NamesChange
  <2> PICK m : m = Min(fetch.left)
    OBVIOUS
  <2>2. lastRequest' = [url |-> fetch.at, address |-> m] /\ fetch.pc = "send"
    BY <2>1 DEF Attempt
  <2>3. /\ fetch.at \in Allowed /\ fetch.left # {} /\ fetch.left \subseteq Public
        /\ fetch.caller = "resource" => HostOf[fetch.at] = HostOf[fetch.start]
        /\ fetch.left \in SUBSET Nat
    BY <2>2, FetchAssumption DEF SiteInv, FetchInv, FetchTyped, FetchType, SafeInv
  <2>4. m \in fetch.left
    BY <2>3, MinIsLeast
  <2>5. QED
    BY <2>2, <2>3, <2>4
<1>2. QED
  BY <1>1, SiteInvHolds, PTL DEF Spec, RequestsStayInside

-----------------------------------------------------------------------------
(* The crawl is breadth first.                                             *)

\* The pages that url leads to.
Successors(url) ==
  {v \in Eligible : \E l \in LinksAt(url) : l \in Allowed /\ Normal[l] = v}

\* The pages within so many links of the start, layer on layer.
IsWithin(w) ==
  /\ w \in [0 .. crawl.maxDepth -> SUBSET Urls]
  /\ w[0] = {crawl.start}
  /\ \A d \in 1 .. crawl.maxDepth :
       w[d] = w[d - 1] \cup {v \in Eligible : \E u \in w[d - 1] : v \in Successors(u)}

LEMMA WithinIsWithin ==
  ASSUME crawl \in CrawlType, crawl.start \in Urls
  PROVE  IsWithin(Within)
<1> DEFINE D == crawl.maxDepth
           Next1(W) == W \cup {v \in Eligible : \E u \in W : v \in Successors(u)}
           step == [q \in (1 .. D) \X (SUBSET Urls) |-> Next1(q[2])]
           Recursive(f) ==
             f = [d \in 0 .. D |->
                    IF d = 0 THEN {crawl.start}
                    ELSE f[d - 1] \cup
                           {v \in Eligible : \E u \in f[d - 1] :
                              \E l \in LinksAt(u) : l \in Allowed /\ Normal[l] = v}]
<1>1. D \in Nat /\ {crawl.start} \in SUBSET Urls
  BY DEF CrawlType
<1>2. Eligible \subseteq Urls
  BY FetchAssumption DEF Eligible
<1>3. \A W \in SUBSET Urls : Next1(W) \in SUBSET Urls
  BY <1>2
<1>4. \A W : Next1(W) = W \cup {v \in Eligible : \E u \in W :
                                  \E l \in LinksAt(u) : l \in Allowed /\ Normal[l] = v}
  BY DEF Successors
<1> HIDE DEF Next1
<1>5. step \in [(1 .. D) \X (SUBSET Urls) -> SUBSET Urls]
  BY <1>3
<1>6. \A d \in 1 .. D, W \in SUBSET Urls : step[<<d, W>>] = Next1(W)
  OBVIOUS
<1> HIDE DEF step, D
<1>7. PICK g : IsRun(g, D, SUBSET Urls, {crawl.start}, step)
  BY <1>1, <1>5, Iterated
<1>8. \A d \in 1 .. D : d - 1 \in 0 .. D /\ g[d - 1] \in SUBSET Urls
  BY <1>1, <1>7 DEF IsRun
<1>9. /\ g \in [0 .. D -> SUBSET Urls] /\ g[0] = {crawl.start}
      /\ \A d \in 1 .. D : g[d] = Next1(g[d - 1])
  BY <1>6, <1>7, <1>8 DEF IsRun
<1>10. \A d \in 0 .. D : g[d] = IF d = 0 THEN {crawl.start} ELSE Next1(g[d - 1])
  BY <1>1, <1>9
<1>11. Recursive(g)
  BY <1>4, <1>9, <1>10
<1>12. Within = CHOOSE f : Recursive(f)
  BY DEF Within, D
<1> PICK w : w = Within
  OBVIOUS
<1> HIDE DEF Recursive
<1>13. Recursive(Within)
  BY <1>11, <1>12
<1>14. Recursive(w)
  BY <1>13
<1>15. /\ w[0] = {crawl.start} /\ DOMAIN w = 0 .. D
       /\ \A d \in 1 .. D : w[d] = Next1(w[d - 1])
       /\ w = [d \in 0 .. D |-> w[d]]
  <2>1. w = [d \in 0 .. D |->
               IF d = 0 THEN {crawl.start}
               ELSE w[d - 1] \cup
                      {v \in Eligible : \E u \in w[d - 1] :
                         \E l \in LinksAt(u) : l \in Allowed /\ Normal[l] = v}]
    BY <1>14 DEF Recursive
  <2>2. /\ w[0] = {crawl.start} /\ DOMAIN w = 0 .. D
        /\ w = [d \in 0 .. D |-> w[d]]
    BY <1>1, <2>1
  <2>3. ASSUME NEW d \in 1 .. D
        PROVE  w[d] = w[d - 1] \cup
                        {v \in Eligible : \E u \in w[d - 1] :
                           \E l \in LinksAt(u) : l \in Allowed /\ Normal[l] = v}
    <3>1. d \in 0 .. D /\ d # 0
      BY <1>1
    <3>2. QED
      BY <2>1, <3>1
  <2>4. QED
    BY <1>4, <2>2, <2>3
<1>16. \A d \in 0 .. D : w[d] \in SUBSET Urls
  <2> DEFINE T == {d \in 0 .. D : w[d] \in SUBSET Urls}
  <2>1. 0 \in T
    BY <1>1, <1>15
  <2>2. ASSUME NEW d \in 1 .. D, d - 1 \in T PROVE d \in T
    <3>1. w[d - 1] \in SUBSET Urls /\ d \in 0 .. D
      BY <1>1, <2>2
    <3>2. QED
      BY <1>3, <1>15, <3>1
  <2> HIDE DEF T
  <2>3. \A d \in 0 .. D : d \in T
    BY <1>1, <2>1, <2>2, UpTo
  <2>4. QED
    BY <2>3 DEF T
<1>17. QED
  BY <1>15, <1>16 DEF IsWithin, D, Next1

\* The site does not change while its world and the crawl's parameters do not.
LEMMA SameSite ==
  ASSUME SameWorld, crawl'.start = crawl.start, crawl'.maxDepth = crawl.maxDepth
  PROVE  /\ \A u : Successors(u)' = Successors(u)
         /\ \A w : IsWithin(w)' <=> IsWithin(w)
<1>1. web' = web /\ names' = names /\ network' = network
  BY DEF SameWorld
<1>2. \A s, n : Chain(s, n)' = Chain(s, n)
  BY <1>1 DEF Chain
<1>3. \A c, u : Served(c, u)' <=> Served(c, u)
  BY SameServed
<1>4. \A c, s, n : EndsAt(c, s, n)' <=> EndsAt(c, s, n)
  BY <1>1, <1>2, <1>3 DEF EndsAt
<1>5. \A c, s : Ends(c, s)' = Ends(c, s)
  BY <1>4 DEF Ends
<1>6. ASSUME NEW u PROVE LinksAt(u)' = LinksAt(u)
  <2> PICK chain, ends : chain = Chain(u, HopLimit["crawl"]) /\ ends = Ends("crawl", u)
    OBVIOUS
  <2>1. chain = Chain(u, HopLimit["crawl"])' /\ ends = Ends("crawl", u)'
    BY <1>2, <1>5
  <2> DEFINE Found(p) == IF ends = {} THEN {}
                         ELSE IF p.healthy /\ p.html THEN Range(p.links) ELSE {}
  <2>2. LinksAt(u) = Found(web[chain[CHOOSE n \in ends : TRUE]])
    BY DEF LinksAt
  <2>3. LinksAt(u)' = Found(web'[chain[CHOOSE n \in ends : TRUE]])
    <3>1. LinksAt(u)' =
            IF Ends("crawl", u)' = {} THEN {}
            ELSE IF /\ web'[Chain(u, HopLimit["crawl"])'[CHOOSE n \in Ends("crawl", u)' : TRUE]].healthy
                    /\ web'[Chain(u, HopLimit["crawl"])'[CHOOSE n \in Ends("crawl", u)' : TRUE]].html
                 THEN Range(web'[Chain(u, HopLimit["crawl"])'[CHOOSE n \in Ends("crawl", u)' : TRUE]].links)
                 ELSE {}
      BY Zenon DEF LinksAt
    <3>2. QED
      BY <2>1, <3>1
  <2>4. QED
    BY <1>1, <2>2, <2>3
<1>7. Eligible' = Eligible
  BY DEF Eligible
<1>8. \A u : Successors(u)' = Successors(u)
  BY <1>6, <1>7 DEF Successors
<1>9. \A w : IsWithin(w)' <=> IsWithin(w)
  BY <1>7, <1>8 DEF IsWithin
<1>10. QED
  BY <1>8, <1>9

\* How far from the start, by the layers w.
AtDepth(w, url, d) == url \in w[d] /\ \A c \in 0 .. d - 1 : url \notin w[c]

\* e lists pages once each, nearest first and at their true distance; the successors of
\* the first k are among them, unless they would be too deep, and the others differ by
\* one level at most.
Layers(w, e, k) ==
  /\ e \in Seq(Entries) /\ k \in 0 .. Len(e)
  /\ Len(e) > 0 /\ e[1].url = crawl.start
  /\ \A i, j \in 1 .. Len(e) : e[i].url = e[j].url => i = j
  /\ \A i, j \in 1 .. Len(e) : i < j => e[i].depth <= e[j].depth
  /\ \A i \in 1 .. Len(e) : e[i].depth <= crawl.maxDepth /\ AtDepth(w, e[i].url, e[i].depth)
  /\ \A i, j \in 1 .. Len(e) : k < i => e[j].depth <= e[i].depth + 1
  /\ \A i \in 1 .. k : e[i].depth < crawl.maxDepth =>
       \A v \in Successors(e[i].url) : \E j \in 1 .. Len(e) : e[j].url = v

\* What a page of the list is.
LEMMA ListedPages ==
  ASSUME NEW e \in Seq(Entries)
  PROVE  Len(e) \in Nat /\ \A i \in 1 .. Len(e) : e[i].url \in Urls /\ e[i].depth \in Nat
<1>1. \A i \in 1 .. Len(e) : e[i] \in Entries
  OBVIOUS
<1>2. QED
  BY <1>1 DEF Entries

\* If all pages that were not looked at are at distance D at least, all pages within D
\* links are in the list.
LEMMA NearPagesAreListed ==
  ASSUME crawl.maxDepth \in Nat, NEW w, IsWithin(w), NEW e, NEW k, Layers(w, e, k),
         NEW D \in 0 .. crawl.maxDepth,
         \A i \in 1 .. Len(e) : k < i => D <= e[i].depth
  PROVE  \A c \in 0 .. D : \A v \in w[c] : \E j \in 1 .. Len(e) : e[j].url = v
<1> DEFINE Listed(v) == \E j \in 1 .. Len(e) : e[j].url = v
           T == {c \in 0 .. D : \A v \in w[c] : Listed(v)}
<1>1. /\ e \in Seq(Entries) /\ k \in 0 .. Len(e) /\ Len(e) \in Nat /\ Len(e) > 0
      /\ e[1].url = crawl.start
      /\ \A i \in 1 .. Len(e) : e[i].url \in Urls /\ e[i].depth \in Nat
  BY ListedPages DEF Layers
<1>2. 0 \in T
  <2>1. w[0] = {crawl.start} /\ 1 \in 1 .. Len(e)
    BY <1>1 DEF IsWithin
  <2>2. QED
    BY <1>1, <2>1
<1>3. ASSUME NEW c \in 1 .. D, c - 1 \in T PROVE c \in T
  <2> SUFFICES ASSUME NEW v \in w[c] PROVE Listed(v)
    OBVIOUS
  <2>1. c \in 1 .. crawl.maxDepth /\ c \in Nat /\ c - 1 \in Nat /\ c - 1 < D
    OBVIOUS
  <2>2. w[c] = w[c - 1] \cup {x \in Eligible : \E u \in w[c - 1] : x \in Successors(u)}
    BY <2>1 DEF IsWithin
  <2>3. CASE v \in w[c - 1]
    BY <1>3, <2>3
  <2>4. CASE v \notin w[c - 1]
    <3>1. PICK u \in w[c - 1] : v \in Successors(u)
      BY <2>2, <2>4
    <3>2. PICK j \in 1 .. Len(e) : e[j].url = u
      BY <1>3
    <3>3. PICK n : n = e[j].depth
      OBVIOUS
    <3>4. n \in Nat /\ j \in Nat
      BY <1>1, <3>3
    <3>5. \A b \in 0 .. n - 1 : u \notin w[b]
      BY <3>2, <3>3 DEF Layers, AtDepth
    <3>6. ~(c - 1 < n)
      <4>1. c - 1 < n => c - 1 \in 0 .. n - 1
        BY <2>1, <3>4
      <4>2. QED
        BY <3>5, <4>1
    <3>7. n < D /\ n < crawl.maxDepth
      BY <2>1, <3>4, <3>6
    <3>8. ~(k < j)
      <4>1. k < j => D <= n
        BY <3>3
      <4>2. QED
        BY <3>4, <3>7, <4>1
    <3>9. j \in 1 .. k
      BY <1>1, <3>4, <3>8
    <3>10. QED
      BY <3>1, <3>2, <3>3, <3>7, <3>9 DEF Layers
  <2>5. QED
    BY <2>3, <2>4
<1> HIDE DEF T
<1>4. D \in Nat
  OBVIOUS
<1>5. \A c \in 0 .. D : c \in T
  BY <1>2, <1>3, <1>4, UpTo
<1>6. QED
  BY <1>5 DEF T

\* What the list becomes when the next page's new successors are put at its end.
GrownBy(s, e, x) ==
  /\ s \in Seq(Entries) /\ Len(e) <= Len(s)
  /\ \A i \in 1 .. Len(e) : s[i] = e[i]
  /\ \A i \in 1 .. Len(s) : Len(e) < i =>
       /\ s[i].depth = x.depth + 1
       /\ s[i].url \in Successors(x.url)
       /\ \A j \in 1 .. Len(e) : e[j].url # s[i].url
  /\ \A i, j \in 1 .. Len(s) : s[i].url = s[j].url => i = j

LEMMA LayersGrow ==
  ASSUME crawl.maxDepth \in Nat, NEW w, IsWithin(w), NEW e, NEW k, Layers(w, e, k),
         k < Len(e), NEW s, NEW x, x = e[k + 1], GrownBy(s, e, x),
         x.depth < crawl.maxDepth =>
           \A v \in Successors(x.url) : \E j \in 1 .. Len(s) : s[j].url = v,
         ~(x.depth < crawl.maxDepth) => Len(s) = Len(e)
  PROVE  Layers(w, s, k + 1)
<1> PICK d : d = x.depth
  OBVIOUS
<1>1. /\ e \in Seq(Entries) /\ k \in 0 .. Len(e) /\ Len(e) \in Nat /\ Len(e) > 0
      /\ \A i \in 1 .. Len(e) : e[i].url \in Urls /\ e[i].depth \in Nat
  BY ListedPages DEF Layers
<1>2. /\ s \in Seq(Entries) /\ Len(s) \in Nat /\ Len(e) <= Len(s)
      /\ \A i \in 1 .. Len(s) : s[i].url \in Urls /\ s[i].depth \in Nat
  BY ListedPages DEF GrownBy
<1>3. PICK m : m = k + 1
  OBVIOUS
<1>4. m \in 1 .. Len(e) /\ k < m /\ m \in Nat /\ k \in Nat /\ x = e[m] /\ d \in Nat
      /\ m \in 1 .. Len(s) /\ s[m] = x /\ m = k + 1
  BY <1>1, <1>2, <1>3 DEF GrownBy
<1>5. \A i \in 1 .. Len(s) : \/ i \in 1 .. Len(e) /\ s[i] = e[i]
                             \/ Len(e) < i /\ s[i].depth = d + 1
  BY <1>1, <1>2 DEF GrownBy
<1>6. \A i \in 1 .. Len(e) : e[i].depth <= d + 1
  BY <1>4 DEF Layers
<1>7. \A i \in 1 .. Len(e) : k < i => d <= e[i].depth
  <2> SUFFICES ASSUME NEW i \in 1 .. Len(e), k < i PROVE d <= e[i].depth
    OBVIOUS
  <2>1. i = m \/ m < i
    BY <1>1, <1>4
  <2>2. m < i => e[m].depth <= e[i].depth
    BY <1>4 DEF Layers
  <2>3. QED
    BY <1>4, <2>1, <2>2
<1>8. d <= crawl.maxDepth /\ AtDepth(w, x.url, d)
  BY <1>4 DEF Layers
<1>9. \A i, j \in 1 .. Len(s) : i < j => s[i].depth <= s[j].depth
  <2> SUFFICES ASSUME NEW i \in 1 .. Len(s), NEW j \in 1 .. Len(s), i < j
               PROVE  s[i].depth <= s[j].depth
    OBVIOUS
  <2>1. CASE j \in 1 .. Len(e)
    <3>1. i \in 1 .. Len(e)
      BY <1>1, <1>2, <2>1
    <3>2. e[i].depth <= e[j].depth
      BY <2>1, <3>1 DEF Layers
    <3>3. s[i] = e[i] /\ s[j] = e[j]
      BY <2>1, <3>1 DEF GrownBy
    <3>4. QED
      BY <3>2, <3>3
  <2>2. CASE j \notin 1 .. Len(e)
    <3>1. s[j].depth = d + 1
      BY <1>5, <2>2
    <3>2. s[i].depth = d + 1 \/ s[i].depth <= d + 1
      BY <1>5, <1>6
    <3>3. s[i].depth \in Nat
      BY <1>2
    <3>4. QED
      BY <1>4, <3>1, <3>2, <3>3
  <2>3. QED
    BY <2>1, <2>2
<1>10. ASSUME NEW i \in 1 .. Len(s)
       PROVE  s[i].depth <= crawl.maxDepth /\ AtDepth(w, s[i].url, s[i].depth)
  <2>1. CASE i \in 1 .. Len(e)
    <3>1. s[i] = e[i]
      BY <2>1 DEF GrownBy
    <3>2. QED
      BY <2>1, <3>1 DEF Layers
  <2>2. CASE i \notin 1 .. Len(e)
    <3> PICK v : v = s[i].url
      OBVIOUS
    <3>1. /\ Len(e) < i /\ s[i].depth = d + 1 /\ v \in Successors(x.url)
          /\ \A j \in 1 .. Len(e) : e[j].url # v
      BY <1>1, <1>2, <2>2 DEF GrownBy
    <3>2. d < crawl.maxDepth
      BY <1>1, <1>2, <3>1
    <3>3. d + 1 \in 1 .. crawl.maxDepth /\ d + 1 - 1 = d /\ d \in 0 .. crawl.maxDepth
      BY <1>4, <3>2
    <3>4. v \in w[d + 1]
      <4> PICK n : n = d + 1
        OBVIOUS
      <4>1. n - 1 = d
        BY <1>4
      <4>2. w[n] = w[d] \cup {y \in Eligible : \E u \in w[d] : y \in Successors(u)}
        BY <3>3, <4>1 DEF IsWithin
      <4>3. v \in Eligible /\ x.url \in w[d]
        BY <1>8, <3>1 DEF Successors, AtDepth
      <4>4. QED
        BY <3>1, <4>2, <4>3
    <3>5. \A c \in 0 .. d : v \notin w[c]
      <4>1. \A c \in 0 .. d : \A y \in w[c] : \E j \in 1 .. Len(e) : e[j].url = y
        <5>1. PICK D \in 0 .. crawl.maxDepth : D = d
          BY <3>3
        <5>2. \A j \in 1 .. Len(e) : k < j => D <= e[j].depth
          BY <1>7, <5>1
        <5> HIDE <5>1
        <5>3. \A c \in 0 .. D : \A y \in w[c] : \E j \in 1 .. Len(e) : e[j].url = y
          BY <5>2, NearPagesAreListed
        <5>4. QED
          BY <5>1, <5>3
      <4>2. QED
        BY <3>1, <4>1
    <3>6. AtDepth(w, v, d + 1)
      BY <3>3, <3>4, <3>5 DEF AtDepth
    <3>7. QED
      BY <3>1, <3>3, <3>6
  <2>3. QED
    BY <2>1, <2>2
<1>11. ASSUME NEW i \in 1 .. Len(s), NEW j \in 1 .. Len(s), k + 1 < i
       PROVE  s[j].depth <= s[i].depth + 1
  <2>1. d <= s[i].depth
    BY <1>4, <1>9, <1>11
  <2>2. s[j].depth = d + 1 \/ s[j].depth <= d + 1
    BY <1>5, <1>6
  <2>3. s[i].depth \in Nat /\ s[j].depth \in Nat
    BY <1>2
  <2>4. PICK a, b : a = s[i].depth /\ b = s[j].depth
    OBVIOUS
  <2>5. a \in Nat /\ b \in Nat /\ d \in Nat /\ d <= a /\ b <= d + 1
    BY <1>4, <2>1, <2>2, <2>3, <2>4
  <2>6. b <= a + 1
    BY <2>5
  <2>7. QED
    BY <2>4, <2>6
<1>12. ASSUME NEW i \in 1 .. k + 1, s[i].depth < crawl.maxDepth, NEW v \in Successors(s[i].url)
       PROVE  \E j \in 1 .. Len(s) : s[j].url = v
  <2>1. CASE i = m
    BY <1>4, <1>12, <2>1
  <2>2. CASE i # m
    <3>1. i \in 1 .. k /\ i \in 1 .. Len(e)
      BY <1>1, <1>4, <2>2
    <3>2. s[i] = e[i]
      BY <3>1 DEF GrownBy
    <3>3. PICK j \in 1 .. Len(e) : e[j].url = v
      BY <1>12, <3>1, <3>2 DEF Layers
    <3>4. j \in 1 .. Len(s) /\ s[j] = e[j]
      BY <1>1, <1>2, <3>3 DEF GrownBy
    <3>5. QED
      BY <3>3, <3>4
  <2>3. QED
    BY <2>1, <2>2
<1>13. k + 1 \in 0 .. Len(s) /\ Len(s) > 0
  BY <1>1, <1>2, <1>4
<1>14. s[1].url = crawl.start
  BY <1>1 DEF Layers, GrownBy
<1>15. \A i, j \in 1 .. Len(s) : s[i].url = s[j].url => i = j
  BY DEF GrownBy
<1>16. QED
  BY <1>2, <1>9, <1>10, <1>11, <1>12, <1>13, <1>14, <1>15 DEF Layers

\* The queue of c is what is left of the list s after the first t, and all of s is queued.
Behind(c, s, t) ==
  /\ t \in Nat /\ t + Len(c.queue) = Len(s)
  /\ \A j \in 1 .. Len(c.queue) : c.queue[j] = s[t + j]
  /\ c.queued = {s[i].url : i \in 1 .. Len(s)}

\* A link that may be followed is in the list s.
LinkListed(l, s) ==
  l \in Allowed /\ Normal[l] \in Eligible => \E j \in 1 .. Len(s) : s[j].url = Normal[l]

LEMMA LinkGrowsTheList ==
  ASSUME NEW c \in CrawlType, NEW s, NEW e \in Seq(Entries), NEW x, NEW t,
         Behind(c, s, t), GrownBy(s, e, x), c.depth = x.depth,
         NEW l \in Urls \cup {Malformed}, l \in LinksAt(x.url),
         QueueLink(c, l).pc # "raised"
  PROVE  \E r : /\ GrownBy(r, e, x) /\ Behind(QueueLink(c, l), r, t)
                /\ Len(s) <= Len(r) /\ \A i \in 1 .. Len(s) : r[i] = s[i]
                /\ LinkListed(l, r)
<1>1. /\ s \in Seq(Entries) /\ Len(s) \in Nat /\ Len(e) \in Nat /\ Len(e) <= Len(s)
      /\ \A i \in 1 .. Len(s) : s[i].url \in Urls /\ s[i].depth \in Nat
  BY ListedPages DEF GrownBy
<1>2. c.pc # "raised" /\ l # Malformed /\ l \in Urls
  BY DEF QueueLink, CrawlType
<1>3. CASE ~Follows(l, c.queued)
  <2>1. QueueLink(c, l) = c
    BY <1>2, <1>3 DEF QueueLink
  <2>2. LinkListed(l, s)
    <3> SUFFICES ASSUME l \in Allowed, Normal[l] \in Eligible
                 PROVE  \E j \in 1 .. Len(s) : s[j].url = Normal[l]
      BY DEF LinkListed
    <3>1. HostOf[l] = HostOf[crawl.start] /\ Normal[l] \notin Excluded
      BY <1>2, CrawlAssumption DEF Eligible
    <3>2. Normal[l] \in c.queued
      BY <1>3, <3>1 DEF Follows
    <3>3. QED
      BY <3>2 DEF Behind
  <2>3. QED
    BY <1>1, <2>1, <2>2
<1>4. CASE Follows(l, c.queued)
  <2> PICK v, n : v = Normal[l] /\ n = x.depth + 1
    OBVIOUS
  <2> PICK y : y = [url |-> v, depth |-> n]
    OBVIOUS
  <2>1. v \in Urls /\ v \in Eligible /\ v \in Successors(x.url) /\ v \notin c.queued
    BY <1>2, <1>4, CrawlAssumption DEF Follows, Eligible, Successors
  <2>2. y \in Entries /\ y.url = v /\ y.depth = n
    BY <2>1 DEF Entries, CrawlType
  <2> PICK q, k : q = c.queue /\ k = c.queued
    OBVIOUS
  <2>3. q \in Seq(Entries) /\ Len(q) \in Nat
    BY DEF CrawlType
  <2>4. /\ QueueLink(c, l).queue = Append(q, y)
        /\ QueueLink(c, l).queued = k \cup {v}
    BY <1>2, <1>4 DEF QueueLink, CrawlType
  <2>5. PICK r : /\ r \in Seq(Entries) /\ Len(r) = Len(s) + 1 /\ r[Len(s) + 1] = y
                 /\ \A i \in 1 .. Len(s) : r[i] = s[i]
    <3>1. PICK r : r = Append(s, y)
      OBVIOUS
    <3>2. /\ r \in Seq(Entries) /\ Len(r) = Len(s) + 1 /\ r[Len(s) + 1] = y
          /\ \A i \in 1 .. Len(s) : r[i] = s[i]
      BY <1>1, <2>2, <3>1
    <3>3. QED
      BY <3>2
  <2>6. \A i \in 1 .. Len(r) : i \in 1 .. Len(s) \/ i = Len(s) + 1
    BY <1>1, <2>5
  <2>7. \A i \in 1 .. Len(s) : s[i].url # v
    BY <2>1 DEF Behind
  <2>8. GrownBy(r, e, x)
    <3>1. \A i \in 1 .. Len(e) : i \in 1 .. Len(s) /\ r[i] = e[i]
      BY <1>1, <2>5 DEF GrownBy
    <3>2. ASSUME NEW i \in 1 .. Len(r), Len(e) < i
          PROVE  /\ r[i].depth = x.depth + 1 /\ r[i].url \in Successors(x.url)
                 /\ \A j \in 1 .. Len(e) : e[j].url # r[i].url
      <4>1. CASE i \in 1 .. Len(s)
        <5>1. /\ s[i].depth = x.depth + 1 /\ s[i].url \in Successors(x.url)
              /\ \A j \in 1 .. Len(e) : e[j].url # s[i].url
          BY <3>2, <4>1 DEF GrownBy
        <5>2. r[i] = s[i]
          BY <2>5, <4>1
        <5>3. QED
          BY <5>1, <5>2
      <4>2. CASE i = Len(s) + 1
        <5>1. r[i].url = v /\ r[i].depth = x.depth + 1
          BY <2>2, <2>5, <4>2
        <5>2. \A j \in 1 .. Len(e) : e[j].url # v
          BY <1>1, <2>7 DEF GrownBy
        <5>3. QED
          BY <2>1, <5>1, <5>2
      <4>3. QED
        BY <2>6, <4>1, <4>2
    <3>3. ASSUME NEW i \in 1 .. Len(r), NEW j \in 1 .. Len(r), r[i].url = r[j].url
          PROVE  i = j
      <4>1. CASE i \in 1 .. Len(s) /\ j \in 1 .. Len(s)
        BY <2>5, <3>3, <4>1 DEF GrownBy
      <4>2. CASE i \in 1 .. Len(s) /\ j = Len(s) + 1
        BY <2>2, <2>5, <2>7, <3>3, <4>2
      <4>3. CASE i = Len(s) + 1 /\ j \in 1 .. Len(s)
        BY <2>2, <2>5, <2>7, <3>3, <4>3
      <4>4. QED
        BY <2>6, <4>1, <4>2, <4>3
    <3>4. Len(e) <= Len(r)
      BY <1>1, <2>5
    <3>5. QED
      BY <2>5, <3>1, <3>2, <3>3, <3>4 DEF GrownBy
  <2>9. Behind(QueueLink(c, l), r, t)
    <3>1. /\ t \in Nat /\ t + Len(q) = Len(s)
          /\ \A j \in 1 .. Len(q) : q[j] = s[t + j]
          /\ k = {s[i].url : i \in 1 .. Len(s)}
      BY DEF Behind
    <3>2. PICK a : /\ a = QueueLink(c, l).queue /\ Len(a) = Len(q) + 1 /\ a[Len(q) + 1] = y
                   /\ \A j \in 1 .. Len(q) : a[j] = q[j]
      <4>1. /\ Len(Append(q, y)) = Len(q) + 1 /\ Append(q, y)[Len(q) + 1] = y
            /\ \A j \in 1 .. Len(q) : Append(q, y)[j] = q[j]
        BY <2>2, <2>3
      <4>2. QED
        BY <2>4, <4>1
    <3>3. t + Len(a) = Len(r)
      <4>1. t + (Len(q) + 1) = (t + Len(q)) + 1
        BY <2>3, <3>1
      <4>2. QED
        BY <2>5, <3>1, <3>2, <4>1
    <3>4. ASSUME NEW j \in 1 .. Len(a) PROVE a[j] = r[t + j]
      <4>1. CASE j \in 1 .. Len(q)
        <5>1. t + j \in 1 .. Len(s)
          BY <1>1, <2>3, <3>1, <4>1
        <5>2. QED
          BY <2>5, <3>1, <3>2, <4>1, <5>1
      <4>2. CASE j = Len(q) + 1
        <5>1. t + (Len(q) + 1) = (t + Len(q)) + 1
          BY <2>3, <3>1
        <5>2. t + j = Len(s) + 1
          BY <3>1, <4>2, <5>1
        <5>3. QED
          BY <2>5, <3>2, <4>2, <5>2
      <4>3. QED
        BY <2>3, <3>2, <4>1, <4>2
    <3>5. k \cup {v} = {r[i].url : i \in 1 .. Len(r)}
      <4>1. {r[i].url : i \in 1 .. Len(r)} \subseteq k \cup {v}
        BY <2>2, <2>5, <2>6, <3>1
      <4>2. Len(s) + 1 \in 1 .. Len(r) /\ \A i \in 1 .. Len(s) : i \in 1 .. Len(r)
        BY <1>1, <2>5
      <4>3. k \cup {v} \subseteq {r[i].url : i \in 1 .. Len(r)}
        BY <2>2, <2>5, <3>1, <4>2
      <4>4. QED
        BY <4>1, <4>3
    <3>6. QueueLink(c, l).queue = a /\ QueueLink(c, l).queued = {r[i].url : i \in 1 .. Len(r)}
      BY <2>4, <3>2, <3>5
    <3>7. QED
      BY <3>1, <3>3, <3>4, <3>6 DEF Behind
  <2>10. LinkListed(l, r)
    BY <1>1, <2>2, <2>5 DEF LinkListed
  <2>11. Len(s) <= Len(r)
    BY <1>1, <2>5
  <2>12. QED
    BY <2>5, <2>8, <2>9, <2>10, <2>11
<1>5. QED
  BY <1>3, <1>4

LEMMA LinksGrowTheList ==
  ASSUME crawl \in CrawlType, NEW links \in Seq(Urls \cup {Malformed}),
         NEW e \in Seq(Entries), NEW x, NEW t, Behind(crawl, e, t), crawl.depth = x.depth,
         \A i, j \in 1 .. Len(e) : e[i].url = e[j].url => i = j,
         \A n \in 1 .. Len(links) : links[n] \in LinksAt(x.url),
         QueueLinks(links).pc # "raised"
  PROVE  \E s : /\ GrownBy(s, e, x) /\ Behind(QueueLinks(links), s, t)
                /\ \A n \in 1 .. Len(links) : LinkListed(links[n], s)
<1> DEFINE N == Len(links)
<1>1. N \in Nat /\ \A n \in 1 .. N : links[n] \in Urls \cup {Malformed}
  OBVIOUS
<1>2. PICK g : LinkByLink(g, links) /\ QueueLinks(links) = g[N]
  BY LinksAreQueued
<1> HIDE DEF N
<1>3. /\ g \in [0 .. N -> CrawlType] /\ g[0] = [crawl EXCEPT !.pc = "next"]
      /\ \A n \in 1 .. N : g[n] = QueueLink(g[n - 1], links[n])
  BY <1>2 DEF LinkByLink, N
<1> DEFINE Good(n, s) == /\ GrownBy(s, e, x) /\ Behind(g[n], s, t)
                         /\ \A m \in 1 .. n : LinkListed(links[m], s)
           T == {n \in 0 .. N : /\ g[n].depth = x.depth
                                /\ g[n].pc # "raised" => \E s : Good(n, s)}
<1>4. 0 \in T
  <2>1. g[0].depth = x.depth /\ g[0].queue = crawl.queue /\ g[0].queued = crawl.queued
    BY <1>3 DEF CrawlType
  <2>2. GrownBy(e, e, x)
    <3>1. Len(e) \in Nat
      OBVIOUS
    <3>2. QED
      BY <3>1 DEF GrownBy
  <2>3. Good(0, e)
    BY <2>1, <2>2 DEF Behind
  <2>4. QED
    BY <1>1, <2>1, <2>3
<1>5. ASSUME NEW n \in 1 .. N, n - 1 \in T PROVE n \in T
  <2> PICK c, l : c = g[n - 1] /\ l = links[n]
    OBVIOUS
  <2>1. /\ n \in 0 .. N /\ n - 1 \in 0 .. N /\ c \in CrawlType /\ l \in Urls \cup {Malformed}
        /\ c.depth = x.depth /\ g[n] = QueueLink(c, l)
    BY <1>1, <1>3, <1>5
  <2>2. g[n].depth = x.depth
    BY <2>1 DEF QueueLink, CrawlType
  <2>3. ASSUME g[n].pc # "raised" PROVE \E s : Good(n, s)
    <3>1. c.pc # "raised"
      BY <2>1, <2>3 DEF QueueLink
    <3>2. PICK s : Good(n - 1, s)
      BY <1>5, <3>1
    <3>3. GrownBy(s, e, x) /\ Behind(c, s, t)
      BY <3>2
    <3>4. l \in LinksAt(x.url)
      BY DEF N
    <3>5. PICK r : /\ GrownBy(r, e, x) /\ Behind(QueueLink(c, l), r, t)
                   /\ Len(s) <= Len(r) /\ \A i \in 1 .. Len(s) : r[i] = s[i]
                   /\ LinkListed(l, r)
      <4>1. QueueLink(c, l).pc # "raised" /\ c.depth = x.depth
        BY <2>1, <2>3
      <4> HIDE DEF Good, T
      <4>2. QED
        BY <2>1, <3>3, <3>4, <4>1, LinkGrowsTheList
    <3>6. ASSUME NEW m \in 1 .. n PROVE LinkListed(links[m], r)
      <4>1. CASE m = n
        BY <3>5, <4>1
      <4>2. CASE m # n
        <5>1. m \in 1 .. n - 1
          BY <4>2
        <5>2. LinkListed(links[m], s)
          BY <3>2, <5>1
        <5>3. Len(s) \in Nat /\ Len(r) \in Nat
          BY <3>3, <3>5 DEF GrownBy
        <5>4. \A j \in 1 .. Len(s) : j \in 1 .. Len(r) /\ r[j] = s[j]
          BY <3>5, <5>3
        <5>5. QED
          BY <5>2, <5>4 DEF LinkListed
      <4>3. QED
        BY <4>1, <4>2
    <3>7. Good(n, r)
      BY <2>1, <3>5, <3>6
    <3>8. QED
      BY <3>7
  <2> HIDE DEF Good
  <2>4. QED
    BY <2>1, <2>2, <2>3
<1> HIDE DEF T
<1>6. \A n \in 0 .. N : n \in T
  BY <1>1, <1>4, <1>5, UpTo
<1>7. N \in T
  BY <1>1, <1>6
<1>8. PICK s : Good(N, s)
  BY <1>2, <1>7 DEF T
<1>9. QED
  BY <1>2, <1>8 DEF N

\* What a crawl finds on the page it has just reported.
LEMMA FoundLinks ==
  ASSUME SiteInv, crawl.pc = "yielded", nameChanges = 0
  PROVE  LinksAt(fetch.start) =
           IF Healthy /\ web[fetch.at].html THEN Range(web[fetch.at].links) ELSE {}
<1>1. fetch.pc = "done" /\ fetch.caller = "crawl"
  BY DEF SiteInv, CrawlTyped
<1> PICK u, chain, ends : /\ u = fetch.start /\ chain = Chain(u, HopLimit["crawl"])
                          /\ ends = Ends("crawl", u)
  OBVIOUS
<1>2. /\ fetch.outcome = "answered" <=> ends # {}
      /\ \A n \in ends : fetch.at = chain[n]
  BY <1>1, DoneTells DEF SiteInv
<1>3. LinksAt(u) = IF ends = {} THEN {}
                   ELSE IF /\ web[chain[CHOOSE n \in ends : TRUE]].healthy
                           /\ web[chain[CHOOSE n \in ends : TRUE]].html
                        THEN Range(web[chain[CHOOSE n \in ends : TRUE]].links) ELSE {}
  BY DEF LinksAt
<1>4. ends # {} => (CHOOSE n \in ends : TRUE) \in ends
  OBVIOUS
<1>5. QED
  BY <1>2, <1>3, <1>4 DEF Healthy

\* How many pages of the list the crawl has taken up, and how many it is done with.
Taken == IF crawl.pc = "fetching" THEN crawl.checked + 1 ELSE crawl.checked
Expanded == IF crawl.pc = "yielded" THEN crawl.checked - 1 ELSE crawl.checked

\* The list e of the pages found so far: those reported, the one at work, the queue.
Found(e) ==
  /\ e \in Seq(Entries) /\ Behind(crawl, e, Taken)
  /\ crawl.start \in Urls
  /\ crawl.checked = Len(crawl.reports) /\ crawl.checked <= crawl.maxPages
  /\ crawl.pc = "fetching" => crawl.checked < crawl.maxPages
  /\ crawl.pc = "yielded" => crawl.checked > 0
  /\ crawl.pc = "done" => ~MayFetchMore
  /\ \A i \in 1 .. crawl.checked :
       crawl.reports[i].url = e[i].url /\ crawl.reports[i].depth = e[i].depth
  /\ crawl.pc \in {"fetching", "yielded"} =>
       e[Taken].url = fetch.start /\ e[Taken].depth = crawl.depth

BreadthInv ==
  crawl.pc \in {"next", "fetching", "yielded", "done"} /\ crawl.maxPages > 0 /\ nameChanges = 0 =>
    \E e : Found(e) /\ \A w : IsWithin(w) => Layers(w, e, Expanded)

\* The layers of a list do not change while the site does not.
LEMMA SameLayers ==
  ASSUME SameWorld, crawl'.start = crawl.start, crawl'.maxDepth = crawl.maxDepth,
         NEW e, NEW k, \A w : IsWithin(w) => Layers(w, e, k)
  PROVE  \A w : IsWithin(w)' => Layers(w, e, k)'
<1>1. \A u : Successors(u)' = Successors(u)
  BY SameSite
<1>2. \A w : IsWithin(w)' <=> IsWithin(w)
  BY SameSite
<1>3. \A w : Layers(w, e, k)' <=> Layers(w, e, k)
  BY <1>1 DEF Layers, AtDepth
<1>4. QED
  BY <1>2, <1>3

\* The crawl is where it was, and so is its fetch.
LEMMA CrawlWaits ==
  ASSUME BreadthInv, UNCHANGED crawl, fetch'.start = fetch.start, SameWorld
  PROVE  BreadthInv'
<1> SUFFICES ASSUME crawl'.pc \in {"next", "fetching", "yielded", "done"},
                    crawl'.maxPages > 0, nameChanges' = 0
             PROVE  \E e : Found(e)' /\ \A w : IsWithin(w)' => Layers(w, e, Expanded)'
  BY DEF BreadthInv
<1>1. crawl' = crawl /\ nameChanges' = nameChanges
  BY DEF SameWorld
<1>2. PICK e : Found(e) /\ \A w : IsWithin(w) => Layers(w, e, Expanded)
  BY <1>1 DEF BreadthInv
<1>3. Found(e)'
  BY <1>1, <1>2 DEF Found, Behind, Taken, MayFetchMore
<1> PICK k : k = Expanded
  OBVIOUS
<1>4. k = Expanded' /\ \A w : IsWithin(w) => Layers(w, e, k)
  BY <1>1, <1>2 DEF Expanded
<1>5. \A w : IsWithin(w)' => Layers(w, e, k)'
  BY <1>1, <1>4, SameLayers
<1>6. \A w : IsWithin(w)' => Layers(w, e, Expanded)'
  BY <1>4, <1>5
<1>7. QED
  BY <1>3, <1>6

\* A list and its layers, in the next state.
LEMMA BreadthNext ==
  ASSUME NEW e, NEW k, Found(e)', k = Expanded', \A w : IsWithin(w)' => Layers(w, e, k)'
  PROVE  BreadthInv'
<1>1. \A w : IsWithin(w)' => Layers(w, e, Expanded)'
  OBVIOUS
<1>2. QED
  BY <1>1 DEF BreadthInv

LEMMA BeginCrawlBreadth ==
  ASSUME NEW url \in Starts, NEW n \in PageBounds, NEW d \in DepthBounds, BeginCrawl(url, n, d)
  PROVE  BreadthInv'
<1>1. CASE url \notin Allowed
  <2>1. crawl'.maxPages = 0
    BY <1>1 DEF BeginCrawl, NoCrawl
  <2>2. QED
    BY <2>1 DEF BreadthInv
<1>2. CASE url \in Allowed
  <2> PICK u : u = Normal[url]
    OBVIOUS
  <2> PICK y : y = [url |-> u, depth |-> 0]
    OBVIOUS
  <2> PICK e : e = <<y>>
    OBVIOUS
  <2>1. u \in Urls /\ n \in Nat /\ d \in Nat
    BY CrawlAssumption
  <2>2. /\ crawl'.pc = "next" /\ crawl'.start = u /\ crawl'.maxPages = n /\ crawl'.maxDepth = d
        /\ crawl'.queue = e /\ crawl'.queued = {u} /\ crawl'.checked = 0
        /\ crawl'.reports = <<>>
    BY <1>2 DEF BeginCrawl, NoCrawl
  <2>3. y \in Entries /\ y.url = u /\ y.depth = 0
    BY <2>1 DEF Entries
  <2>4. e \in Seq(Entries) /\ Len(e) = 1 /\ e[1] = y
    BY <2>3
  <2>5. \A i : i \in 1 .. 1 <=> i = 1
    OBVIOUS
  <2>6. Found(e)'
    <3>1. Taken' = 0
      BY <2>2 DEF Taken
    <3>2. \A j \in 1 .. Len(e) : e[j] = e[0 + j]
      BY <2>4, <2>5
    <3>3. {u} = {e[i].url : i \in 1 .. Len(e)}
      BY <2>3, <2>4, <2>5
    <3>4. Behind(crawl, e, Taken)'
      BY <2>2, <2>4, <3>1, <3>2, <3>3 DEF Behind
    <3>5. Len(<<>>) = 0 /\ 0 <= n /\ 1 .. 0 = {}
      BY <2>1
    <3>6. QED
      BY <2>1, <2>2, <2>4, <3>4, <3>5 DEF Found
  <2>7. Expanded' = 0
    BY <2>2 DEF Expanded
  <2>8. ASSUME NEW w, IsWithin(w)' PROVE Layers(w, e, 0)'
    <3>1. w[0] = {u} /\ 0 .. 0 - 1 = {}
      BY <2>2, <2>8 DEF IsWithin
    <3>2. AtDepth(w, u, 0)
      BY <3>1 DEF AtDepth
    <3>3. /\ \A i \in 1 .. Len(e) : e[i].url = u /\ e[i].depth = 0 /\ i = 1
          /\ 0 \in 0 .. Len(e) /\ Len(e) > 0 /\ 0 <= d /\ 1 .. 0 = {} /\ 0 <= 0 + 1
      BY <2>1, <2>3, <2>4, <2>5
    <3>4. /\ \A i, j \in 1 .. Len(e) : e[i].url = e[j].url => i = j
          /\ \A i, j \in 1 .. Len(e) : i < j => e[i].depth <= e[j].depth
          /\ \A i \in 1 .. Len(e) : e[i].depth <= d /\ AtDepth(w, e[i].url, e[i].depth)
          /\ \A i, j \in 1 .. Len(e) : 0 < i => e[j].depth <= e[i].depth + 1
      BY <3>2, <3>3
    <3>5. e[1].url = u
      BY <2>3, <2>4
    <3>6. QED
      BY <2>2, <2>4, <3>3, <3>4, <3>5 DEF Layers
  <2>9. QED
    BY <2>6, <2>7, <2>8, BreadthNext
<1>3. QED
  BY <1>1, <1>2

LEMMA FetchNextBreadth ==
  ASSUME SiteInv, BreadthInv, FetchNext
  PROVE  BreadthInv'
<1> SUFFICES ASSUME crawl'.maxPages > 0, nameChanges' = 0
             PROVE  BreadthInv'
  BY DEF BreadthInv
<1>1. crawl \in CrawlType /\ crawl.pc = "next" /\ crawl.queue # <<>>
      /\ crawl.checked < crawl.maxPages /\ SameWorld
  BY DEF SiteInv, CrawlTyped, FetchNext, MayFetchMore, SameWorld
<1> PICK q, k : q = crawl.queue /\ k = crawl.checked
  OBVIOUS
<1>2. /\ q \in Seq(Entries) /\ q # <<>> /\ k \in Nat
  BY <1>1 DEF CrawlType
<1>3. /\ q[1] \in Entries /\ Len(q) \in Nat /\ Len(q) > 0
      /\ Len(Tail(q)) = Len(q) - 1 /\ \A j \in 1 .. Len(q) - 1 : Tail(q)[j] = q[j + 1]
  BY <1>2
<1> PICK tail : tail = Tail(q)
  OBVIOUS
<1>4. /\ crawl'.pc = "fetching" /\ crawl'.start = crawl.start /\ crawl'.checked = k
      /\ crawl'.maxPages = crawl.maxPages /\ crawl'.maxDepth = crawl.maxDepth
      /\ crawl'.reports = crawl.reports /\ crawl'.queued = crawl.queued
      /\ crawl'.depth = q[1].depth /\ crawl'.queue = tail /\ fetch'.start = q[1].url
  BY <1>1, <1>2 DEF FetchNext, NextInQueue, CrawlType, Started
<1>5. PICK e : Found(e) /\ \A w : IsWithin(w) => Layers(w, e, Expanded)
  BY <1>1, <1>4 DEF BreadthInv, SameWorld
<1>6. Taken = k /\ Expanded = k /\ Taken' = k + 1 /\ Expanded' = k
  BY <1>1, <1>4 DEF Taken, Expanded
<1>7. /\ e \in Seq(Entries) /\ k + Len(q) = Len(e) /\ \A j \in 1 .. Len(q) : q[j] = e[k + j]
      /\ crawl.queued = {e[i].url : i \in 1 .. Len(e)}
  BY <1>5, <1>6 DEF Found, Behind
<1>8. q[1] = e[k + 1]
  BY <1>3, <1>7
<1>9. k + 1 + Len(tail) = Len(e)
  <2>1. PICK n : n = Len(q)
    OBVIOUS
  <2>2. n \in Nat /\ k \in Nat
    BY <1>2, <1>3, <2>1
  <2>3. (k + 1) + (n - 1) = k + n
    BY <2>2
  <2>4. Len(tail) = n - 1 /\ k + n = Len(e)
    BY <1>3, <1>7, <2>1
  <2>5. QED
    BY <2>3, <2>4
<1>10. ASSUME NEW j \in 1 .. Len(tail) PROVE tail[j] = e[k + 1 + j]
  <2>1. PICK n : n = Len(q)
    OBVIOUS
  <2>2. n \in Nat /\ k \in Nat /\ j \in 1 .. n - 1
    BY <1>2, <1>3, <2>1
  <2>3. j + 1 \in 1 .. n /\ k + (j + 1) = k + 1 + j
    BY <2>2
  <2>4. tail[j] = q[j + 1]
    BY <1>3, <2>1, <2>2
  <2>5. q[j + 1] = e[k + (j + 1)]
    BY <1>7, <2>1, <2>3
  <2>6. QED
    BY <2>3, <2>4, <2>5
<1>11. Behind(crawl, e, Taken)'
  <2>1. k + 1 \in Nat /\ Taken' = k + 1 /\ crawl'.queue = tail /\ crawl'.queued = crawl.queued
    BY <1>2, <1>4, <1>6
  <2>2. QED
    BY <2>1, <1>7, <1>9, <1>10 DEF Behind
<1>12. Found(e)'
  BY <1>1, <1>4, <1>5, <1>6, <1>8, <1>11 DEF Found
<1>13. \A w : IsWithin(w)' => Layers(w, e, k)'
  BY <1>1, <1>4, <1>5, <1>6, SameLayers
<1>14. QED
  BY <1>6, <1>12, <1>13, BreadthNext

LEMMA ReportBreadth ==
  ASSUME SiteInv, BreadthInv, Report
  PROVE  BreadthInv'
<1> SUFFICES ASSUME crawl'.maxPages > 0, nameChanges' = 0
             PROVE  BreadthInv'
  BY DEF BreadthInv
<1>1. crawl \in CrawlType /\ crawl.pc = "fetching" /\ SameWorld /\ fetch' = fetch
  BY DEF SiteInv, CrawlTyped, Report, SameWorld
<1> PICK r, k, y : /\ r = crawl.reports /\ k = crawl.checked
                   /\ y = [url |-> fetch.start, depth |-> crawl.depth, healthy |-> Healthy]
  OBVIOUS
<1> PICK m : m = k + 1
  OBVIOUS
<1>2. k \in Nat /\ m \in Nat /\ m > 0 /\ m - 1 = k
  BY <1>1 DEF CrawlType
<1>3. /\ crawl'.pc = "yielded" /\ crawl'.start = crawl.start /\ crawl'.checked = m
      /\ crawl'.maxPages = crawl.maxPages /\ crawl'.maxDepth = crawl.maxDepth
      /\ crawl'.reports = Append(r, y) /\ crawl'.queued = crawl.queued
      /\ crawl'.depth = crawl.depth /\ crawl'.queue = crawl.queue
  BY <1>1 DEF Report, CrawlType
<1>4. PICK e : Found(e) /\ \A w : IsWithin(w) => Layers(w, e, Expanded)
  BY <1>1, <1>3 DEF BreadthInv, SameWorld
<1>5. Taken = m /\ Expanded = k /\ Taken' = m /\ Expanded' = k
  BY <1>1, <1>2, <1>3 DEF Taken, Expanded
<1>6. Behind(crawl, e, Taken)'
  BY <1>3, <1>4, <1>5 DEF Found, Behind
<1>7. e[m].url = y.url /\ e[m].depth = y.depth
  BY <1>1, <1>4, <1>5 DEF Found
<1>8. k = Len(r) /\ k < crawl.maxPages /\ crawl.maxPages \in Nat
  BY <1>1, <1>4 DEF Found, CrawlType
<1>9. PICK a : /\ a = crawl'.reports /\ Len(a) = m /\ a[m] = y
               /\ \A i \in 1 .. k : a[i] = r[i]
  <2>1. r \in Seq([url : Urls, depth : Nat, healthy : BOOLEAN])
    BY <1>1 DEF CrawlType
  <2>2. Len(Append(r, y)) = Len(r) + 1 /\ Append(r, y)[Len(r) + 1] = y
        /\ \A i \in 1 .. Len(r) : Append(r, y)[i] = r[i]
    BY <2>1
  <2>3. PICK a : a = Append(r, y)
    OBVIOUS
  <2>4. /\ a = crawl'.reports /\ Len(a) = m /\ a[m] = y
        /\ \A i \in 1 .. k : a[i] = r[i]
    BY <1>3, <1>8, <2>2, <2>3
  <2>5. QED
    BY <2>4
<1>10. ASSUME NEW i \in 1 .. m PROVE a[i].url = e[i].url /\ a[i].depth = e[i].depth
  <2>1. i \in 1 .. k \/ i = m
    BY <1>2
  <2>2. i \in 1 .. k => a[i] = r[i] /\ r[i].url = e[i].url /\ r[i].depth = e[i].depth
    BY <1>4, <1>9 DEF Found
  <2>3. QED
    BY <1>7, <1>9, <2>1, <2>2
<1>11. m <= crawl.maxPages
  BY <1>2, <1>8
<1>12. Found(e)'
  <2>1. e \in Seq(Entries) /\ crawl.start \in Urls
    BY <1>4 DEF Found
  <2>2. e[m].url = fetch'.start /\ e[m].depth = crawl'.depth
    BY <1>1, <1>3, <1>7
  <2>3. QED
    BY <1>2, <1>3, <1>5, <1>6, <1>9, <1>10, <1>11, <2>1, <2>2 DEF Found
<1>13. \A w : IsWithin(w)' => Layers(w, e, k)'
  BY <1>1, <1>3, <1>4, <1>5, SameLayers
<1>14. QED
  BY <1>5, <1>12, <1>13, BreadthNext

LEMMA ExpandBreadth ==
  ASSUME SiteInv, BreadthInv, Expand
  PROVE  BreadthInv'
<1> SUFFICES ASSUME crawl'.pc # "raised", crawl'.maxPages > 0, nameChanges' = 0
             PROVE  BreadthInv'
  BY DEF BreadthInv
<1> PICK k, x, links : /\ k = crawl.checked
                       /\ x = [url |-> fetch.start, depth |-> crawl.depth]
                       /\ links = web[fetch.at].links
  OBVIOUS
<1>1. /\ crawl \in CrawlType /\ crawl.pc = "yielded" /\ SameWorld /\ fetch' = fetch
      /\ crawl.maxDepth \in Nat /\ k \in Nat
  BY DEF SiteInv, CrawlTyped, Expand, SameWorld, CrawlType
<1>2. Expands => links \in Seq(Urls \cup {Malformed})
  BY <1>1, ExpandsAPage
<1>3. /\ crawl'.pc = "next" /\ crawl'.start = crawl.start /\ crawl'.checked = k
      /\ crawl'.maxPages = crawl.maxPages /\ crawl'.maxDepth = crawl.maxDepth
      /\ crawl'.reports = crawl.reports
      /\ crawl' = IF Expands THEN QueueLinks(links) ELSE [crawl EXCEPT !.pc = "next"]
  <2>1. crawl' = IF Expands THEN QueueLinks(links) ELSE [crawl EXCEPT !.pc = "next"]
    BY DEF Expand
  <2>2. CASE Expands
    <3>1. crawl' = QueueLinks(links)
      BY <2>1, <2>2
    <3>2. QED
      BY <1>1, <1>2, <2>1, <2>2, <3>1, QueueLinksKeeps
  <2>3. CASE ~Expands
    <3>1. crawl' = [crawl EXCEPT !.pc = "next"]
      BY <2>1, <2>3
    <3>2. QED
      BY <1>1, <2>1, <3>1 DEF CrawlType
  <2>4. QED
    BY <2>2, <2>3
<1>4. nameChanges = 0
  BY <1>1 DEF SameWorld
<1>5. PICK e : Found(e) /\ \A w : IsWithin(w) => Layers(w, e, Expanded)
  BY <1>1, <1>3, <1>4 DEF BreadthInv
<1>6. /\ Taken = k /\ Expanded = k - 1 /\ Taken' = k /\ Expanded' = k
  BY <1>1, <1>3 DEF Taken, Expanded
<1>7. /\ e \in Seq(Entries) /\ Behind(crawl, e, k) /\ k > 0
      /\ e[k].url = x.url /\ e[k].depth = x.depth /\ crawl.start \in Urls
      /\ Len(e) \in Nat
  BY <1>1, <1>5, <1>6 DEF Found
<1>8. k \in 1 .. Len(e)
  <2>1. k + Len(crawl.queue) = Len(e) /\ Len(crawl.queue) \in Nat
    BY <1>1, <1>7 DEF Behind, CrawlType
  <2>2. QED
    BY <1>1, <1>7, <2>1
<1>9. e[k] = x
  <2>1. PICK y \in Entries : y = e[k]
    BY <1>7, <1>8
  <2>2. y = [url |-> y.url, depth |-> y.depth]
    BY DEF Entries
  <2>3. QED
    BY <1>7, <2>1, <2>2
<1>10. \A i, j \in 1 .. Len(e) : e[i].url = e[j].url => i = j
  <2>1. IsWithin(Within)
    BY <1>1, <1>7, WithinIsWithin
  <2>2. QED
    BY <1>5, <2>1 DEF Layers
<1>11. LinksAt(x.url) = IF Healthy /\ web[fetch.at].html THEN Range(links) ELSE {}
  BY <1>1, <1>4, FoundLinks
<1>12. \E s : /\ GrownBy(s, e, x) /\ Behind(crawl', s, k)
              /\ x.depth < crawl.maxDepth =>
                   \A v \in Successors(x.url) : \E j \in 1 .. Len(s) : s[j].url = v
              /\ ~(x.depth < crawl.maxDepth) => Len(s) = Len(e)
  <2>1. CASE Expands
    <3>1. /\ LinksAt(x.url) = Range(links) /\ x.depth < crawl.maxDepth
          /\ links \in Seq(Urls \cup {Malformed}) /\ crawl' = QueueLinks(links)
      BY <1>2, <1>3, <1>11, <2>1 DEF Expands
    <3>2. \A l : l \in Range(links) <=> \E n \in 1 .. Len(links) : l = links[n]
      BY <3>1 DEF Range
    <3>3. \A n \in 1 .. Len(links) : links[n] \in LinksAt(x.url)
      BY <3>1, <3>2
    <3>4. QueueLinks(links).pc # "raised" /\ crawl.depth = x.depth
      BY <3>1
    <3>5. PICK s : /\ GrownBy(s, e, x) /\ Behind(QueueLinks(links), s, k)
                   /\ \A n \in 1 .. Len(links) : LinkListed(links[n], s)
      BY <1>1, <1>7, <1>10, <3>1, <3>3, <3>4, LinksGrowTheList
    <3>6. ASSUME NEW v \in Successors(x.url) PROVE \E j \in 1 .. Len(s) : s[j].url = v
      <4>1. v \in Eligible /\ \E l \in LinksAt(x.url) : l \in Allowed /\ Normal[l] = v
        BY DEF Successors
      <4>2. PICK n \in 1 .. Len(links) : links[n] \in Allowed /\ Normal[links[n]] = v
        BY <3>1, <3>2, <4>1
      <4>3. QED
        BY <3>5, <4>1, <4>2 DEF LinkListed
    <3>7. QED
      BY <3>1, <3>5, <3>6
  <2>2. CASE ~Expands
    <3>1. crawl' = [crawl EXCEPT !.pc = "next"]
      BY <1>3, <2>2
    <3>2. Behind(crawl', e, k)
      BY <1>1, <1>7, <3>1 DEF Behind, CrawlType
    <3>3. GrownBy(e, e, x)
      BY <1>7, <1>10 DEF GrownBy
    <3>4. x.depth < crawl.maxDepth => Successors(x.url) = {}
      BY <1>11, <2>2 DEF Successors, Expands
    <3>5. QED
      BY <3>2, <3>3, <3>4
  <2>3. QED
    BY <2>1, <2>2
<1>13. PICK s : /\ GrownBy(s, e, x) /\ Behind(crawl', s, k)
                /\ x.depth < crawl.maxDepth =>
                     \A v \in Successors(x.url) : \E j \in 1 .. Len(s) : s[j].url = v
                /\ ~(x.depth < crawl.maxDepth) => Len(s) = Len(e)
  BY <1>12
<1>14. ASSUME NEW w, IsWithin(w) PROVE Layers(w, s, k)
  <2> PICK b : b = k - 1
    OBVIOUS
  <2>1. b + 1 = k /\ b < Len(e)
    BY <1>1, <1>7, <1>8
  <2>2. Layers(w, e, b) /\ x = e[b + 1]
    BY <1>5, <1>6, <1>9, <1>14, <2>1
  <2>3. Layers(w, s, b + 1)
    BY <1>1, <1>13, <1>14, <2>1, <2>2, LayersGrow
  <2>4. QED
    BY <2>1, <2>3
<1>15. \A w : IsWithin(w)' => Layers(w, s, k)'
  BY <1>1, <1>3, <1>14, SameLayers
<1>16. Found(s)'
  <2>1. Behind(crawl, s, Taken)'
    BY <1>6, <1>13 DEF Behind
  <2>2. \A i \in 1 .. k : i \in 1 .. Len(e) /\ s[i] = e[i]
    BY <1>1, <1>7, <1>8, <1>13 DEF GrownBy
  <2>3. \A i \in 1 .. k :
          crawl.reports[i].url = s[i].url /\ crawl.reports[i].depth = s[i].depth
    BY <1>5, <2>2 DEF Found
  <2>4. s \in Seq(Entries)
    BY <1>13 DEF GrownBy
  <2>5. k = Len(crawl.reports) /\ k <= crawl.maxPages
    BY <1>5 DEF Found
  <2>6. QED
    BY <1>3, <1>7, <2>1, <2>3, <2>4, <2>5 DEF Found
<1>17. QED
  BY <1>6, <1>15, <1>16, BreadthNext

LEMMA EndCrawlBreadth ==
  ASSUME SiteInv, BreadthInv, EndCrawl
  PROVE  BreadthInv'
<1> SUFFICES ASSUME crawl'.maxPages > 0, nameChanges' = 0
             PROVE  BreadthInv'
  BY DEF BreadthInv
<1>1. crawl \in CrawlType /\ crawl.pc = "next" /\ SameWorld /\ ~MayFetchMore
  BY DEF SiteInv, CrawlTyped, EndCrawl, SameWorld
<1>2. /\ crawl'.pc = "done" /\ crawl'.start = crawl.start /\ crawl'.checked = crawl.checked
      /\ crawl'.maxPages = crawl.maxPages /\ crawl'.maxDepth = crawl.maxDepth
      /\ crawl'.reports = crawl.reports /\ crawl'.queued = crawl.queued
      /\ crawl'.queue = crawl.queue
  BY <1>1 DEF EndCrawl, CrawlType
<1>3. PICK e : Found(e) /\ \A w : IsWithin(w) => Layers(w, e, Expanded)
  BY <1>1, <1>2 DEF BreadthInv, SameWorld
<1> PICK k : k = crawl.checked
  OBVIOUS
<1>4. Taken = k /\ Expanded = k /\ Taken' = k /\ Expanded' = k
  BY <1>1, <1>2 DEF Taken, Expanded
<1>5. Found(e)'
  BY <1>1, <1>2, <1>3, <1>4 DEF Found, Behind, MayFetchMore
<1>6. \A w : IsWithin(w)' => Layers(w, e, k)'
  BY <1>1, <1>2, <1>3, <1>4, SameLayers
<1>7. QED
  BY <1>4, <1>5, <1>6, BreadthNext

LEMMA BreadthInvHolds ==
  Spec => []BreadthInv
<1>1. Init => BreadthInv
  BY DEF Init, BreadthInv, NoCrawl
<1>2. SiteInv /\ BreadthInv /\ [Next]_crawlVars => BreadthInv'
  <2> SUFFICES ASSUME SiteInv, BreadthInv, [Next]_crawlVars PROVE BreadthInv'
    OBVIOUS
  <2>1. ASSUME crawl'.pc \notin {"next", "fetching", "yielded", "done"} PROVE BreadthInv'
    BY <2>1 DEF BreadthInv
  <2>2. ASSUME NEW caller, NEW url, BeginFetch(caller, url) PROVE BreadthInv'
    BY <2>1, <2>2 DEF BeginFetch, NoCrawl
  <2>3. CASE Disconnect
    <3>1. crawl'.pc = "closed"
      BY <2>3 DEF Disconnect, SiteInv, CrawlTyped, CrawlType
    <3>2. QED
      BY <2>1, <3>1
  <2>4. CASE Answer
    BY <2>1, <2>4 DEF Answer, NoCrawl
  <2>5. CASE FetchStep /\ UNCHANGED crawl
    <3>1. fetch'.start = fetch.start
      BY <2>5, FetchGoesOn DEF SiteInv
    <3>2. SameWorld
      BY <2>5 DEF FetchStep, Resolve, Attempt, CheckLastTarget, SameWorld
    <3>3. QED
      BY <2>5, <3>1, <3>2, CrawlWaits
  <2>6. CASE NamesChange
    <3>1. nameChanges' # 0
      <4>1. nameChanges \in Nat /\ nameChanges' = nameChanges + 1
        BY <2>6 DEF NamesChange, SiteInv, FetchInv, FetchTyped
      <4>2. nameChanges + 1 # 0
        BY <4>1
      <4>3. QED
        BY <4>1, <4>2
    <3>2. QED
      BY <3>1 DEF BreadthInv
  <2>7. CASE UNCHANGED crawlVars
    BY <2>7, CrawlWaits DEF crawlVars, SameWorld
  <2>8. QED
    BY <2>2, <2>3, <2>4, <2>5, <2>6, <2>7, BeginCrawlBreadth, FetchNextBreadth, ReportBreadth,
       ExpandBreadth, EndCrawlBreadth DEF Next, CrawlStep
<1>3. QED
  BY <1>1, <1>2, SiteInvHolds, PTL DEF Spec

-----------------------------------------------------------------------------
(* What that says of the reports.                                          *)

\* A layer holds those before it.
LEMMA LayersNest ==
  ASSUME crawl.maxDepth \in Nat, NEW w, IsWithin(w)
  PROVE  \A d \in 0 .. crawl.maxDepth : \A c \in 0 .. d : w[c] \subseteq w[d]
<1> PICK D : D = crawl.maxDepth
  OBVIOUS
<1> DEFINE T == {d \in 0 .. D : \A c \in 0 .. d : w[c] \subseteq w[d]}
<1>1. 0 \in T
  <2>1. 0 .. 0 = {0} /\ 0 \in 0 .. D
    OBVIOUS
  <2>2. QED
    BY <2>1
<1>2. ASSUME NEW d \in 1 .. D, d - 1 \in T PROVE d \in T
  <2>1. w[d - 1] \subseteq w[d]
    BY DEF IsWithin
  <2>2. \A c \in 0 .. d : c \in 0 .. d - 1 \/ c = d
    OBVIOUS
  <2>3. \A c \in 0 .. d - 1 : w[c] \subseteq w[d - 1]
    BY <1>2
  <2>4. d \in 0 .. D
    OBVIOUS
  <2>5. QED
    BY <2>1, <2>2, <2>3, <2>4
<1> HIDE DEF T
<1>3. \A d \in 0 .. D : d \in T
  BY <1>1, <1>2, UpTo
<1>4. QED
  BY <1>3 DEF T

\* A list of different pages is as long as the set of them.
LEMMA ListsCount ==
  ASSUME NEW e \in Seq(Entries), NEW W, IsFiniteSet(W),
         \A i, j \in 1 .. Len(e) : e[i].url = e[j].url => i = j,
         \A i \in 1 .. Len(e) : e[i].url \in W
  PROVE  /\ Cardinality(W) \in Nat /\ Len(e) <= Cardinality(W)
         /\ (\A v \in W : \E j \in 1 .. Len(e) : e[j].url = v) => Len(e) = Cardinality(W)
<1> DEFINE I == 1 .. Len(e)
           f == [i \in I |-> e[i].url]
<1>1. Len(e) \in Nat
  OBVIOUS
<1>2. IsFiniteSet(I) /\ Cardinality(I) = Len(e)
  <2>1. 1 \in Int /\ Len(e) \in Int
    BY <1>1
  <2> HIDE DEF f
  <2>2. /\ IsFiniteSet(I)
        /\ Cardinality(I) = IF 1 > Len(e) THEN 0 ELSE Len(e) - 1 + 1
    BY <2>1, FS_Interval
  <2>3. QED
    BY <1>1, <2>2
<1>3. f \in Injection(I, W)
  BY DEF Injection, IsInjective
<1>4. ASSUME \A v \in W : \E j \in 1 .. Len(e) : e[j].url = v PROVE f \in Surjection(I, W)
  <2>1. \A v \in W : \E j \in I : f[j] = v
    BY <1>4
  <2>2. f \in [I -> W]
    OBVIOUS
  <2>3. QED
    BY <2>1, <2>2 DEF Surjection
<1> HIDE DEF f, I
<1>5. /\ Cardinality(I) <= Cardinality(W)
      /\ Cardinality(I) = Cardinality(W) <=> f \in Surjection(I, W)
  BY <1>3, FS_Injection
<1>6. Cardinality(W) \in Nat
  BY FS_CardinalityType
<1>7. QED
  BY <1>2, <1>4, <1>5, <1>6

LEMMA DoneCrawlTells ==
  ASSUME SiteInv, BreadthInv
  PROVE  CrawlIsBreadthFirst
<1> SUFFICES ASSUME crawl.pc = "done", crawl.maxPages > 0, nameChanges = 0
             PROVE  LET r == crawl.reports
                    IN  /\ \A i, j \in DOMAIN r : r[i].url = r[j].url => i = j
                        /\ \A i \in DOMAIN r : r[i].depth <= crawl.maxDepth
                                               /\ AtDistance(r[i].url, r[i].depth)
                        /\ \A i, j \in DOMAIN r : i < j => r[i].depth <= r[j].depth
                        /\ Len(r) = Min({crawl.maxPages, Cardinality(Within[crawl.maxDepth])})
  BY DEF CrawlIsBreadthFirst
<1> PICK r, k, D, w, M : /\ r = crawl.reports /\ k = crawl.checked /\ D = crawl.maxDepth
                         /\ w = Within /\ M = crawl.maxPages
  OBVIOUS
<1>1. /\ crawl \in CrawlType /\ k \in Nat /\ D \in Nat /\ M \in Nat
      /\ Len(r) \in Nat /\ DOMAIN r = 1 .. Len(r)
  BY DEF SiteInv, CrawlTyped, CrawlType
<1>2. PICK e : Found(e) /\ \A v : IsWithin(v) => Layers(v, e, Expanded)
  BY DEF BreadthInv
<1>3. Taken = k /\ Expanded = k
  BY DEF Taken, Expanded
<1>4. /\ e \in Seq(Entries) /\ Len(e) \in Nat /\ Behind(crawl, e, k) /\ crawl.start \in Urls
      /\ k = Len(r) /\ k <= M /\ ~MayFetchMore
      /\ \A i \in 1 .. k : r[i].url = e[i].url /\ r[i].depth = e[i].depth
  BY <1>1, <1>2, <1>3 DEF Found
<1>5. IsWithin(w)
  BY <1>1, <1>4, WithinIsWithin
<1>6. Layers(w, e, k)
  BY <1>2, <1>3, <1>5
<1>7. k + Len(crawl.queue) = Len(e) /\ Len(crawl.queue) \in Nat
  BY <1>1, <1>4 DEF Behind, CrawlType
<1>8. k <= Len(e) /\ (crawl.queue = <<>> => k = Len(e))
  <2>1. PICK n, m : n = Len(crawl.queue) /\ m = Len(e)
    OBVIOUS
  <2>2. crawl.queue = <<>> => n = 0
    BY <2>1
  <2>3. k \in Nat /\ n \in Nat /\ m \in Nat /\ k + n = m
    BY <1>1, <1>4, <1>7, <2>1
  <2>4. k <= m /\ (n = 0 => k = m)
    BY <2>3
  <2>5. QED
    BY <2>1, <2>2, <2>4
<1>9. \A i \in 1 .. k : i \in 1 .. Len(e)
  BY <1>1, <1>4, <1>8
<1>10. \A i, j \in DOMAIN r : r[i].url = r[j].url => i = j
  BY <1>1, <1>4, <1>6, <1>9 DEF Layers
<1>11. \A i \in DOMAIN r : r[i].depth <= D /\ AtDistance(r[i].url, r[i].depth)
  <2>1. \A i \in 1 .. Len(e) : e[i].depth <= D /\ AtDepth(w, e[i].url, e[i].depth)
    BY <1>6 DEF Layers
  <2>2. \A u, d : AtDepth(w, u, d) => AtDistance(u, d)
    BY DEF AtDepth, AtDistance
  <2>3. QED
    BY <1>1, <1>4, <1>9, <2>1, <2>2
<1>12. \A i, j \in DOMAIN r : i < j => r[i].depth <= r[j].depth
  BY <1>1, <1>4, <1>6, <1>9 DEF Layers
<1> PICK W : W = w[D]
  OBVIOUS
<1>13. IsFiniteSet(W)
  <2>1. W \in SUBSET Urls
    BY <1>1, <1>5 DEF IsWithin
  <2>2. QED
    BY <2>1, CrawlAssumption, FS_Subset
<1>14. \A i \in 1 .. Len(e) : e[i].url \in W
  <2> SUFFICES ASSUME NEW i \in 1 .. Len(e) PROVE e[i].url \in W
    OBVIOUS
  <2>1. PICK d : d = e[i].depth
    OBVIOUS
  <2>2. d \in Nat /\ d <= D /\ e[i].url \in w[d]
    BY <1>4, <1>6, <2>1, ListedPages DEF Layers, AtDepth
  <2>3. d \in 0 .. D /\ D \in 0 .. D
    BY <1>1, <2>2
  <2>4. w[d] \subseteq w[D]
    BY <1>1, <1>5, <2>3, LayersNest
  <2>5. QED
    BY <2>2, <2>4
<1>15. \A i, j \in 1 .. Len(e) : e[i].url = e[j].url => i = j
  BY <1>6 DEF Layers
<1>16. /\ Cardinality(W) \in Nat /\ Len(e) <= Cardinality(W)
       /\ (\A v \in W : \E j \in 1 .. Len(e) : e[j].url = v) => Len(e) = Cardinality(W)
  BY <1>4, <1>13, <1>14, <1>15, ListsCount
<1>17. k = Min({M, Cardinality(W)})
  <2> PICK C : C = Cardinality(W)
    OBVIOUS
  <2>1. C \in Nat /\ {M, C} \in SUBSET Nat
    BY <1>1, <1>16
  <2>2. CASE crawl.queue = <<>>
    <3>1. D \in 0 .. crawl.maxDepth /\ \A i \in 1 .. Len(e) : k < i => D <= e[i].depth
      BY <1>1, <1>4, <1>8, <2>2
    <3>2. \A c \in 0 .. D : \A v \in w[c] : \E j \in 1 .. Len(e) : e[j].url = v
      <4>1. PICK d \in 0 .. crawl.maxDepth : d = D
        BY <3>1
      <4>2. \A i \in 1 .. Len(e) : k < i => d <= e[i].depth
        BY <3>1, <4>1
      <4>3. crawl.maxDepth \in Nat
        BY <1>1
      <4> HIDE <4>1
      <4>4. \A c \in 0 .. d : \A v \in w[c] : \E j \in 1 .. Len(e) : e[j].url = v
        BY <1>5, <1>6, <4>2, <4>3, NearPagesAreListed
      <4>5. QED
        BY <4>1, <4>4
    <3>3. D \in 0 .. D
      BY <1>1
    <3>4. \A v \in W : \E j \in 1 .. Len(e) : e[j].url = v
      BY <3>2, <3>3
    <3>5. k = C
      BY <1>8, <1>16, <2>2, <3>4
    <3>6. k \in {M, C} /\ \A y \in {M, C} : k <= y
      BY <1>1, <1>4, <2>1, <3>5
    <3>7. QED
      BY <2>1, <3>6, LeastIsMin
  <2>3. CASE crawl.queue # <<>>
    <3>1. ~(k < M)
      BY <1>4, <2>3 DEF MayFetchMore
    <3>2. k = M
      BY <1>1, <1>4, <3>1
    <3>3. k <= C
      BY <1>1, <1>4, <1>8, <1>16, <2>1
    <3>4. k \in {M, C} /\ \A y \in {M, C} : k <= y
      BY <1>1, <3>2, <3>3
    <3>5. QED
      BY <2>1, <3>4, LeastIsMin
  <2>4. QED
    BY <2>2, <2>3
<1>18. QED
  BY <1>4, <1>10, <1>11, <1>12, <1>17

\* For any site and any bounds, with names that stay put: a crawl that comes to its end
\* has reported pages within max_depth links of the start, each once, nearest first and
\* with their true distance, and max_pages of them or all that there are
\* (crawl, crawler.py:134-179).
THEOREM CrawlsAreBreadthFirst ==
  Spec => []CrawlIsBreadthFirst
BY DoneCrawlTells, SiteInvHolds, BreadthInvHolds, PTL
=============================================================================
