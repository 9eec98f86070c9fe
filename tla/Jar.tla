-------------------------------- MODULE Jar --------------------------------
(***************************************************************************)
(* The cookie jar over its memory store (hclient/src/cookie: jar.rs,       *)
(* store.rs, matching.rs, persist.rs).  Several operations share a jar:    *)
(* each call of the store is atomic, a response reads the store once and   *)
(* puts its cookies one at a time, a request reads and touches.  A host is *)
(* a sequence of labels and a path a sequence of segments.                 *)
(***************************************************************************)
EXTENDS Naturals, Sequences, SequencesExt, FiniteSets, FiniteSetsExt

CONSTANTS
  Origins,     \* what is asked: [host, path, secure]
  Ips,         \* the hosts that are addresses
  PublicSuffixes, \* the public suffix list
  Responses,   \* the Set-Cookie lines of a response, in order: [name, attr, path, secure, age]
  Records,     \* cookies the application kept from an earlier process
  JarTasks,    \* operations that share the jar
  MaxCookies,  \* Capacity::max_cookies
  MaxPerDomain,\* Capacity::max_per_domain
  MaxExpiry,   \* MAX_EXPIRY
  MaxSeq,      \* cookies a jar gives a number to
  JarMaxTime   \* the clock

\* A host and a domain have a label: an empty Domain attribute is none
\* (parse.rs), and a URI without a host is refused.
Hosts == Seq(STRING) \ {<<>>}
Paths == Seq(STRING)

\* An address is the end of no name: no top-level domain is a number, which the
\* code does not ask again.
ASSUME JarAssumption ==
  /\ MaxCookies \in Nat \ {0} /\ MaxPerDomain \in Nat \ {0}
  /\ MaxExpiry \in Nat /\ JarMaxTime \in Nat
  /\ Origins \subseteq [host : Hosts, path : Paths, secure : BOOLEAN]
  /\ \A o \in Origins, p \in Ips : o.host # p => ~IsSuffix(p, o.host)
  /\ Responses \subseteq
       Seq([name : STRING, attr : Hosts, path : Paths, secure : BOOLEAN, age : Nat])
  /\ Records \subseteq
       [name : STRING, domain : Hosts, hostOnly : BOOLEAN, path : Paths, secure : BOOLEAN,
        expires : Nat, access : Nat, seq : Nat]

VARIABLES
  jar,  \* the store's cookies and count, next_seq and the clock
  job   \* what each operation is doing

jarVars == <<jar, job>>

\* An attribute that is not there, and the age of a session cookie.
Absent == <<"absent">>
SessionAge == MaxExpiry + 1
NeverExpires == JarMaxTime + MaxExpiry + 1

NoJob == [pc |-> "idle", todo |-> <<>>, snap |-> {}, placed |-> {}, at |-> 0]

EmptyJar == [held |-> {}, count |-> 0, next |-> 0]

JarInit ==
  /\ jar = [store |-> EmptyJar, now |-> 0]
  /\ job = [t \in JarTasks |-> NoJob]

\* domain_matches: the host itself, or its labels end in the domain's and it is
\* no address.
DomainMatches(host, domain) ==
  \/ host = domain
  \/ host \notin Ips /\ Len(domain) < Len(host) /\ IsSuffix(domain, host)

PathMatches(path, cookiePath) == IsPrefix(cookiePath, path)

\* A mutation: the walk stops before the domain of two labels.
CandidateDomainsShort(host) ==
  IF host \in Ips THEN {host}
  ELSE {host} \cup {SubSeq(host, i, Len(host)) : i \in 3..Len(host)}

\* candidate_domains: the host and every domain its name ends in.
CandidateDomains(host) ==
  IF host \in Ips THEN {host} ELSE {SubSeq(host, i, Len(host)) : i \in 1..Len(host)}

\* scope_domain: the domain and whether the cookie is for that host alone;
\* nothing when the attribute is refused.
ScopeDomain(host, attr) ==
  IF attr = Absent THEN {[domain |-> host, hostOnly |-> TRUE]}
  ELSE IF host \in Ips \/ attr \in PublicSuffixes
  THEN IF attr = host THEN {[domain |-> host, hostOnly |-> TRUE]} ELSE {}
  ELSE IF DomainMatches(host, attr) THEN {[domain |-> attr, hostOnly |-> FALSE]}
  ELSE {}

\* expiry: an age of nothing is the past, and no cookie outlives MAX_EXPIRY.
Expiry(age, now) ==
  IF age = SessionAge THEN NeverExpires
  ELSE IF age = 0 THEN 0 ELSE now + Min({age, MaxExpiry})

\* What the name's prefix promises of a cookie.
PrefixHolds(name, secure, hostOnly, path) ==
  /\ name \in {"__Secure-", "__Host-"} => secure
  /\ name = "__Host-" => hostOnly /\ path = <<>>

IsExpired(c, now) == c.expires <= now

\* CookieJar::prepare: the cookie a line sets, or none.
Prepare(o, l, now) ==
  LET path == IF l.path # Absent THEN l.path
              ELSE IF o.path = <<>> THEN <<>> ELSE Front(o.path)
      made(d) == [name |-> l.name, domain |-> d.domain, hostOnly |-> d.hostOnly,
                  path |-> path, secure |-> l.secure, expires |-> Expiry(l.age, now),
                  access |-> now, seq |-> 0]
  IN  {made(d) : d \in {e \in ScopeDomain(o.host, l.attr) :
         /\ l.secure => o.secure
         /\ PrefixHolds(l.name, l.secure /\ o.secure, e.hostOnly, path)}}

\* CookieKey::of.
KeyOfCookie(c) == <<c.name, c.domain, c.path, c.hostOnly>>

Same(cs, c) == {x \in cs : KeyOfCookie(x) = KeyOfCookie(c)}

\* Held::evict_lru among some cookies: the least recently used, and of those the
\* one that was numbered first.
Victim(cs) ==
  CHOOSE v \in cs : \A x \in cs :
    v.access < x.access \/ (v.access = x.access /\ v.seq <= x.seq)

\* Held::purge_expired.
PurgeExpired(s, now) ==
  LET kept == {c \in s.held : ~IsExpired(c, now)}
  IN  [s EXCEPT !.held = kept, !.count = @ - Cardinality(s.held \ kept)]

Without(s, cs) == [s EXCEPT !.held = @ \ cs, !.count = @ - Cardinality(cs)]

OfDomain(cs, d) == {c \in cs : c.domain = d}

\* One turn of each of put's two loops.
RoomInDomain(s, d) ==
  IF Cardinality(OfDomain(s.held, d)) >= MaxPerDomain
  THEN Without(s, {Victim(OfDomain(s.held, d))}) ELSE s

RoomAtAll(s) ==
  IF s.count >= MaxCookies /\ s.held # {} THEN Without(s, {Victim(s.held)}) ELSE s

\* MemoryStore::put: what has expired goes first, an expired cookie deletes, one
\* that is held is replaced in its place, and room is made before a new one.
JarPut(s0, c, now) ==
  LET s == PurgeExpired(s0, now)
      room == RoomAtAll(RoomInDomain(s, c.domain))
  IN  IF IsExpired(c, now) THEN Without(s, Same(s.held, c))
      ELSE IF Same(s.held, c) # {}
      THEN [s EXCEPT !.held = (@ \ Same(s.held, c)) \cup {c}]
      ELSE [room EXCEPT !.held = @ \cup {c}, !.count = @ + 1]

\* CookieJar::matching.
Matching(s, o, now) ==
  {c \in s.held :
     /\ c.domain \in CandidateDomains(o.host)
     /\ ~IsExpired(c, now)
     /\ IF c.hostOnly THEN o.host = c.domain ELSE DomainMatches(o.host, c.domain)
     /\ PathMatches(o.path, c.path)
     /\ c.secure => o.secure}

\* The cookies of a response: those of the lines that set one, in order.
Made(o, ls, now) ==
  LET sets == {i \in 1..Len(ls) : Prepare(o, ls[i], now) # {}}
      nth(n) == CHOOSE i \in sets : Cardinality({j \in sets : j <= i}) = n
  IN  [n \in 1..Cardinality(sets) |-> CHOOSE c \in Prepare(o, ls[nth(n)], now) : TRUE]

\* store_response begins: what is refused is dropped, and the store is read
\* once; of that read only the cookies with a key that arrives are looked at.
StoreResponse(t) ==
  /\ job[t].pc = "idle"
  /\ \E o \in Origins, ls \in Responses :
       LET made == Made(o, ls, jar.now)
       IN  /\ made # <<>> /\ jar.store.next + Len(made) <= MaxSeq
           /\ job' = [job EXCEPT ![t] =
                [pc |-> "puts", todo |-> made, placed |-> {}, at |-> jar.now,
                 snap |-> UNION {Same(jar.store.held, c) : c \in Range(made)}]]
  /\ UNCHANGED jar

\* A cookie new to the jar is given a number; one the batch placed or the
\* snapshot holds keeps its own.
OldOf(t, c) ==
  IF Same(job[t].placed, c) # {} THEN Same(job[t].placed, c) ELSE Same(job[t].snap, c)

WithPlaced(q, c) ==
  IF Len(q.todo) = 1 THEN NoJob
  ELSE [q EXCEPT !.todo = Tail(q.todo), !.placed = (q.placed \ Same(q.placed, c)) \cup {c}]

PutsNext(t) ==
  /\ job[t].pc = "puts"
  /\ LET arriving == Head(job[t].todo)
         old == OldOf(t, arriving)
         c == [arriving EXCEPT !.seq = IF old = {} THEN jar.store.next
                                       ELSE (CHOOSE x \in old : TRUE).seq]
         s == JarPut(jar.store, c, job[t].at)
     IN  /\ jar' = [jar EXCEPT !.store = [s EXCEPT !.next = IF old = {} THEN @ + 1 ELSE @]]
         /\ job' = [job EXCEPT ![t] = WithPlaced(@, c)]

\* cookie_header: what matches is read, and touched by a call of its own.
AttachCookies(t) ==
  /\ job[t].pc = "idle"
  /\ \E o \in Origins :
       /\ Matching(jar.store, o, jar.now) # {}
       /\ job' = [job EXCEPT ![t] = [NoJob EXCEPT !.pc = "touches", !.at = jar.now,
                                       !.snap = Matching(jar.store, o, jar.now)]]
  /\ UNCHANGED jar

\* MemoryStore::touch: what the caller matched, if it is still held.
Touched(s, snap, at) ==
  [s EXCEPT !.held = {IF Same(snap, c) # {} THEN [c EXCEPT !.access = at] ELSE c : c \in s.held}]

TouchCookies(t) ==
  /\ job[t].pc = "touches"
  /\ jar' = [jar EXCEPT !.store = Touched(@, job[t].snap, job[t].at)]
  /\ job' = [job EXCEPT ![t] = NoJob]

\* CookieJar::restore of one record, whose domain may have become a public
\* suffix since it was kept: checked again, then inserted by a read and a put.
\* Its last access is older than anything of this process.
RestoreRecord(t) ==
  /\ job[t].pc = "idle" /\ jar.store.next < MaxSeq
  /\ \E c \in Records :
       /\ ~c.hostOnly => c.domain \notin Ips /\ c.domain \notin PublicSuffixes
       /\ PrefixHolds(c.name, c.secure, c.hostOnly, c.path)
       /\ ~IsExpired(c, jar.now)
       /\ job' = [job EXCEPT ![t] = [NoJob EXCEPT !.pc = "puts", !.at = jar.now,
            !.todo = <<[c EXCEPT !.seq = 0, !.expires = Min({@, jar.now + MaxExpiry})]>>,
            !.snap = Same(jar.store.held, c)]]
  /\ UNCHANGED jar

\* CookieJar::clear.
ClearJar ==
  /\ jar.store.held # {}
  /\ jar' = [jar EXCEPT !.store.held = {}, !.store.count = 0]
  /\ UNCHANGED job

JarTick ==
  /\ jar.now < JarMaxTime
  /\ jar' = [jar EXCEPT !.now = @ + 1]
  /\ UNCHANGED job

JarNext ==
  \/ \E t \in JarTasks : \/ StoreResponse(t) \/ PutsNext(t) \/ AttachCookies(t)
                         \/ TouchCookies(t) \/ RestoreRecord(t)
  \/ ClearJar \/ JarTick

-----------------------------------------------------------------------------

\* RFC 6265's rule for one cookie and one request, as the code's documents
\* quote it: asked of every cookie, not of those a walk over the host found.
GoesTo(c, o, now) ==
  /\ c.expires > now
  /\ o.host = c.domain \/ (~c.hostOnly /\ DomainMatches(o.host, c.domain))
  /\ IsPrefix(c.path, o.path)
  /\ c.secure => o.secure

\* The jar under operations that overlap: one cookie to a key and to a number,
\* the count and both bounds exact however puts, evictions and purges mix, no
\* cookie kept for a domain nobody may set it on or against its name's prefix,
\* and a request gets exactly the cookies that are for it (store_response,
\* matching, MemoryStore::put, restore).
JarHolds ==
  LET s == jar.store
  IN  /\ s.count = Cardinality(s.held) /\ s.count <= MaxCookies
      /\ \A c \in s.held :
           /\ Cardinality(OfDomain(s.held, c.domain)) <= MaxPerDomain
           /\ Same(s.held, c) = {c}
           /\ c.hostOnly \/ (c.domain \notin Ips /\ c.domain \notin PublicSuffixes)
           /\ PrefixHolds(c.name, c.secure, c.hostOnly, c.path)
           /\ \A d \in s.held : c.seq = d.seq => c = d
      /\ \A o \in Origins :
           Matching(s, o, jar.now) = {c \in s.held : GoesTo(c, o, jar.now)}
=============================================================================
