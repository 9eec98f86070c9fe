------------------------------ MODULE MCStores ------------------------------
(***************************************************************************)
(* What a client remembers of its servers: the cookie or response store,   *)
(* the cookie jar in memory, the HSTS hosts, the Alt-Svc memory, and the   *)
(* failed QUIC connects with the routing that asks for them.  They share   *)
(* nothing: a behaviour is one of a single memory, and the others stay     *)
(* where they began.                                                       *)
(***************************************************************************)
EXTENDS KvStore, Jar, Hsts, AltSvc, Route, TLC

VARIABLE store

storesVars == <<kvVars, jarVars, hstsVars, altVars, routeVars, store>>

MCGroup == [k \in KvKeys |-> IF k = "k3" THEN "g2" ELSE "g1"]
MCParents == [d \in Domains |-> IF d = "sub" THEN {"top"} ELSE {}]

\* Two hosts, one under the other, and an address; a domain cookie that a
\* response may delete and set again, a host's own, one refused for its public
\* suffix beside one with a prefix; and records of which two are refused.
NameCom == <<"com">>
NameA == <<"a", "com">>
NameB == <<"b", "a", "com">>
Address == <<"1", "2">>
MCPublicSuffixes == {NameCom}
MCIps == {Address}
MCOrigins == {[host |-> NameB, path |-> <<"p">>, secure |-> TRUE],
              [host |-> NameA, path |-> <<>>, secure |-> FALSE],
              [host |-> Address, path |-> <<>>, secure |-> TRUE]}
SetCookieLine(name, attr, path, secure, age) ==
  [name |-> name, attr |-> attr, path |-> path, secure |-> secure, age |-> age]
MCResponses ==
  {<<SetCookieLine("n", NameA, <<>>, FALSE, 1)>>,
   <<SetCookieLine("n", NameA, <<>>, FALSE, 0), SetCookieLine("n", NameA, <<>>, FALSE, 1)>>,
   <<SetCookieLine("n", Absent, Absent, FALSE, SessionAge)>>,
   <<SetCookieLine("n", NameCom, <<>>, FALSE, 3), SetCookieLine("__Host-", Absent, <<>>, TRUE, 3)>>}
MCRecords ==
  {[name |-> "n", domain |-> d, hostOnly |-> FALSE, path |-> <<>>, secure |-> FALSE,
    expires |-> 2, access |-> 0, seq |-> 0] : d \in {NameA, NameCom, Address}}

\* Writers, calls and requests are interchangeable.  Every memory is given the
\* same names for them, so that exchanging two is one permutation for all.
StoresSymmetry == Permutations(Writers)

StoresInit ==
  /\ store \in {"kv", "jar", "hsts", "alt", "route"}
  /\ KvInit /\ (store # "kv" => kind = "cache")
  /\ JarInit /\ HstsInit /\ AltInit
  /\ RouteInit
  /\ store # "route" => ~advertised /\ setup = [arm |-> FALSE, hedge |-> FALSE, egress |-> "direct"]

StoresNext ==
  \/ store = "kv" /\ KvNext /\ UNCHANGED <<jarVars, hstsVars, altVars, routeVars, store>>
  \/ store = "jar" /\ JarNext /\ UNCHANGED <<kvVars, hstsVars, altVars, routeVars, store>>
  \/ store = "hsts" /\ HstsNext /\ UNCHANGED <<kvVars, jarVars, altVars, routeVars, store>>
  \/ store = "alt" /\ AltNext /\ UNCHANGED <<kvVars, jarVars, hstsVars, routeVars, store>>
  \/ store = "route" /\ RouteNext /\ UNCHANGED <<kvVars, jarVars, hstsVars, altVars, store>>

StoresSpec == StoresInit /\ [][StoresNext]_storesVars

\* Every store is in a state its code knows, whatever overlaps and is dropped,
\* and operations that do not overlap keep a store within its bounds.
StoresAreSound == KvTypeOK /\ HstsTypeOK /\ AltTypeOK /\ BoundHoldsAlone
=============================================================================
