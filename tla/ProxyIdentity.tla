---------------------------- MODULE ProxyIdentity ----------------------------
(***************************************************************************)
(* What a proxy cache promises to the other language: of one object it     *)
(* never sees two proxies at a time, and no proxy ever stands for two      *)
(* objects.  add_listener followed by remove_listener rests on this        *)
(* (proxy_cache_impl.hpp).  Locks, weak references and destructors are the *)
(* business of ProxyCache, which is shown to implement this.               *)
(***************************************************************************)
CONSTANTS
  Keys,             \* the objects, under each interface they are passed as
  Proxies

VARIABLE proxiesOf  \* for each object the proxies the other side can reach

IdentityInit == proxiesOf = [k \in Keys |-> {}]

\* An object crosses the boundary: the proxy the other side already knows, if
\* it knows one, and else a proxy it knows under no other object.
Give(k, p) ==
  /\ proxiesOf[k] \subseteq {p}
  /\ \A other \in Keys \ {k} : p \notin proxiesOf[other]
  /\ proxiesOf' = [proxiesOf EXCEPT ![k] = {p}]

Lose(k, p) ==
  /\ p \in proxiesOf[k]
  /\ proxiesOf' = [proxiesOf EXCEPT ![k] = @ \ {p}]

IdentityNext == \E k \in Keys, p \in Proxies : Give(k, p) \/ Lose(k, p)

IdentitySpec == IdentityInit /\ [][IdentityNext]_proxiesOf
=============================================================================
