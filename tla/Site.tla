-------------------------------- MODULE Site --------------------------------
(***************************************************************************)
(* What the pages of the console share (src/editor): the router, which     *)
(* shows one page at a time, the address of the server in localStorage,    *)
(* and calls of the server (src/editor/src/utils/request.js).              *)
(*                                                                         *)
(* A call goes to the address of the moment and is a record in the set of  *)
(* calls of its module, with the visit that asked for it: the state of a   *)
(* page dies with the visit, and an answer that comes later changes only   *)
(* what outlives it.  Answers come in any order, or never: a rejected      *)
(* promise has no handler.                                                 *)
(***************************************************************************)
EXTENDS Naturals, Sequences, FiniteSets, TLC

CONSTANTS
  Addr,       \* servers
  NoAddr,     \* no address is known
  FirstAddrs, \* the addresses localStorage may hold when the console starts
  MaxLost     \* bound: calls that get lost

Pages == {"editor", "bots", "running", "report", "prefab", "config"}

ASSUME SiteAssumption == NoAddr \notin Addr /\ FirstAddrs \subseteq Addr \cup {NoAddr}

VARIABLES
  page,        \* the page shown
  visit,       \* counts the pages shown
  remoteAddr,  \* localStorage.remoteAddr
  clicks,      \* what the user has done and what went wrong so far; Console bounds it
  lost         \* calls lost so far

site == <<page, visit, remoteAddr, clicks, lost>>

SiteInit ==
  page = "none" /\ visit = 0 /\ remoteAddr \in FirstAddrs /\ clicks = 0 /\ lost = 0

Budget == clicks' = clicks + 1
Click == Budget /\ UNCHANGED <<page, visit, remoteAddr, lost>>
Still == UNCHANGED site
Loss == Budget /\ lost < MaxLost /\ lost' = lost + 1 /\ UNCHANGED <<page, visit, remoteAddr>>

FreshId(calls) == CHOOSE n \in 1..(Cardinality(calls) + 1) : \A c \in calls : c.id # n

\* The fields of f, and those of g that f does not have.
With(f, g) == [x \in DOMAIN f \cup DOMAIN g |-> IF x \in DOMAIN f THEN f[x] ELSE g[x]]

\* Post, PostBlob, PostGetBlob: a call c to address a, asked by visit v; none without an address
PostTo(a, calls, c, v) ==
  IF a = NoAddr THEN calls
  ELSE calls \cup {With(c, [id |-> FreshId(calls), addr |-> a, visit |-> v, at |-> "asked"])}

Swap(S, c, d) == (S \ {c}) \cup {d}
\* The partial function f with n mapped to v, and without n.
Put(f, n, v) == [m \in DOMAIN f \cup {n} |-> IF m = n THEN v ELSE f[m]]
Drop(f, n) == [m \in DOMAIN f \ {n} |-> f[m]]
=============================================================================
