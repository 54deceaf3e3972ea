--------------------------- MODULE NetworkManager ---------------------------
(***************************************************************************)
(* The network managers of several nodes: run_loop with its commands, and  *)
(* process_event with the events of the libp2p swarm.  Each node keeps a   *)
(* map of connected peers (key, signed services, ping failures), its own   *)
(* signed services and the mempool fetches that wait for an answer.        *)
(*                                                                         *)
(* libp2p is modelled from how the code uses it: two nodes may share       *)
(* several connections, each end learns of their opening and closing on    *)
(* its own, requests and responses overtake each other, and a request      *)
(* whose connection closes or whose time is up fails at the requester.     *)
(***************************************************************************)
EXTENDS Integers, Sequences, FiniteSets, SequencesExt, FiniteSetsExt

CONSTANTS
  Nodes,
  Links,           \* bound: connections that are ever opened, numbered in that order
  Ends,            \* the two nodes of a connection
  Services,        \* service records
  Owner,           \* the node a record names as its owner
  Clients,         \* bound: nodes that ask, ping and stop; the others serve
  MaxServices,     \* MAX_SERVICES, 32 in the code
  MaxPingFailures, \* MAX_PING_FAILURES, 10 in the code
  MaxRequests      \* bound: requests that may be outstanding at once

ASSUME NetworkAssumption ==
  /\ Links \subseteq Nat /\ IsFiniteSet(Links)
  /\ \A l \in Links : \E n, m \in Nodes : n # m /\ Ends[l] = {n, m}
  /\ Owner \in [Services -> Nodes]
  /\ Clients \subseteq Nodes
  /\ MaxServices \in Nat \ {0} /\ MaxPingFailures \in Nat \ {0}

VARIABLES
  fresh, open,     \* connections not opened yet, and open ones
  seen,            \* connections the swarm of a node reported and not yet closed
  peers,           \* connected_peers of each node
  registry,        \* own_services_registry
  requests,        \* outstanding requests and where they are
  fetch,           \* the mempool fetch of each node when it starts
  running          \* nodes whose run loop has not ended

wire == <<fresh, open>>
vars == <<fresh, open, seen, peers, registry, requests, fetch, running>>

----------------------------------------------------------------------------
\* Peer map

NewPeer == [key |-> FALSE, services |-> <<>>, failures |-> 0]

Connected(n) == DOMAIN peers[n]

\* entry(peer).or_insert_with(new), then the change
Entry(n, p) == IF p \in Connected(n) THEN peers[n][p] ELSE NewPeer

Put(n, p, info) ==
  peers' = [peers EXCEPT ![n] = [q \in Connected(n) \cup {p} |-> IF q = p THEN info ELSE @[q]]]

Forget(n, p) == peers' = [peers EXCEPT ![n] = [q \in Connected(n) \ {p} |-> @[q]]]

Other(n, l) == CHOOSE p \in Ends[l] : p # n

SeenTo(n, p) == {l \in seen[n] : Other(n, l) = p}

set_signed_services(n, p, signed) ==
  Put(n, p, [Entry(n, p) EXCEPT !.services = SubSeq(signed, 1, Min({Len(signed), MaxServices}))])

\* The signing key and the owner inside the record are both the peer's.
filter_verified_records(signed, p) == {s \in ToSet(signed) : Owner[s] = p}

\* QueryPeersWithService: peers whose key is known, and the node itself
QueryPeersWithService(n) ==
  LET known == {p \in Connected(n) : peers[n][p].key}
  IN  UNION {{p} \X filter_verified_records(peers[n][p].services, p) : p \in known}
      \cup {n} \X filter_verified_records(registry[n], n)

----------------------------------------------------------------------------
Init ==
  /\ fresh = Links /\ open = {}
  /\ seen = [n \in Nodes |-> {}]
  /\ peers = [n \in Nodes |-> <<>>]
  /\ registry = [n \in Nodes |-> <<>>]
  /\ requests = {}
  /\ fetch = [n \in Nodes |-> "none"]
  /\ running = Nodes

----------------------------------------------------------------------------
\* Connections

Dial(l) ==
  /\ l = Min(fresh) /\ Ends[l] \subseteq running
  /\ fresh' = fresh \ {l} /\ open' = open \cup {l}
  /\ UNCHANGED <<seen, peers, registry, requests, fetch, running>>

Lost(l) ==
  /\ open' = open \ {l}
  /\ UNCHANGED <<fresh, seen, peers, registry, requests, fetch, running>>

ConnectionEstablished(n, l) ==
  /\ l \in open \ seen[n] /\ n \in Ends[l] \cap running
  /\ seen' = [seen EXCEPT ![n] = @ \cup {l}]
  /\ Put(n, Other(n, l), Entry(n, Other(n, l)))
  /\ UNCHANGED <<wire, registry, requests, fetch, running>>

\* Mutant: any closed connection removes the peer.
ClosedAny(n, l) ==
  /\ l \in seen[n] \ open /\ n \in running
  /\ seen' = [seen EXCEPT ![n] = @ \ {l}]
  /\ Forget(n, Other(n, l))
  /\ UNCHANGED <<wire, registry, requests, fetch, running>>

\* The peer is removed with its last connection only.
ConnectionClosed(n, l) ==
  /\ l \in seen[n] \ open /\ n \in running
  /\ seen' = [seen EXCEPT ![n] = @ \ {l}]
  /\ IF SeenTo(n, Other(n, l)) = {l}
       THEN Forget(n, Other(n, l)) ELSE UNCHANGED peers
  /\ UNCHANGED <<wire, registry, requests, fetch, running>>

PingOk(n, p) ==
  /\ n \in running /\ SeenTo(n, p) # {} /\ Entry(n, p).failures > 0
  /\ Put(n, p, [Entry(n, p) EXCEPT !.failures = 0])
  /\ UNCHANGED <<wire, seen, registry, requests, fetch, running>>

\* Mutant: the unresponsive peer is kept.
PingFailsOnly(n, p) ==
  /\ n \in running /\ SeenTo(n, p) # {}
  /\ Put(n, p, [Entry(n, p) EXCEPT !.failures = @ + 1])
  /\ UNCHANGED <<wire, seen, registry, requests, fetch, running>>

\* Too many failures in a row close every connection to the peer.
PingFails(n, p) ==
  /\ n \in running /\ SeenTo(n, p) \cap open # {}
  /\ LET failures == Entry(n, p).failures + 1 IN
     /\ Put(n, p, [Entry(n, p) EXCEPT !.failures = failures])
     /\ open' = IF failures >= MaxPingFailures THEN open \ SeenTo(n, p) ELSE open
  /\ UNCHANGED <<fresh, seen, registry, requests, fetch, running>>

----------------------------------------------------------------------------
\* Requests.  A request is [from, to, link, kind, at, body]: at the server's
\* side ("sent"), or its response is on the way back ("answered").  Two equal
\* requests on one connection are one.

Request(n, p, l, kind, body) ==
  [from |-> n, to |-> p, link |-> l, kind |-> kind, at |-> "sent", body |-> body]

\* send_request takes a connection to the peer
Send(n, p, kind, body) ==
  \E l \in SeenTo(n, p) : requests' = requests \cup {Request(n, p, l, kind, body)}

Room(k) == Cardinality(requests) + k <= MaxRequests

Arrived(n, r) == r \in requests /\ n \in running /\ r.link \in open \cap seen[n]

Respond(r, body) ==
  requests' = (requests \ {r}) \cup {[r EXCEPT !.at = "answered", !.body = body]}

\* Mutant: the key is stored only for a peer that was not in the map.
IdentifyNewPeer(n, l) ==
  LET p == Other(n, l) IN
  /\ n \in running /\ l \in seen[n] \cap open /\ Room(1)
  /\ ~Entry(n, p).key
  /\ Put(n, p, IF p \in Connected(n) THEN peers[n][p] ELSE [NewPeer EXCEPT !.key = TRUE])
  /\ Send(n, p, "ListServices", <<>>)
  /\ UNCHANGED <<wire, seen, registry, fetch, running>>

\* The key is stored once; the services are asked for each time.
IdentifyReceived(n, l) ==
  LET p == Other(n, l) IN
  /\ n \in running /\ l \in seen[n] \cap open /\ Room(1)
  /\ Put(n, p, [Entry(n, p) EXCEPT !.key = TRUE])
  /\ Send(n, p, "ListServices", <<>>)
  /\ UNCHANGED <<wire, seen, registry, fetch, running>>

\* The whole list is pushed to every peer in the map.
AddService(n, s) ==
  /\ n \in running /\ s \notin ToSet(registry[n])
  /\ LET own == Append(registry[n], s) IN
     /\ registry' = [registry EXCEPT ![n] = own]
     /\ \E via \in [Connected(n) -> seen[n]] :
          /\ \A p \in Connected(n) : p \in Ends[via[p]]
          /\ requests' = requests \cup
               {Request(n, p, via[p], "PushServices", own) : p \in Connected(n)}
  /\ UNCHANGED <<wire, seen, peers, fetch, running>>

handle_services_info_request(n, r) ==
  /\ Arrived(n, r) /\ r.to = n /\ r.at = "sent"
  /\ r.kind \in {"ListServices", "PushServices"}
  /\ IF r.kind = "PushServices" THEN set_signed_services(n, r.from, r.body) ELSE UNCHANGED peers
  /\ Respond(r, registry[n])
  /\ UNCHANGED <<wire, seen, registry, fetch, running>>

ServicesResponse(n, r) ==
  /\ Arrived(n, r) /\ r.from = n /\ r.at = "answered"
  /\ r.kind \in {"ListServices", "PushServices"}
  /\ set_signed_services(n, r.to, r.body)
  /\ requests' = requests \ {r}
  /\ UNCHANGED <<wire, seen, registry, fetch, running>>

handle_mempool_request(n, r) ==
  /\ Arrived(n, r) /\ r.to = n /\ r.at = "sent" /\ r.kind = "GetState"
  /\ Respond(r, <<>>)
  /\ UNCHANGED <<wire, seen, peers, registry, fetch, running>>

\* The sender of the waiting caller is taken out of pending_mempool_fetches.
MempoolResponse(n, r) ==
  /\ Arrived(n, r) /\ r.from = n /\ r.at = "answered" /\ r.kind = "GetState"
  /\ requests' = requests \ {r}
  /\ fetch' = [fetch EXCEPT ![n] = "data"]
  /\ UNCHANGED <<wire, seen, peers, registry, running>>

\* Mutant: the failure is logged, the caller is not told.
OutboundFailureLogged(n, r) ==
  /\ r \in requests /\ n \in running /\ r.from = n
  /\ requests' = requests \ {r}
  /\ UNCHANGED <<wire, seen, peers, registry, fetch, running>>

\* Time-out or closed connection; a failed services request is only logged.
OutboundFailure(n, r) ==
  /\ r \in requests /\ n \in running /\ r.from = n
  /\ requests' = requests \ {r}
  /\ fetch' = IF r.kind = "GetState" THEN [fetch EXCEPT ![n] = "error"] ELSE fetch
  /\ UNCHANGED <<wire, seen, peers, registry, running>>

----------------------------------------------------------------------------
\* Commands

FetchMempoolState(n) ==
  /\ n \in running /\ fetch[n] = "none"
  /\ IF Connected(n) = {}
       THEN fetch' = [fetch EXCEPT ![n] = "error"] /\ UNCHANGED requests
       ELSE /\ Room(1)
            /\ fetch' = [fetch EXCEPT ![n] = "waiting"]
            /\ \E p \in Connected(n) : Send(n, p, "GetState", <<>>)
  /\ UNCHANGED <<wire, seen, peers, registry, running>>

Knows(n, p) == {p} \X ToSet(registry[p]) \subseteq QueryPeersWithService(n)

\* connect_to_peer finds no service of a connected peer: RefreshPeerServices.
RefreshPeerServices(n, p) ==
  /\ n \in running /\ p \in Connected(n) /\ ~Knows(n, p) /\ Room(1)
  /\ Send(n, p, "ListServices", <<>>)
  /\ UNCHANGED <<wire, seen, peers, registry, fetch, running>>

\* Both ends of a connection are up.
Linked(n, p) == /\ {n, p} \subseteq running
                /\ SeenTo(n, p) \cap SeenTo(p, n) \cap open # {}

\* The token is cancelled: the loop ends, and with it the pending senders, the
\* connections and the requests.
Cancelled(n) ==
  /\ n \in running
  /\ running' = running \ {n}
  /\ open' = {l \in open : n \notin Ends[l]}
  /\ seen' = [seen EXCEPT ![n] = {}]
  /\ peers' = [peers EXCEPT ![n] = <<>>]
  /\ requests' = {r \in requests : r.from # n}
  /\ fetch' = [fetch EXCEPT ![n] = IF @ = "waiting" THEN "error" ELSE @]
  /\ UNCHANGED <<fresh, registry>>

----------------------------------------------------------------------------
SwarmEvent(n) ==
  \/ \E l \in Links : ConnectionEstablished(n, l) \/ ConnectionClosed(n, l)
  \/ \E r \in requests : \/ handle_services_info_request(n, r) \/ ServicesResponse(n, r)
                         \/ handle_mempool_request(n, r) \/ MempoolResponse(n, r)
                         \/ OutboundFailure(n, r)

Server(n) ==
  \/ SwarmEvent(n)
  \/ \E s \in Services : Owner[s] = n /\ AddService(n, s)

Client(n) ==
  \/ FetchMempoolState(n) \/ Cancelled(n)
  \/ \E l \in seen[n] : IdentifyReceived(n, l)
  \/ \E p \in Nodes : PingOk(n, p) \/ PingFails(n, p) \/ RefreshPeerServices(n, p)

Next ==
  \/ \E l \in fresh : Dial(l)
  \/ \E l \in open : Lost(l)
  \/ \E n \in Nodes : Server(n)
  \/ \E n \in Clients : Client(n)

\* Every run loop goes on.  No request waits for ever, of either protocol: it may time
\* out, but not for ever while the connection stays open, and who misses a service asks
\* again (connect_sync_peer; the periodic identify asks too).
Fairness ==
  /\ \A n \in Nodes :
       /\ WF_vars(\E l \in Links : ConnectionEstablished(n, l) \/ ConnectionClosed(n, l))
       /\ WF_vars(\E r \in requests :
                    r.kind = "GetState" /\ (MempoolResponse(n, r) \/ OutboundFailure(n, r)))
       /\ WF_vars(\E r \in requests :
                    r.kind # "GetState" /\ (ServicesResponse(n, r) \/ OutboundFailure(n, r)))
  /\ \A n \in {Owner[s] : s \in Services} :
       SF_vars(\E r \in requests : handle_services_info_request(n, r))
  /\ \A n \in Clients :
       /\ SF_vars(\E r \in requests : ServicesResponse(n, r))
       /\ SF_vars(\E l \in Links : IdentifyReceived(n, l))
       /\ SF_vars(\E p \in Nodes : RefreshPeerServices(n, p))

Spec == Init /\ [][Next]_vars /\ Fairness

----------------------------------------------------------------------------
\* Properties

\* Type invariant.  The count of failed pings is bounded because every failure
\* past the limit closes a connection.
TypeOK ==
  /\ fresh \subseteq Links /\ open \subseteq Links \ fresh
  /\ \A n \in Nodes :
       /\ seen[n] \subseteq Links \ fresh
       /\ Connected(n) \subseteq Nodes \ {n}
       /\ \A p \in Connected(n) : /\ peers[n][p].failures \in 0 .. MaxPingFailures + Cardinality(Links)
                                  /\ Len(peers[n][p].services) <= MaxServices
       /\ fetch[n] \in {"none", "waiting", "data", "error"}

\* The peer map holds exactly the peers with a connection, also when two nodes
\* dialled each other and one of the two connections closes first: no event adds
\* a peer that has gone, none removes one that is still there.
PeersAreConnected ==
  \A n \in Nodes : Connected(n) = {p \in Nodes : SeenTo(n, p) # {}}

\* Nobody waits for a mempool for ever: an answer, a failure, a lost connection
\* or the end of the run loop reaches the caller of FetchMempoolState.
FetchAnswered == \A n \in Nodes : fetch[n] = "waiting" ~> fetch[n] # "waiting"

\* A peer that stays connected does not stay ignorant of a service for ever,
\* although an old list may overtake the push of a newer one and replace it.
ServicesLearned ==
  \A s \in Services : \A n \in Clients \ {Owner[s]} :
    []<>(\/ ~Linked(n, Owner[s]) \/ s \notin ToSet(registry[Owner[s]])
         \/ <<Owner[s], s>> \in QueryPeersWithService(n))
=============================================================================
