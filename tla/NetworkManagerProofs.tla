------------------------ MODULE NetworkManagerProofs ------------------------
(***************************************************************************)
(* Proofs about NetworkManager for any number of nodes, connections and    *)
(* services: the peer map holds exactly the peers with a connection, and   *)
(* the count of failed pings is bounded.                                   *)
(***************************************************************************)
EXTENDS NetworkManager, TLAPS, FiniteSetTheorems

PeerInfo ==
  [key : BOOLEAN, services : {s \in Seq(Services) : Len(s) <= MaxServices}, failures : Nat]

PeerMaps == UNION {[S -> PeerInfo] : S \in SUBSET Nodes}

RequestType ==
  [from : Nodes, to : Nodes, link : Links,
   kind : {"ListServices", "PushServices", "GetState"}, at : {"sent", "answered"},
   body : Seq(Services)]

\* A request names the two ends of the connection it was sent on.
OnItsLink(r) == r.from # r.to /\ Ends[r.link] = {r.from, r.to}

Closed == Links \ (open \cup fresh)

WireInv == fresh \subseteq Links /\ open \subseteq Links /\ open \cap fresh = {}

SeenInv ==
  /\ seen \in [Nodes -> SUBSET Links]
  /\ \A n \in Nodes : seen[n] \cap fresh = {} /\ \A l \in seen[n] : n \in Ends[l]

\* Every failure past the limit closes a connection that is never reopened.
FailuresInv ==
  \A n \in Nodes : \A p \in Connected(n) :
    peers[n][p].failures <= MaxPingFailures - 1 + Cardinality(Closed)

PeersInv == peers \in [Nodes -> PeerMaps] /\ PeersAreConnected

RequestsInv ==
  /\ registry \in [Nodes -> Seq(Services)]
  /\ requests \subseteq RequestType /\ \A r \in requests : OnItsLink(r)

FetchInv ==
  fetch \in [Nodes -> {"none", "waiting", "data", "error"}]

IInv == WireInv /\ SeenInv /\ FailuresInv /\ PeersInv /\ RequestsInv /\ FetchInv

----------------------------------------------------------------------------
(***************************************************************************)
(* Connections and the peer map.                                           *)
(***************************************************************************)

\* The other end of a connection.
LEMMA OtherEnd ==
  ASSUME NEW l \in Links, NEW n \in Ends[l]
  PROVE  /\ Other(n, l) \in Nodes /\ Other(n, l) # n /\ n \in Nodes
         /\ Ends[l] = {n, Other(n, l)}
         /\ \A p \in Ends[l] : p # n => p = Other(n, l)
<1>1. PICK a, b \in Nodes : a # b /\ Ends[l] = {a, b}
  BY NetworkAssumption
<1>2. \E p \in Ends[l] : p # n
  BY <1>1
<1>3. Other(n, l) \in Ends[l] /\ Other(n, l) # n
  BY <1>2 DEF Other
<1>. QED  BY <1>1, <1>3

\* A peer map with one entry written.
LEMMA PutEntry ==
  ASSUME peers \in [Nodes -> PeerMaps], NEW n \in Nodes, NEW p \in Nodes, NEW info \in PeerInfo,
         Put(n, p, info)
  PROVE  /\ peers' \in [Nodes -> PeerMaps]
         /\ Connected(n)' = Connected(n) \cup {p}
         /\ peers'[n][p] = info
         /\ \A q \in Connected(n) : q # p => peers'[n][q] = peers[n][q]
         /\ \A m \in Nodes : m # n => peers'[m] = peers[m]
<1> DEFINE f == [q \in Connected(n) \cup {p} |-> IF q = p THEN info ELSE peers[n][q]]
<1>1. PICK S \in SUBSET Nodes : peers[n] \in [S -> PeerInfo]
  BY DEF PeerMaps
<1>2. f \in [S \cup {p} -> PeerInfo]
  BY <1>1 DEF Connected
<1>3. f \in PeerMaps /\ DOMAIN f = Connected(n) \cup {p} /\ f[p] = info
      /\ \A q \in Connected(n) : q # p => f[q] = peers[n][q]
  <2>1. DOMAIN f = Connected(n) \cup {p} /\ f[p] = info
        /\ \A q \in Connected(n) : q # p => f[q] = peers[n][q]
    BY Zenon
  <2> HIDE DEF f
  <2>2. f \in PeerMaps
    BY <1>2 DEF PeerMaps
  <2>. QED  BY <2>1, <2>2
<1>4. peers' = [peers EXCEPT ![n] = f]
  BY DEF Put
<1> HIDE DEF f
<1>5. peers' \in [Nodes -> PeerMaps] /\ peers'[n] = f /\ \A m \in Nodes : m # n => peers'[m] = peers[m]
  BY <1>3, <1>4
<1>. QED  BY <1>3, <1>5 DEF Connected

\* A peer map with one entry removed.
LEMMA ForgetEntry ==
  ASSUME peers \in [Nodes -> PeerMaps], NEW n \in Nodes, NEW p, Forget(n, p)
  PROVE  /\ peers' \in [Nodes -> PeerMaps]
         /\ Connected(n)' = Connected(n) \ {p}
         /\ \A q \in Connected(n) : q # p => peers'[n][q] = peers[n][q]
         /\ \A m \in Nodes : m # n => peers'[m] = peers[m]
<1> DEFINE f == [q \in Connected(n) \ {p} |-> peers[n][q]]
<1>1. PICK S \in SUBSET Nodes : peers[n] \in [S -> PeerInfo]
  BY DEF PeerMaps
<1>2. f \in [S \ {p} -> PeerInfo]
  BY <1>1 DEF Connected
<1>3. f \in PeerMaps /\ DOMAIN f = Connected(n) \ {p}
      /\ \A q \in Connected(n) : q # p => f[q] = peers[n][q]
  BY <1>1, <1>2 DEF PeerMaps, Connected
<1>4. peers' = [peers EXCEPT ![n] = f]
  BY DEF Forget
<1> HIDE DEF f
<1>5. peers' \in [Nodes -> PeerMaps] /\ peers'[n] = f /\ \A m \in Nodes : m # n => peers'[m] = peers[m]
  BY <1>3, <1>4
<1>. QED  BY <1>3, <1>5 DEF Connected

\* The entry of a peer, or a new one, is a peer record.
LEMMA EntryType ==
  ASSUME peers \in [Nodes -> PeerMaps], NEW n \in Nodes, NEW p
  PROVE  /\ Entry(n, p) \in PeerInfo
         /\ p \in Connected(n) => Entry(n, p) = peers[n][p]
         /\ p \notin Connected(n) => Entry(n, p).failures = 0
         /\ Connected(n) \subseteq Nodes
<1>1. PICK S \in SUBSET Nodes : peers[n] \in [S -> PeerInfo]
  BY DEF PeerMaps
<1>2. NewPeer \in PeerInfo /\ NewPeer.failures = 0
  BY NetworkAssumption DEF NewPeer, PeerInfo
<1>. QED  BY <1>1, <1>2 DEF Entry, Connected

\* set_signed_services keeps at most MaxServices records.
LEMMA Truncated ==
  ASSUME NEW s \in Seq(Services)
  PROVE  /\ SubSeq(s, 1, Min({Len(s), MaxServices})) \in Seq(Services)
         /\ Len(SubSeq(s, 1, Min({Len(s), MaxServices}))) <= MaxServices
<1> DEFINE S == {Len(s), MaxServices}
<1>1. Len(s) \in Nat /\ MaxServices \in Nat
  BY NetworkAssumption
<1>2. \E x \in S : \A y \in S : x <= y
  BY <1>1
<1>3. Min(S) \in S /\ \A y \in S : Min(S) <= y
  BY <1>2 DEF Min
<1>4. Min(S) \in Nat /\ Min(S) <= Len(s) /\ Min(S) <= MaxServices
  BY <1>1, <1>3
<1> DEFINE k == Min(S)
<1>5. k \in Nat /\ k <= Len(s) /\ k <= MaxServices
  BY <1>4
<1> HIDE DEF k
<1>6. SubSeq(s, 1, k) \in Seq(Services) /\ Len(SubSeq(s, 1, k)) = k
  BY <1>5
<1>. QED  BY <1>5, <1>6 DEF k

\* The closed connections are finitely many, and never fewer.
LEMMA ClosedCount ==
  /\ Cardinality(Closed) \in Nat /\ Cardinality(Closed) <= Cardinality(Links)
  /\ Cardinality(Links) \in Nat
  /\ Closed \subseteq Closed' => /\ Cardinality(Closed') \in Nat
                                 /\ Cardinality(Closed) <= Cardinality(Closed')
                                 /\ Closed # Closed' => Cardinality(Closed) + 1 <= Cardinality(Closed')
<1>1. IsFiniteSet(Links) /\ Closed \subseteq Links /\ Closed' \subseteq Links
  BY NetworkAssumption DEF Closed
<1>2. IsFiniteSet(Closed) /\ IsFiniteSet(Closed')
  BY <1>1, FS_Subset
<1>3. /\ Cardinality(Closed) \in Nat /\ Cardinality(Closed) <= Cardinality(Links)
      /\ Cardinality(Links) \in Nat /\ Cardinality(Closed') \in Nat
  BY <1>1, <1>2, FS_Subset, FS_CardinalityType
<1>4. ASSUME Closed \subseteq Closed'
      PROVE  /\ Cardinality(Closed) <= Cardinality(Closed')
             /\ (Closed # Closed' => Cardinality(Closed) + 1 <= Cardinality(Closed'))
  <2>1. Cardinality(Closed) <= Cardinality(Closed')
    BY <1>2, <1>4, FS_Subset
  <2>2. Closed # Closed' => Cardinality(Closed) # Cardinality(Closed')
    BY <1>2, <1>4, FS_Subset
  <2>. QED  BY <1>3, <2>1, <2>2
<1>. QED  BY <1>3, <1>4

----------------------------------------------------------------------------
(***************************************************************************)
(* The parts of the invariant that a step disturbs.                        *)
(***************************************************************************)

\* A connection that a node knows of leads to a peer of its map.
LEMMA SeenPeer ==
  ASSUME IInv, NEW n \in Nodes, NEW l \in seen[n]
  PROVE  /\ l \in Links /\ n \in Ends[l] /\ Other(n, l) \in Nodes
         /\ Other(n, l) \in Connected(n) /\ l \in SeenTo(n, Other(n, l))
<1>1. l \in Links /\ n \in Ends[l]
  BY DEF IInv, SeenInv
<1>2. Other(n, l) \in Nodes /\ l \in SeenTo(n, Other(n, l))
  BY <1>1, OtherEnd DEF SeenTo
<1>3. Other(n, l) \in Connected(n)
  BY <1>2 DEF IInv, PeersInv, PeersAreConnected
<1>. QED  BY <1>1, <1>2, <1>3

\* No step reopens a connection, so the bound on the failures only grows.
LEMMA PeersFrame ==
  ASSUME IInv, peers' = peers, seen' = seen, Closed \subseteq Closed'
  PROVE  PeersInv' /\ FailuresInv'
<1>1. PeersInv'
  BY DEF IInv, PeersInv, PeersAreConnected, Connected, SeenTo
<1>2. ASSUME NEW n \in Nodes, NEW p \in Connected(n)
      PROVE  peers[n][p].failures <= MaxPingFailures - 1 + Cardinality(Closed')
  <2>1. peers[n][p].failures <= MaxPingFailures - 1 + Cardinality(Closed)
    BY DEF IInv, FailuresInv
  <2>2. peers[n][p].failures \in Nat
    <3>1. Entry(n, p) \in PeerInfo /\ Entry(n, p) = peers[n][p]
      BY EntryType DEF IInv, PeersInv
    <3>. QED  BY <3>1 DEF PeerInfo
  <2>. QED  BY <2>1, <2>2, ClosedCount, NetworkAssumption
<1>3. FailuresInv'
  BY <1>2 DEF FailuresInv, Connected
<1>. QED  BY <1>1, <1>3

\* One entry is written for a peer with a connection.
LEMMA PutFrame ==
  ASSUME IInv, NEW n \in Nodes, NEW p \in Nodes, NEW info \in PeerInfo, Put(n, p, info),
         \A m \in Nodes : m # n => seen'[m] = seen[m],
         {q \in Nodes : SeenTo(n, q)' # {}} = {q \in Nodes : SeenTo(n, q) # {}} \cup {p},
         Closed \subseteq Closed',
         info.failures <= MaxPingFailures - 1 + Cardinality(Closed')
  PROVE  PeersInv' /\ FailuresInv'
<1>1. peers \in [Nodes -> PeerMaps]
  BY DEF IInv, PeersInv
<1>2. /\ peers' \in [Nodes -> PeerMaps]
      /\ Connected(n)' = Connected(n) \cup {p}
      /\ peers'[n][p] = info
      /\ \A q \in Connected(n) : q # p => peers'[n][q] = peers[n][q]
      /\ \A m \in Nodes : m # n => peers'[m] = peers[m]
  BY <1>1, PutEntry
<1>3. \A m \in Nodes : Connected(m) = {q \in Nodes : SeenTo(m, q) # {}}
  BY DEF IInv, PeersInv, PeersAreConnected
<1>4. ASSUME NEW m \in Nodes PROVE Connected(m)' = {q \in Nodes : SeenTo(m, q)' # {}}
  <2>1. CASE m = n
    BY <1>2, <1>3, <2>1
  <2>2. CASE m # n
    <3>1. \A q \in Nodes : SeenTo(m, q)' = SeenTo(m, q)
      BY <2>2 DEF SeenTo
    <3>2. Connected(m)' = Connected(m)
      BY <1>2, <2>2 DEF Connected
    <3>. QED  BY <1>3, <3>1, <3>2
  <2>. QED  BY <2>1, <2>2
<1>5. PeersInv'
  BY <1>2, <1>4 DEF PeersInv, PeersAreConnected
<1>6. ASSUME NEW m \in Nodes, NEW q \in Connected(m)
      PROVE  peers[m][q].failures <= MaxPingFailures - 1 + Cardinality(Closed')
  <2>1. peers[m][q].failures <= MaxPingFailures - 1 + Cardinality(Closed)
    BY DEF IInv, FailuresInv
  <2>2. peers[m][q].failures \in Nat
    <3>1. Entry(m, q) \in PeerInfo /\ Entry(m, q) = peers[m][q]
      BY <1>1, EntryType
    <3>. QED  BY <3>1 DEF PeerInfo
  <2>. QED  BY <2>1, <2>2, ClosedCount, NetworkAssumption
<1>7. ASSUME NEW m \in Nodes, NEW q \in Connected(m)'
      PROVE  peers'[m][q].failures <= MaxPingFailures - 1 + Cardinality(Closed')
  <2>1. CASE m = n /\ q = p
    BY <1>2, <2>1
  <2>2. CASE m = n /\ q # p
    BY <1>2, <1>6, <1>7, <2>2
  <2>3. CASE m # n
    <3>1. peers'[m] = peers[m] /\ q \in Connected(m)
      BY <1>2, <1>7, <2>3 DEF Connected
    <3>. QED  BY <1>6, <3>1
  <2>. QED  BY <2>1, <2>2, <2>3
<1>8. FailuresInv'
  BY <1>7 DEF FailuresInv
<1>. QED  BY <1>5, <1>8

\* The same when no connection is opened or closed: the peer is in the map.
LEMMA PutKnown ==
  ASSUME IInv, NEW n \in Nodes, NEW p \in Connected(n), NEW info \in PeerInfo, Put(n, p, info),
         seen' = seen, Closed \subseteq Closed',
         info.failures <= MaxPingFailures - 1 + Cardinality(Closed')
  PROVE  PeersInv' /\ FailuresInv'
<1>1. p \in Nodes /\ SeenTo(n, p) # {}
  BY DEF IInv, PeersInv, PeersAreConnected
<1>2. \A q \in Nodes : SeenTo(n, q)' = SeenTo(n, q)
  BY DEF SeenTo
<1>3. {q \in Nodes : SeenTo(n, q)' # {}} = {q \in Nodes : SeenTo(n, q) # {}} \cup {p}
  BY <1>1, <1>2
<1>. QED  BY <1>1, <1>3, PutFrame

\* A change of a known peer's record that does not count a failure.
LEMMA PutCalm ==
  ASSUME IInv, NEW n \in Nodes, NEW p \in Connected(n), NEW info \in PeerInfo, Put(n, p, info),
         UNCHANGED <<seen, fresh, open>>,
         info.failures = Entry(n, p).failures
  PROVE  PeersInv' /\ FailuresInv'
<1>1. Closed' = Closed /\ seen' = seen
  BY DEF Closed
<1>2. Entry(n, p) = peers[n][p]
  BY EntryType DEF IInv, PeersInv
<1>3. info.failures <= MaxPingFailures - 1 + Cardinality(Closed')
  BY <1>1, <1>2 DEF IInv, FailuresInv
<1>4. Closed \subseteq Closed'
  BY <1>1
<1>. QED  BY <1>1, <1>3, <1>4, PutKnown

\* Requests that leave.
LEMMA FewerRequests ==
  ASSUME RequestsInv, registry' = registry, requests' \subseteq requests
  PROVE  RequestsInv'
BY DEF RequestsInv, OnItsLink

\* A request is sent on a connection to its receiver.
LEMMA RequestOnLink ==
  ASSUME IInv, NEW n \in Nodes, NEW p, NEW l \in seen[n], p \in Ends[l], p # n,
         NEW kind \in {"ListServices", "PushServices", "GetState"}, NEW body \in Seq(Services)
  PROVE  Request(n, p, l, kind, body) \in RequestType /\ OnItsLink(Request(n, p, l, kind, body))
<1>1. l \in Links /\ n \in Ends[l]
  BY SeenPeer
<1>2. p \in Nodes /\ Ends[l] = {n, p}
  BY <1>1, OtherEnd
<1>. QED  BY <1>1, <1>2 DEF Request, RequestType, OnItsLink

\* send_request.
LEMMA SendKeeps ==
  ASSUME IInv, NEW n \in Nodes, NEW p, NEW kind \in {"ListServices", "PushServices", "GetState"},
         Send(n, p, kind, <<>>), registry' = registry
  PROVE  RequestsInv'
<1>1. PICK l \in SeenTo(n, p) : requests' = requests \cup {Request(n, p, l, kind, <<>>)}
  BY DEF Send
<1>2. l \in seen[n] /\ Other(n, l) = p /\ l \in Links /\ n \in Ends[l]
  BY SeenPeer DEF SeenTo
<1>3. p \in Ends[l] /\ p # n
  BY <1>2, OtherEnd
<1>4. <<>> \in Seq(Services)
  OBVIOUS
<1> DEFINE x == Request(n, p, l, kind, <<>>)
<1>5. x \in RequestType /\ OnItsLink(x)
  BY <1>2, <1>3, <1>4, RequestOnLink
<1> HIDE DEF x
<1>6. requests' = requests \cup {x}
  BY <1>1 DEF x
<1>. QED  BY <1>5, <1>6 DEF IInv, RequestsInv

\* A request is answered on its connection.
LEMMA RespondKeeps ==
  ASSUME RequestsInv, NEW r \in requests, NEW body \in Seq(Services), Respond(r, body),
         registry' = registry
  PROVE  RequestsInv'
<1> DEFINE x == [r EXCEPT !.at = "answered", !.body = body]
<1>1. r \in RequestType /\ OnItsLink(r)
  BY DEF RequestsInv
<1>2. x \in RequestType /\ x.from = r.from /\ x.to = r.to /\ x.link = r.link
  BY <1>1 DEF RequestType
<1>3. requests' = (requests \ {r}) \cup {x}
  BY DEF Respond
<1> HIDE DEF x
<1>4. OnItsLink(x)
  BY <1>1, <1>2 DEF OnItsLink
<1>. QED  BY <1>2, <1>3, <1>4 DEF RequestsInv

\* The sender of a request that arrived, and its receiver, know each other.
LEMMA ArrivedPeers ==
  ASSUME IInv, NEW n \in Nodes, NEW r \in requests, Arrived(n, r)
  PROVE  /\ r \in RequestType
         /\ r.to = n => r.from \in Connected(n)
         /\ r.from = n => r.to \in Connected(n)
<1>1. r \in RequestType /\ OnItsLink(r) /\ r.link \in seen[n]
  BY DEF IInv, RequestsInv, Arrived
<1>2. /\ r.link \in Links /\ n \in Ends[r.link] /\ Other(n, r.link) \in Connected(n)
  BY <1>1, SeenPeer
<1>3. \A p \in Ends[r.link] : p # n => p = Other(n, r.link)
  BY <1>2, OtherEnd
<1>. QED  BY <1>1, <1>2, <1>3 DEF OnItsLink

----------------------------------------------------------------------------
(***************************************************************************)
(* The steps keep the invariant.                                           *)
(***************************************************************************)

\* Connections are opened and lost under way.
LEMMA WireKeeps ==
  ASSUME IInv, (\E l \in fresh : Dial(l)) \/ (\E l \in open : Lost(l))
  PROVE  IInv'
<1>1. /\ seen' = seen /\ peers' = peers /\ registry' = registry /\ requests' = requests
      /\ fetch' = fetch
  BY DEF Dial, Lost
<1>2. WireInv' /\ Closed \subseteq Closed' /\ fresh' \subseteq fresh
  BY DEF Dial, Lost, IInv, WireInv, Closed
<1>3. SeenInv'
  BY <1>1, <1>2 DEF IInv, SeenInv
<1>4. PeersInv' /\ FailuresInv'
  BY <1>1, <1>2, PeersFrame
<1>5. RequestsInv'
  BY <1>1, FewerRequests DEF IInv
<1>6. FetchInv'
  BY <1>1 DEF IInv, FetchInv
<1>. QED  BY <1>2, <1>3, <1>4, <1>5, <1>6 DEF IInv

\* The swarm reports a connection: the peer is in the map from now on.
LEMMA EstablishedKeeps ==
  ASSUME IInv, NEW n \in Nodes, NEW l \in Links, ConnectionEstablished(n, l)
  PROVE  IInv'
<1> DEFINE p == Other(n, l)
<1>1. /\ l \in open /\ n \in Ends[l] /\ seen' = [seen EXCEPT ![n] = @ \cup {l}]
      /\ Put(n, p, Entry(n, p))
      /\ fresh' = fresh /\ open' = open /\ registry' = registry /\ requests' = requests
      /\ fetch' = fetch
  BY DEF ConnectionEstablished, wire
<1>2. p \in Nodes
  BY <1>1, OtherEnd
<1>3. seen \in [Nodes -> SUBSET Links] /\ peers \in [Nodes -> PeerMaps]
  BY DEF IInv, SeenInv, PeersInv
<1>4. /\ seen' \in [Nodes -> SUBSET Links] /\ seen'[n] = seen[n] \cup {l}
      /\ \A m \in Nodes : m # n => seen'[m] = seen[m]
  BY <1>1, <1>3
<1>5. Closed' = Closed /\ WireInv'
  BY <1>1 DEF Closed, IInv, WireInv
<1>6. SeenInv'
  BY <1>1, <1>4 DEF IInv, SeenInv, WireInv
<1>7. {q \in Nodes : SeenTo(n, q)' # {}} = {q \in Nodes : SeenTo(n, q) # {}} \cup {p}
  <2>1. SeenTo(n, p)' # {}
    BY <1>4 DEF SeenTo
  <2>2. \A q \in Nodes : q # p => SeenTo(n, q)' = SeenTo(n, q)
    BY <1>4 DEF SeenTo
  <2>. QED  BY <1>2, <2>1, <2>2
<1> HIDE DEF p
<1>8. /\ Entry(n, p) \in PeerInfo
      /\ p \in Connected(n) => Entry(n, p) = peers[n][p]
      /\ p \notin Connected(n) => Entry(n, p).failures = 0
  BY <1>3, EntryType
<1>9. Entry(n, p).failures <= MaxPingFailures - 1 + Cardinality(Closed')
  <2>1. CASE p \in Connected(n)
    BY <1>5, <1>8, <2>1 DEF IInv, FailuresInv
  <2>2. CASE p \notin Connected(n)
    BY <1>5, <1>8, <2>2, ClosedCount, NetworkAssumption
  <2>. QED  BY <2>1, <2>2
<1>10. PeersInv' /\ FailuresInv'
  <2>1. Closed \subseteq Closed'
    BY <1>5
  <2>. QED  BY <1>1, <1>2, <1>4, <1>7, <1>8, <1>9, <2>1, PutFrame
<1>11. RequestsInv'
  BY <1>1, FewerRequests DEF IInv
<1>12. FetchInv'
  BY <1>1 DEF IInv, FetchInv
<1>. QED  BY <1>5, <1>6, <1>10, <1>11, <1>12 DEF IInv

\* The swarm reports the end of a connection: the peer leaves the map exactly
\* when it was the last one.
LEMMA ClosedKeeps ==
  ASSUME IInv, NEW n \in Nodes, NEW l \in Links, ConnectionClosed(n, l)
  PROVE  IInv'
<1> DEFINE p == Other(n, l)
<1>1. /\ l \in seen[n] /\ seen' = [seen EXCEPT ![n] = @ \ {l}]
      /\ IF SeenTo(n, p) = {l} THEN Forget(n, p) ELSE UNCHANGED peers
      /\ fresh' = fresh /\ open' = open /\ registry' = registry /\ requests' = requests
      /\ fetch' = fetch
  BY DEF ConnectionClosed, wire
<1>2. p \in Nodes /\ p \in Connected(n) /\ l \in SeenTo(n, p)
  BY <1>1, SeenPeer
<1>3. seen \in [Nodes -> SUBSET Links] /\ peers \in [Nodes -> PeerMaps]
  BY DEF IInv, SeenInv, PeersInv
<1>4. /\ seen' \in [Nodes -> SUBSET Links] /\ seen'[n] = seen[n] \ {l}
      /\ \A m \in Nodes : m # n => seen'[m] = seen[m]
  BY <1>1, <1>3
<1>5. Closed' = Closed /\ WireInv'
  BY <1>1 DEF Closed, IInv, WireInv
<1>6. SeenInv'
  BY <1>1, <1>4 DEF IInv, SeenInv
<1>7. /\ SeenTo(n, p)' = SeenTo(n, p) \ {l}
      /\ \A q \in Nodes : q # p => SeenTo(n, q)' = SeenTo(n, q)
      /\ \A m \in Nodes : m # n => \A q \in Nodes : SeenTo(m, q)' = SeenTo(m, q)
  BY <1>4 DEF SeenTo
<1> HIDE DEF p
<1>8. /\ peers' \in [Nodes -> PeerMaps]
      /\ Connected(n)' = IF SeenTo(n, p) = {l} THEN Connected(n) \ {p} ELSE Connected(n)
      /\ \A q \in Connected(n)' : q \in Connected(n) /\ peers'[n][q] = peers[n][q]
      /\ \A m \in Nodes : m # n => peers'[m] = peers[m]
  <2>1. CASE SeenTo(n, p) = {l}
    <3>1. Forget(n, p)
      BY <1>1, <2>1
    <3>2. /\ peers' \in [Nodes -> PeerMaps]
          /\ Connected(n)' = Connected(n) \ {p}
          /\ \A q \in Connected(n) : q # p => peers'[n][q] = peers[n][q]
          /\ \A m \in Nodes : m # n => peers'[m] = peers[m]
      BY <1>3, <3>1, ForgetEntry
    <3>. QED  BY <2>1, <3>2
  <2>2. CASE SeenTo(n, p) # {l}
    BY <1>1, <1>3, <2>2 DEF Connected
  <2>. QED  BY <2>1, <2>2
<1>9. \A m \in Nodes : Connected(m) = {q \in Nodes : SeenTo(m, q) # {}}
  BY DEF IInv, PeersInv, PeersAreConnected
<1>10. PeersInv'
  <2>1. Connected(n)' = {q \in Nodes : SeenTo(n, q)' # {}}
    BY <1>2, <1>7, <1>8, <1>9
  <2>2. ASSUME NEW m \in Nodes, m # n PROVE Connected(m)' = {q \in Nodes : SeenTo(m, q)' # {}}
    <3>1. Connected(m)' = Connected(m)
      BY <1>8, <2>2 DEF Connected
    <3>. QED  BY <1>7, <1>9, <2>2, <3>1
  <2>. QED  BY <1>8, <2>1, <2>2 DEF PeersInv, PeersAreConnected
<1>11. FailuresInv'
  <2> SUFFICES ASSUME NEW m \in Nodes, NEW q \in Connected(m)'
               PROVE  peers'[m][q].failures <= MaxPingFailures - 1 + Cardinality(Closed')
    BY DEF FailuresInv
  <2>1. q \in Connected(m) /\ peers'[m][q] = peers[m][q]
    BY <1>8 DEF Connected
  <2>. QED  BY <1>5, <2>1 DEF IInv, FailuresInv
<1>12. RequestsInv'
  BY <1>1, FewerRequests DEF IInv
<1>13. FetchInv'
  BY <1>1 DEF IInv, FetchInv
<1>. QED  BY <1>5, <1>6, <1>10, <1>11, <1>12, <1>13 DEF IInv

\* A ping succeeds.
LEMMA PingOkKeeps ==
  ASSUME IInv, NEW n \in Nodes, NEW p \in Nodes, PingOk(n, p)
  PROVE  IInv'
<1> DEFINE info == [Entry(n, p) EXCEPT !.failures = 0]
<1>1. /\ SeenTo(n, p) # {} /\ Put(n, p, info) /\ fresh' = fresh /\ open' = open /\ seen' = seen
      /\ registry' = registry /\ requests' = requests
      /\ fetch' = fetch
  BY DEF PingOk, wire
<1>2. p \in Connected(n)
  BY <1>1 DEF IInv, PeersInv, PeersAreConnected
<1>3. Entry(n, p) \in PeerInfo
  BY EntryType DEF IInv, PeersInv
<1>4. info \in PeerInfo /\ info.failures = 0
  BY <1>3 DEF PeerInfo
<1> HIDE DEF info
<1>5. Closed' = Closed /\ WireInv' /\ SeenInv'
  BY <1>1 DEF Closed, IInv, WireInv, SeenInv
<1>6. info.failures <= MaxPingFailures - 1 + Cardinality(Closed')
  BY <1>4, <1>5, ClosedCount, NetworkAssumption
<1>7. PeersInv' /\ FailuresInv'
  <2>1. Closed \subseteq Closed'
    BY <1>5
  <2>. QED  BY <1>1, <1>2, <1>4, <1>6, <2>1, PutKnown
<1>8. RequestsInv' /\ FetchInv'
  BY <1>1, FewerRequests DEF IInv, FetchInv
<1>. QED  BY <1>5, <1>7, <1>8 DEF IInv

\* A ping fails: past the limit the connections to the peer are closed, and at
\* least one of them was open.
LEMMA PingFailsKeeps ==
  ASSUME IInv, NEW n \in Nodes, NEW p \in Nodes, PingFails(n, p)
  PROVE  IInv'
<1> DEFINE k == Entry(n, p).failures + 1
           info == [Entry(n, p) EXCEPT !.failures = k]
<1>1. /\ SeenTo(n, p) \cap open # {} /\ Put(n, p, info) /\ fresh' = fresh /\ seen' = seen
      /\ open' = (IF k >= MaxPingFailures THEN open \ SeenTo(n, p) ELSE open)
      /\ registry' = registry /\ requests' = requests
      /\ fetch' = fetch
  BY DEF PingFails
<1>2. p \in Connected(n)
  BY <1>1 DEF IInv, PeersInv, PeersAreConnected
<1>3. Entry(n, p) \in PeerInfo /\ Entry(n, p) = peers[n][p]
  BY <1>2, EntryType DEF IInv, PeersInv
<1>4. k \in Nat /\ Entry(n, p).failures \in Nat
  BY <1>3 DEF PeerInfo
<1>5. k - 1 <= MaxPingFailures - 1 + Cardinality(Closed)
  <2>1. peers[n][p].failures <= MaxPingFailures - 1 + Cardinality(Closed)
    BY <1>2 DEF IInv, FailuresInv
  <2>. QED  BY <1>3, <1>4, <2>1
<1> HIDE DEF k
<1>6. info \in PeerInfo /\ info.failures = k
  BY <1>3, <1>4 DEF PeerInfo
<1> HIDE DEF info
<1>7. Closed \subseteq Closed' /\ WireInv' /\ SeenInv'
  BY <1>1 DEF Closed, IInv, WireInv, SeenInv
<1>8. k <= MaxPingFailures - 1 + Cardinality(Closed')
  <2>1. CASE k >= MaxPingFailures
    <3>1. Closed # Closed'
      BY <1>1, <2>1 DEF Closed, IInv, WireInv
    <3>2. Cardinality(Closed) + 1 <= Cardinality(Closed') /\ Cardinality(Closed) \in Nat
          /\ Cardinality(Closed') \in Nat
      BY <1>7, <3>1, ClosedCount
    <3>. QED  BY <1>4, <1>5, <3>2, NetworkAssumption
  <2>2. CASE ~(k >= MaxPingFailures)
    <3>1. Cardinality(Closed') \in Nat
      BY <1>7, ClosedCount
    <3>. QED  BY <1>4, <2>2, <3>1, NetworkAssumption
  <2>. QED  BY <2>1, <2>2
<1>9. PeersInv' /\ FailuresInv'
  BY <1>1, <1>2, <1>6, <1>7, <1>8, PutKnown
<1>10. RequestsInv' /\ FetchInv'
  BY <1>1, FewerRequests DEF IInv, FetchInv
<1>. QED  BY <1>7, <1>9, <1>10 DEF IInv

\* A step that leaves connections and peers alone.
LEMMA TalkFrame ==
  ASSUME IInv, UNCHANGED <<fresh, open, seen, peers>>, RequestsInv', FetchInv'
  PROVE  IInv'
<1>1. Closed \subseteq Closed' /\ peers' = peers /\ seen' = seen
  BY DEF Closed
<1>2. WireInv' /\ SeenInv'
  BY DEF IInv, WireInv, SeenInv
<1>3. PeersInv' /\ FailuresInv'
  BY <1>1, PeersFrame
<1>. QED  BY <1>2, <1>3 DEF IInv

\* A step that changes the record of a known peer, no connection and no count.
LEMMA RecordFrame ==
  ASSUME IInv, NEW n \in Nodes, NEW p \in Connected(n), NEW info \in PeerInfo, Put(n, p, info),
         UNCHANGED <<seen, fresh, open>>, info.failures = Entry(n, p).failures,
         RequestsInv', FetchInv'
  PROVE  IInv'
<1>1. PeersInv' /\ FailuresInv'
  BY PutCalm
<1>2. WireInv' /\ SeenInv'
  BY DEF IInv, WireInv, SeenInv
<1>. QED  BY <1>1, <1>2 DEF IInv

\* The key of a peer arrives, and its services are asked for.
LEMMA IdentifyKeeps ==
  ASSUME IInv, NEW n \in Nodes, NEW l \in seen[n], IdentifyReceived(n, l)
  PROVE  IInv'
<1> DEFINE p == Other(n, l)
           info == [Entry(n, p) EXCEPT !.key = TRUE]
<1>1. /\ Put(n, p, info) /\ Send(n, p, "ListServices", <<>>)
      /\ UNCHANGED <<seen, fresh, open>> /\ registry' = registry
      /\ fetch' = fetch
  BY DEF IdentifyReceived, wire
<1>2. p \in Connected(n)
  BY SeenPeer
<1>3. Entry(n, p) \in PeerInfo
  BY EntryType DEF IInv, PeersInv
<1>4. info \in PeerInfo /\ info.failures = Entry(n, p).failures
  BY <1>3 DEF PeerInfo
<1> HIDE DEF p, info
<1>5. RequestsInv'
  BY <1>1, SendKeeps
<1>6. FetchInv'
  BY <1>1 DEF IInv, FetchInv
<1>. QED  BY <1>1, <1>2, <1>4, <1>5, <1>6, RecordFrame

\* A new service is pushed to every peer, on a connection to it.
LEMMA AddServiceKeeps ==
  ASSUME IInv, NEW n \in Nodes, NEW s \in Services, AddService(n, s)
  PROVE  IInv'
<1> DEFINE own == Append(registry[n], s)
<1>1. /\ registry' = [registry EXCEPT ![n] = own] /\ UNCHANGED <<fresh, open, seen, peers>>
      /\ fetch' = fetch
  BY DEF AddService, wire
<1>2. registry \in [Nodes -> Seq(Services)] /\ own \in Seq(Services)
  BY DEF IInv, RequestsInv
<1>3. PICK via \in [Connected(n) -> seen[n]] :
        /\ \A p \in Connected(n) : p \in Ends[via[p]]
        /\ requests' = requests \cup {Request(n, p, via[p], "PushServices", own) : p \in Connected(n)}
  BY DEF AddService
<1> HIDE DEF own
<1>4. ASSUME NEW p \in Connected(n)
      PROVE  /\ Request(n, p, via[p], "PushServices", own) \in RequestType
             /\ OnItsLink(Request(n, p, via[p], "PushServices", own))
  <2>1. p # n
    <3>1. PICK l \in seen[n] : Other(n, l) = p
      BY DEF IInv, PeersInv, PeersAreConnected, SeenTo
    <3>. QED  BY <3>1, SeenPeer, OtherEnd
  <2>2. via[p] \in seen[n] /\ p \in Ends[via[p]]
    BY <1>3
  <2>. QED  BY <1>2, <2>1, <2>2, RequestOnLink
<1>5. registry' \in [Nodes -> Seq(Services)]
  BY <1>1, <1>2
<1>6. RequestsInv'
  <2>1. ASSUME NEW x \in requests' PROVE x \in RequestType /\ OnItsLink(x)
    <3>1. CASE x \in requests
      BY <3>1 DEF IInv, RequestsInv
    <3>2. CASE x \notin requests
      <4>1. PICK p \in Connected(n) : x = Request(n, p, via[p], "PushServices", own)
        BY <1>3, <3>2
      <4>. QED  BY <1>4, <4>1
    <3>. QED  BY <3>1, <3>2
  <2>. QED  BY <1>5, <2>1 DEF RequestsInv
<1>7. FetchInv'
  BY <1>1 DEF IInv, FetchInv
<1>. QED  BY <1>1, <1>6, <1>7, TalkFrame

\* The list of a peer's services is stored, truncated to the limit.
LEMMA ServicesStored ==
  ASSUME IInv, NEW n \in Nodes, NEW p \in Connected(n), NEW signed \in Seq(Services),
         set_signed_services(n, p, signed), UNCHANGED <<seen, fresh, open>>,
         RequestsInv', FetchInv'
  PROVE  IInv'
<1> DEFINE list == SubSeq(signed, 1, Min({Len(signed), MaxServices}))
           info == [Entry(n, p) EXCEPT !.services = list]
<1>1. Put(n, p, info)
  BY DEF set_signed_services
<1>2. list \in Seq(Services) /\ Len(list) <= MaxServices
  BY Truncated
<1> HIDE DEF list
<1>3. Entry(n, p) \in PeerInfo
  BY EntryType DEF IInv, PeersInv
<1>4. info \in PeerInfo /\ info.failures = Entry(n, p).failures
  BY <1>2, <1>3 DEF PeerInfo
<1> HIDE DEF info
<1>. QED  BY <1>1, <1>4, RecordFrame

\* A request for services, or a push of them, is answered.
LEMMA ServicesRequestKeeps ==
  ASSUME IInv, NEW n \in Nodes, NEW r \in requests, handle_services_info_request(n, r)
  PROVE  IInv'
<1>1. /\ Arrived(n, r) /\ r.to = n /\ Respond(r, registry[n]) /\ registry' = registry
      /\ UNCHANGED <<seen, fresh, open>>
      /\ fetch' = fetch
      /\ IF r.kind = "PushServices" THEN set_signed_services(n, r.from, r.body) ELSE UNCHANGED peers
  BY DEF handle_services_info_request, wire
<1>2. r \in RequestType /\ r.from \in Connected(n)
  BY <1>1, ArrivedPeers
<1>3. r.body \in Seq(Services) /\ registry[n] \in Seq(Services)
  BY <1>2 DEF RequestType, IInv, RequestsInv
<1>4. RequestsInv'
  BY <1>1, <1>3, RespondKeeps DEF IInv
<1>5. FetchInv'
  BY <1>1 DEF IInv, FetchInv
<1>6. CASE r.kind = "PushServices"
  BY <1>1, <1>2, <1>3, <1>4, <1>5, <1>6, ServicesStored
<1>7. CASE r.kind # "PushServices"
  BY <1>1, <1>4, <1>5, <1>7, TalkFrame
<1>. QED  BY <1>6, <1>7

\* The answer arrives.
LEMMA ServicesResponseKeeps ==
  ASSUME IInv, NEW n \in Nodes, NEW r \in requests, ServicesResponse(n, r)
  PROVE  IInv'
<1>1. /\ Arrived(n, r) /\ r.from = n /\ set_signed_services(n, r.to, r.body)
      /\ requests' = requests \ {r} /\ registry' = registry
      /\ UNCHANGED <<seen, fresh, open>>
      /\ fetch' = fetch
  BY DEF ServicesResponse, wire
<1>2. r \in RequestType /\ r.to \in Connected(n)
  BY <1>1, ArrivedPeers
<1>3. r.body \in Seq(Services)
  BY <1>2 DEF RequestType
<1>4. RequestsInv'
  BY <1>1, FewerRequests DEF IInv
<1>5. FetchInv'
  BY <1>1 DEF IInv, FetchInv
<1>. QED  BY <1>1, <1>2, <1>3, <1>4, <1>5, ServicesStored

\* The requests for a mempool, and failed requests.
LEMMA MempoolKeeps ==
  ASSUME IInv, NEW n \in Nodes, NEW r \in requests,
         handle_mempool_request(n, r) \/ MempoolResponse(n, r) \/ OutboundFailure(n, r)
  PROVE  IInv'
<1>1. /\ UNCHANGED <<fresh, open, seen, peers>> /\ registry' = registry
  BY DEF handle_mempool_request, MempoolResponse, OutboundFailure, wire
<1>2. RequestsInv'
  <2>1. CASE handle_mempool_request(n, r)
    <3>1. Respond(r, <<>>) /\ <<>> \in Seq(Services)
      BY <2>1 DEF handle_mempool_request
    <3>. QED  BY <1>1, <3>1, RespondKeeps DEF IInv
  <2>2. CASE MempoolResponse(n, r) \/ OutboundFailure(n, r)
    <3>1. requests' \subseteq requests
      BY <2>2 DEF MempoolResponse, OutboundFailure
    <3>. QED  BY <1>1, <3>1, FewerRequests DEF IInv
  <2>. QED  BY <2>1, <2>2
<1>3. fetch' \in [Nodes -> {"none", "waiting", "data", "error"}]
  BY DEF handle_mempool_request, MempoolResponse, OutboundFailure, IInv, FetchInv
<1>4. FetchInv'
  BY <1>1, <1>3 DEF IInv, FetchInv
<1>. QED  BY <1>1, <1>2, <1>4, TalkFrame

\* The commands that send a request.
LEMMA CommandKeeps ==
  ASSUME IInv, NEW n \in Nodes,
         FetchMempoolState(n) \/ \E p \in Nodes : RefreshPeerServices(n, p)
  PROVE  IInv'
<1>1. /\ UNCHANGED <<fresh, open, seen, peers>> /\ registry' = registry
  BY DEF FetchMempoolState, RefreshPeerServices, wire
<1>2. RequestsInv'
  <2>1. CASE requests' = requests
    BY <1>1, <2>1, FewerRequests DEF IInv
  <2>2. CASE \E p : Send(n, p, "GetState", <<>>) \/ Send(n, p, "ListServices", <<>>)
    BY <1>1, <2>2, SendKeeps
  <2>. QED  BY <2>1, <2>2 DEF FetchMempoolState, RefreshPeerServices
<1>3. fetch' \in [Nodes -> {"none", "waiting", "data", "error"}]
  BY DEF FetchMempoolState, RefreshPeerServices, IInv, FetchInv
<1>4. FetchInv'
  BY <1>1, <1>3 DEF IInv, FetchInv
<1>. QED  BY <1>1, <1>2, <1>4, TalkFrame

\* A run loop ends: the node forgets connections, peers and requests together.
LEMMA CancelledKeeps ==
  ASSUME IInv, NEW n \in Nodes, Cancelled(n)
  PROVE  IInv'
<1>1. /\ open' = {l \in open : n \notin Ends[l]} /\ seen' = [seen EXCEPT ![n] = {}]
      /\ peers' = [peers EXCEPT ![n] = <<>>]
      /\ requests' = {x \in requests : x.from # n}
      /\ fetch' = [fetch EXCEPT ![n] = IF @ = "waiting" THEN "error" ELSE @]
      /\ fresh' = fresh /\ registry' = registry
  BY DEF Cancelled
<1>2. WireInv' /\ Closed \subseteq Closed'
  BY <1>1 DEF IInv, WireInv, Closed
<1>3. seen \in [Nodes -> SUBSET Links] /\ peers \in [Nodes -> PeerMaps]
  BY DEF IInv, SeenInv, PeersInv
<1>4. /\ seen' \in [Nodes -> SUBSET Links] /\ seen'[n] = {}
      /\ \A m \in Nodes : m # n => seen'[m] = seen[m]
  BY <1>1, <1>3
<1>5. SeenInv'
  BY <1>1, <1>4 DEF IInv, SeenInv
<1>6. <<>> \in PeerMaps /\ DOMAIN <<>> = {}
  <2>1. <<>> \in [{} -> PeerInfo]
    OBVIOUS
  <2>. QED  BY <2>1 DEF PeerMaps
<1>7. /\ peers' \in [Nodes -> PeerMaps] /\ Connected(n)' = {}
      /\ \A m \in Nodes : m # n => peers'[m] = peers[m]
  BY <1>1, <1>3, <1>6 DEF Connected
<1>8. \A m \in Nodes : m # n => \A q \in Nodes : SeenTo(m, q)' = SeenTo(m, q)
  BY <1>4 DEF SeenTo
<1>9. PeersInv'
  <2>1. Connected(n)' = {q \in Nodes : SeenTo(n, q)' # {}}
    BY <1>4, <1>7 DEF SeenTo
  <2>2. ASSUME NEW m \in Nodes, m # n PROVE Connected(m)' = {q \in Nodes : SeenTo(m, q)' # {}}
    <3>1. Connected(m)' = Connected(m)
      BY <1>7, <2>2 DEF Connected
    <3>. QED  BY <1>8, <2>2, <3>1 DEF IInv, PeersInv, PeersAreConnected
  <2>. QED  BY <1>7, <2>1, <2>2 DEF PeersInv, PeersAreConnected
<1>10. FailuresInv'
  <2> SUFFICES ASSUME NEW m \in Nodes, NEW q \in Connected(m)'
               PROVE  peers'[m][q].failures <= MaxPingFailures - 1 + Cardinality(Closed')
    BY DEF FailuresInv
  <2>1. m # n /\ peers'[m] = peers[m] /\ q \in Connected(m)
    BY <1>7 DEF Connected
  <2>2. peers[m][q].failures <= MaxPingFailures - 1 + Cardinality(Closed)
    BY <2>1 DEF IInv, FailuresInv
  <2>3. peers[m][q].failures \in Nat
    <3>1. Entry(m, q) \in PeerInfo /\ Entry(m, q) = peers[m][q]
      BY <1>3, <2>1, EntryType
    <3>. QED  BY <3>1 DEF PeerInfo
  <2>. QED  BY <1>2, <2>1, <2>2, <2>3, ClosedCount, NetworkAssumption
<1>11. RequestsInv'
  <2>1. requests' \subseteq requests
    BY <1>1
  <2>. QED  BY <1>1, <2>1, FewerRequests DEF IInv
<1>12. FetchInv'
  BY <1>1 DEF IInv, FetchInv
<1>. QED  BY <1>2, <1>5, <1>9, <1>10, <1>11, <1>12 DEF IInv

----------------------------------------------------------------------------
(***************************************************************************)
(* The theorems.                                                           *)
(***************************************************************************)

\* Every step keeps the invariant.
LEMMA NextInv ==
  ASSUME IInv, [Next]_vars
  PROVE  IInv'
<1>1. CASE (\E l \in fresh : Dial(l)) \/ (\E l \in open : Lost(l))
  BY <1>1, WireKeeps
<1>2. ASSUME NEW n \in Nodes, Server(n) PROVE IInv'
  BY <1>2, EstablishedKeeps, ClosedKeeps, ServicesRequestKeeps, ServicesResponseKeeps,
     MempoolKeeps, AddServiceKeeps DEF Server, SwarmEvent
<1>3. ASSUME NEW n \in Clients, Client(n) PROVE IInv'
  <2>1. n \in Nodes
    BY NetworkAssumption
  <2>. QED  BY <1>3, <2>1, CommandKeeps, CancelledKeeps, IdentifyKeeps, PingOkKeeps,
              PingFailsKeeps DEF Client
<1>4. CASE UNCHANGED vars
  <2>1. /\ UNCHANGED <<fresh, open, seen, peers>> /\ registry' = registry /\ requests' = requests
        /\ fetch' = fetch
    BY <1>4 DEF vars
  <2>2. RequestsInv' /\ FetchInv'
    BY <2>1, FewerRequests DEF IInv, FetchInv
  <2>. QED  BY <2>1, <2>2, TalkFrame
<1>. QED  BY <1>1, <1>2, <1>3, <1>4 DEF Next

\* The invariant holds in every state of every behaviour.
THEOREM Invariance == Spec => []IInv
<1>1. Init => IInv
  <2> SUFFICES ASSUME Init PROVE IInv
    OBVIOUS
  <2>1. /\ fresh = Links /\ open = {} /\ seen = [n \in Nodes |-> {}]
        /\ peers = [n \in Nodes |-> <<>>] /\ registry = [n \in Nodes |-> <<>>] /\ requests = {}
        /\ fetch = [n \in Nodes |-> "none"]
    BY DEF Init
  <2>2. WireInv /\ SeenInv
    BY <2>1 DEF WireInv, SeenInv
  <2>3. <<>> \in PeerMaps /\ DOMAIN <<>> = {}
    <3>1. <<>> \in [{} -> PeerInfo]
      OBVIOUS
    <3>. QED  BY <3>1 DEF PeerMaps
  <2>4. PeersInv /\ FailuresInv
    BY <2>1, <2>3 DEF PeersInv, PeersAreConnected, FailuresInv, Connected, SeenTo
  <2>5. RequestsInv
    BY <2>1 DEF RequestsInv
  <2>6. FetchInv
    BY <2>1, NetworkAssumption DEF FetchInv
  <2>. QED  BY <2>2, <2>4, <2>5, <2>6 DEF IInv
<1>2. IInv /\ [Next]_vars => IInv'
  BY NextInv
<1>. QED  BY <1>1, <1>2, PTL DEF Spec

\* Type correctness, with the bound on the count of failed pings.
THEOREM TypeCorrectness == Spec => []TypeOK
<1>1. IInv => TypeOK
  <2> SUFFICES ASSUME IInv, NEW n \in Nodes
               PROVE  /\ seen[n] \subseteq Links \ fresh
                      /\ Connected(n) \subseteq Nodes \ {n}
                      /\ \A p \in Connected(n) :
                           /\ peers[n][p].failures \in 0 .. MaxPingFailures + Cardinality(Links)
                           /\ Len(peers[n][p].services) <= MaxServices
                      /\ fetch[n] \in {"none", "waiting", "data", "error"}
    BY DEF IInv, WireInv, TypeOK
  <2>1. seen[n] \subseteq Links \ fresh
    BY DEF IInv, SeenInv
  <2>2. ASSUME NEW p \in Connected(n) PROVE p \in Nodes \ {n}
    <3>1. p \in Nodes /\ \E l \in seen[n] : Other(n, l) = p
      BY DEF IInv, PeersInv, PeersAreConnected, SeenTo
    <3>. QED  BY <3>1, SeenPeer, OtherEnd
  <2>3. ASSUME NEW p \in Connected(n)
        PROVE  /\ peers[n][p].failures \in 0 .. MaxPingFailures + Cardinality(Links)
               /\ Len(peers[n][p].services) <= MaxServices
    <3>1. peers[n][p] \in PeerInfo
      BY EntryType DEF IInv, PeersInv
    <3>2. peers[n][p].failures \in Nat /\ Len(peers[n][p].services) <= MaxServices
      BY <3>1 DEF PeerInfo
    <3>3. peers[n][p].failures <= MaxPingFailures - 1 + Cardinality(Closed)
      BY DEF IInv, FailuresInv
    <3>. QED  BY <3>2, <3>3, ClosedCount, NetworkAssumption
  <2>4. fetch[n] \in {"none", "waiting", "data", "error"}
    BY DEF IInv, FetchInv
  <2>. QED  BY <2>1, <2>2, <2>3, <2>4
<1>. QED  BY <1>1, Invariance, PTL

\* The peer map holds exactly the peers with a connection that the node was told
\* of, for any number of parallel connections and any order of their events.
THEOREM PeerMapExact == Spec => []PeersAreConnected
<1>1. IInv => PeersAreConnected
  BY DEF IInv, PeersInv
<1>. QED  BY <1>1, Invariance, PTL
=============================================================================
