---------------------------- MODULE XIRTransport ----------------------------
(***************************************************************************)
(* The XIR contracts (contracts/src): one gateway and one registry per     *)
(* chain, one pair of carrier adapters per hop of every deployed route,    *)
(* the carrier networks between them, the application receiver and the     *)
(* carrier-switch recorder.                                                *)
(*                                                                         *)
(* Chains are numbered along the line the deployer lays them on            *)
(* (`order` in deploy/xir_app.go): hop h of a route goes from chain h to   *)
(* chain h + 1.  A route is the sequence of its carriers, "H" for          *)
(* Hyperlane and "L" for LayerZero.  keccak256 digests are modelled as the *)
(* values they digest, which makes every digest injective.                 *)
(***************************************************************************)
EXTENDS Integers, Sequences, FiniteSets

CONSTANTS
  Chains,          \* how many chains the line has
  Routes,          \* the deployed routes, sequences over {"H", "L"}
  Attempts,        \* attempt identifiers carried in the payload
  RouteOf,         \* [Attempts -> Routes], the route named in the payload
  NoAdapter,       \* the zero address
  Apps,            \* receiver addresses
  AppHome,         \* [Apps -> 1..Chains], where a receiver has code
  Senders,         \* accounts that create records
  SourceChains,    \* chains whose gateway creates records
  Levels,          \* security levels
  Versions,        \* registry versions of the root
  Signers,         \* root signing keys
  DeployedSigner,  \* the key every registry is deployed with
  DeployedLevel,   \* the level every profile is deployed with
  Windows,         \* what the registry owner may set: level, window, enabled
  InFlightEntry,   \* entry point the runner uses for the hops after the first
  AdminOps,        \* administrator and owner operations that may happen
  MaxRecords,      \* bound on the records of one sender at one gateway
  MaxSends,        \* bound on messages per adapter
  MaxTime          \* bound on block time

Chain == 1..Chains

(* Adapters of a route: xir.AdapterKey(route, hop, "out" / "in").          *)
Hop == {[route |-> r, hop |-> h] : r \in Routes, h \in 1..Chains}
Profiles == {p \in Hop : p.hop \in DOMAIN p.route}
Adapters == [profile : Profiles, side : {"out", "in"}]

Home(a) == IF a.side = "in" THEN a.profile.hop + 1 ELSE a.profile.hop
RemoteChain(a) == IF a.side = "in" THEN a.profile.hop ELSE a.profile.hop + 1
Carrier(a) == a.profile.route[a.profile.hop]
Out(p) == [profile |-> p, side |-> "out"]
In(p) == [profile |-> p, side |-> "in"]

ASSUME TransportConstants ==
  /\ Chains \in Nat \ {0}
  /\ Routes # {}
  /\ \A r \in Routes : r \in Seq({"H", "L"}) /\ Len(r) \in 1..(Chains - 1)
  /\ NoAdapter \notin Adapters
  /\ RouteOf \in [Attempts -> Routes]
  /\ AppHome \in [Apps -> Chain]
  /\ SourceChains \subseteq Chain
  /\ Levels \subseteq Nat
  /\ DeployedLevel \in Levels
  /\ DeployedSigner \in Signers
  /\ InFlightEntry \in {"forwardInFlight", "sendSource"}
  /\ \A w \in Windows : w.after \in Nat /\ w.until \in Nat
  /\ MaxRecords \in Nat /\ MaxSends \in Nat /\ MaxTime \in Nat

VARIABLES
  nextNonce,     \* XIRGateway.nextNonce of every gateway
  created,       \* roots announced by RootCreated
  certified,     \* <<root, signer>>: root certificates handed out
  roots,         \* XIRRegistry.roots of every chain
  profiles,      \* XIRRegistry.profiles of every chain
  now,           \* block time
  peer,          \* remoteAdapter / remotePeer of every adapter
  verifier,      \* approvedPriorVerifiers of every adapter
  enforced,      \* enforcedOptionsHash of every LayerZero adapter
  paused,        \* outboundPaused of every adapter
  draining,      \* draining of every adapter
  network,       \* carrier messages dispatched so far
  sends,         \* LayerZero outbound nonce per adapter and peer
  accepted,      \* acceptedEvidence of every adapter
  bundles,       \* acceptedBundles of every adapter
  consumed,      \* XIRGateway.consumed of every gateway
  deliveries,    \* Delivered events
  effects,       \* receiver effects, counted per application and attempt
  transitions    \* transitions recorded at carrier switches

vars == <<nextNonce, created, certified, roots, profiles, now, peer, verifier,
          enforced, paused, draining, network, sends, accepted, bundles, consumed,
          deliveries, effects, transitions>>

gatewayVars  == <<nextNonce, created, certified>>
registryVars == <<roots, profiles>>
adapterVars  == <<peer, verifier, enforced, paused, draining>>
carrierVars  == <<network, sends>>
evidenceVars == <<accepted, bundles>>
outcomeVars  == <<consumed, deliveries, effects, transitions>>

-----------------------------------------------------------------------------
(* Digests.  rid and mid determine one another once the record is fixed,   *)
(* so a root record stands for both; the transition digest leaves the      *)
(* registry version out, as transitionHash does.                           *)

Root == [gateway : Chain, sender : Senders, nonce : 0..(MaxRecords - 1),
         dest : Apps, payload : Attempts, required : Levels, version : Versions]

TransitionHash(root, src, dst) ==
  [record |-> <<root.gateway, root.sender, root.nonce, root.dest, root.payload>>,
   context |-> root.required, src |-> src, dst |-> dst]

Tuple(p, e, t) == [profile |-> p, evidence |-> e, transition |-> t]

(* What the carrier authenticates at the far side: the LayerZero guid, or  *)
(* the digest Hyperlane's handle() takes of origin, sender and body.       *)
Guid(a, to, n) == [from |-> a, to |-> to, nonce |-> n]
HandleId(a, p, t, prior) == [from |-> a, body |-> <<p, t, prior>>]
Label(attempt) == [label |-> attempt]

Message(a, tuple, prior) ==
  [from |-> a, to |-> peer[a], current |-> tuple, prior |-> prior]

(* The ordered tuples a message commits to (bundleStart and bundleStep).   *)
BundleCommitment(m) == Append(m.prior, m.current)
-----------------------------------------------------------------------------
(* XIRRegistry *)

ActiveSnapshot(s) ==
  s.enabled /\ now >= s.after /\ (s.until = 0 \/ now < s.until)

CheckWindow(w) == w.until # 0 => w.until > w.after

DeployedRoot(c) ==
  [gateway |-> 1, signer |-> DeployedSigner, after |-> 0, until |-> 0,
   enabled |-> c # 1]

(* The registry of the chain that completes hop k of a route knows the     *)
(* profiles of hops 1..k, all verified by its inbound adapter of hop k.    *)
DeployedProfile(c, p) ==
  LET known == c > p.hop /\ c - 1 \in DOMAIN p.route
  IN [src |-> p.hop, dst |-> p.hop + 1, level |-> DeployedLevel,
      adapter |-> IF known THEN In([p EXCEPT !.hop = c - 1]) ELSE NoAdapter,
      after |-> 0, until |-> 0, enabled |-> known]

DeployedVerifier(a, p) ==
  IF a.side = "out" /\ a.profile.route = p.route /\ p.hop < a.profile.hop
  THEN In([p EXCEPT !.hop = a.profile.hop - 1])
  ELSE NoAdapter

Init ==
  /\ nextNonce = [c \in Chain |-> [s \in Senders |-> 0]]
  /\ created = {} /\ certified = {}
  /\ roots = [c \in Chain |-> [v \in Versions |-> DeployedRoot(c)]]
  /\ profiles = [c \in Chain |-> [p \in Profiles |-> DeployedProfile(c, p)]]
  /\ now = 0
  /\ peer = [a \in Adapters |-> IF a.side = "out" THEN In(a.profile) ELSE Out(a.profile)]
  /\ verifier = [a \in Adapters |-> [p \in Profiles |-> DeployedVerifier(a, p)]]
  /\ enforced = [a \in Adapters |-> "deployed"]
  /\ paused = [a \in Adapters |-> FALSE]
  /\ draining = [a \in Adapters |-> FALSE]
  /\ network = {}
  /\ sends = [a \in Adapters |-> [b \in Adapters |-> 0]]
  /\ accepted = [a \in Adapters |-> {}]
  /\ bundles = [a \in Adapters |-> {}]
  /\ consumed = [c \in Chain |-> {}]
  /\ deliveries = {}
  /\ effects = [x \in Apps |-> [t \in Attempts |-> 0]]
  /\ transitions = {}
-----------------------------------------------------------------------------
(* XIRGateway *)

CreateRecord(c, sender, dest, attempt, required, version) ==
  LET root == [gateway |-> c, sender |-> sender, nonce |-> nextNonce[c][sender],
               dest |-> dest, payload |-> attempt, required |-> required,
               version |-> version]
  IN /\ nextNonce[c][sender] < MaxRecords
     /\ nextNonce' = [nextNonce EXCEPT ![c][sender] = @ + 1]
     /\ created' = created \cup {root}
     /\ UNCHANGED <<certified, now, registryVars, adapterVars, carrierVars,
                    evidenceVars, outcomeVars>>

(* The root signer certifies a rid once the runner has matched it with a   *)
(* RootCreated event.                                                      *)
SignRoot(root, signer) ==
  /\ root \in created
  /\ certified' = certified \cup {<<root, signer>>}
  /\ UNCHANGED <<nextNonce, created, now, registryVars, adapterVars,
                 carrierVars, evidenceVars, outcomeVars>>

VerifyRoot(c, root) ==
  LET r == roots[c][root.version]
  IN /\ r.gateway = root.gateway
     /\ ActiveSnapshot(r)
     /\ <<root, r.signer>> \in certified

(* A call to an address that has no code on this chain reverts.            *)
AdapterVerify(c, a, tuple) == a # NoAdapter /\ Home(a) = c /\ tuple \in accepted[a]

HopSource(root, receipts, i) ==
  IF i = 1 THEN root.gateway ELSE receipts[i - 1].transition.dst

Arrival(root, receipts) == HopSource(root, receipts, Len(receipts) + 1)

(* mutant: receipts are not tied to the record *)
VerifyTrace_AnyTransition(c, root, receipts) ==
  /\ VerifyRoot(c, root)
  /\ \A i \in DOMAIN receipts :
       LET s == profiles[c][receipts[i].profile]
       IN /\ s.src = HopSource(root, receipts, i)
          /\ s.dst = receipts[i].transition.dst
          /\ ActiveSnapshot(s) /\ s.level >= root.required
          /\ AdapterVerify(c, s.adapter, receipts[i])
  /\ Arrival(root, receipts) = c
  /\ receipts # <<>> =>
       receipts \in bundles[profiles[c][receipts[Len(receipts)].profile].adapter]

(* mutant: the bundle commitment is not checked *)
VerifyTrace_NoBundle(c, root, receipts) ==
  /\ VerifyRoot(c, root)
  /\ \A i \in DOMAIN receipts :
       LET s == profiles[c][receipts[i].profile]
           src == HopSource(root, receipts, i)
       IN /\ s.src = src /\ s.dst = receipts[i].transition.dst
          /\ ActiveSnapshot(s) /\ s.level >= root.required
          /\ receipts[i].transition = TransitionHash(root, src, receipts[i].transition.dst)
          /\ AdapterVerify(c, s.adapter, receipts[i])
  /\ Arrival(root, receipts) = c

(* priorPrefix is a digest of the root and of the receipts before it, so   *)
(* an envelope is its root and its ordered receipts.                       *)
VerifyTrace(c, root, receipts) ==
  /\ VerifyRoot(c, root)
  /\ \A i \in DOMAIN receipts :
       LET r == receipts[i]
           s == profiles[c][r.profile]
           src == HopSource(root, receipts, i)
           dst == r.transition.dst
       IN /\ s.src = src /\ s.dst = dst
          /\ ActiveSnapshot(s)
          /\ s.level >= root.required
          /\ r.transition = TransitionHash(root, src, dst)
          /\ AdapterVerify(c, s.adapter, r)
  /\ Arrival(root, receipts) = c
  /\ receipts # <<>> =>
       receipts \in bundles[profiles[c][receipts[Len(receipts)].profile].adapter]

(* The evidence worth presenting on chain c: what its adapters accepted,   *)
(* and what a runner may claim before, or without, the carrier's delivery. *)
Claimed == {Tuple(p, Label(root.payload), TransitionHash(root, p.hop, p.hop + 1)) :
              p \in Profiles, root \in created}
EvidenceAt(c) ==
  Claimed \cup UNION {accepted[a] : a \in {b \in Adapters : Home(b) = c}}
Traces(S, most) == UNION {[1..n -> S] : n \in 0..most}

(* mutant: the receiver remembers messages but not attempts *)
ReceiverAccepts_PerMessage(c, root) == root \notin consumed[c]

(* NativeMultihopReceiver.xirReceive; a call to an address without code    *)
(* succeeds and has no effect.                                             *)
ReceiverAccepts(c, root) ==
  AppHome[root.dest] = c => effects[root.dest][root.payload] = 0

Deliver(c, root, receipts) ==
  /\ VerifyTrace(c, root, receipts)
  /\ root \notin consumed[c]
  /\ ReceiverAccepts(c, root)
  /\ consumed' = [consumed EXCEPT ![c] = @ \cup {root}]
  /\ deliveries' = deliveries \cup
                     {[chain |-> c, root |-> root, receipts |-> receipts]}
  /\ effects' = IF AppHome[root.dest] = c
                  THEN [effects EXCEPT ![root.dest][root.payload] = @ + 1]
                  ELSE effects
  /\ UNCHANGED <<gatewayVars, now, registryVars, adapterVars, carrierVars,
                 evidenceVars, transitions>>

(* NativeMultihopPayload.switchAt: hop h and hop h + 1 use two carriers.   *)
SwitchAt(route, h) == h \in 1..(Len(route) - 1) /\ route[h] # route[h + 1]

(* mutant: the recorder trusts the runner's envelope *)
RecordTransition_Unverified(c, root, receipts) ==
  /\ SwitchAt(RouteOf[root.payload], Len(receipts))
  /\ transitions' = transitions \cup
                      {[chain |-> c, root |-> root, receipts |-> receipts]}
  /\ UNCHANGED <<gatewayVars, now, registryVars, adapterVars, carrierVars,
                 evidenceVars, consumed, deliveries, effects>>

RecordTransition(c, root, receipts) ==
  LET h == Len(receipts)
  IN /\ SwitchAt(RouteOf[root.payload], h)
     /\ VerifyTrace(c, root, receipts)
     /\ \A x \in transitions :
          <<x.chain, x.root.payload, Len(x.receipts)>> # <<c, root.payload, h>>
     /\ transitions' = transitions \cup
                         {[chain |-> c, root |-> root, receipts |-> receipts]}
     /\ UNCHANGED <<gatewayVars, now, registryVars, adapterVars, carrierVars,
                    evidenceVars, consumed, deliveries, effects>>
-----------------------------------------------------------------------------
(* HyperlaneAdapter and LayerZeroAdapter.  The runner names the profile of *)
(* the adapter it calls and the transition of that hop; which root and     *)
(* which prior tuples it sends is its choice.                              *)

PriorVerified(a, prior) ==
  \A i \in DOMAIN prior :
    LET v == verifier[a][prior[i].profile]
    IN v # NoAdapter /\ AdapterVerify(Home(a), v, prior[i])

MessagesFrom(a) == Cardinality({m \in network : m.from = a})

(* HyperlaneAdapter._dispatch: identical bodies have identical evidence.   *)
DispatchHyperlane(a, t, prior) ==
  /\ Carrier(a) = "H"
  /\ network' = network \cup
       {Message(a, Tuple(a.profile, HandleId(a, a.profile, t, prior), t), prior)}
  /\ UNCHANGED sends

(* LayerZeroAdapter._params and the endpoint: each packet has its own guid. *)
SendLayerZero(a, t, prior) ==
  LET n == sends[a][peer[a]]
  IN /\ Carrier(a) = "L"
     /\ enforced[a] = "deployed"
     /\ network' = network \cup
          {Message(a, Tuple(a.profile, Guid(a, peer[a], n + 1), t), prior)}
     /\ sends' = [sends EXCEPT ![a][peer[a]] = @ + 1]

Transmit(a, root, prior) ==
  LET t == TransitionHash(root, Home(a), RemoteChain(a))
  IN /\ MessagesFrom(a) < MaxSends
     /\ PriorVerified(a, prior)
     /\ DispatchHyperlane(a, t, prior) \/ SendLayerZero(a, t, prior)
     /\ UNCHANGED <<gatewayVars, now, registryVars, adapterVars, evidenceVars,
                    outcomeVars>>

(* sendSource / sendSourceBundle: whenSourceStartAllowed.                  *)
SendSource(a, root, prior) ==
  /\ prior # <<>> => InFlightEntry = "sendSource"
  /\ ~paused[a] /\ ~draining[a]
  /\ Transmit(a, root, prior)

(* mutant: forwarding is guarded like a source start *)
ForwardInFlight_SourceGuard(a, root, prior) ==
  /\ prior # <<>> /\ InFlightEntry = "forwardInFlight"
  /\ ~paused[a] /\ ~draining[a]
  /\ Transmit(a, root, prior)

(* forwardInFlight / forwardInFlightBundle: whenOutboundActive.            *)
ForwardInFlight(a, root, prior) ==
  /\ prior # <<>> /\ InFlightEntry = "forwardInFlight"
  /\ ~paused[a]
  /\ Transmit(a, root, prior)

(* HyperlaneAdapter.sendSource(bytes) and forwardInFlight(bytes): a single *)
(* tuple whose evidence is the runner's own digest of the attempt.         *)
DispatchSingle(a, root) ==
  /\ Carrier(a) = "H"
  /\ MessagesFrom(a) < MaxSends
  /\ network' = network \cup
       {Message(a, Tuple(a.profile, Label(root.payload),
                         TransitionHash(root, Home(a), RemoteChain(a))), <<>>)}
  /\ UNCHANGED <<gatewayVars, now, registryVars, adapterVars, sends,
                 evidenceVars, outcomeVars>>

SendSourceSingle(a, root) ==
  /\ ~paused[a] /\ ~draining[a]
  /\ DispatchSingle(a, root)

ForwardInFlightSingle(a, root) ==
  /\ ~paused[a]
  /\ DispatchSingle(a, root)

(* handle / lzReceive.  A message may be lost, delayed, overtaken or       *)
(* handled again: it stays in the network.                                 *)
Handle(m) ==
  /\ Carrier(m.to) = Carrier(m.from)
  /\ Home(m.to) = RemoteChain(m.from)
  /\ RemoteChain(m.to) = Home(m.from)
  /\ peer[m.to] = m.from
  /\ accepted' = [accepted EXCEPT ![m.to] =
                    @ \cup {m.current} \cup {m.prior[i] : i \in DOMAIN m.prior}]
  /\ bundles' = [bundles EXCEPT ![m.to] = @ \cup {BundleCommitment(m)}]
  /\ UNCHANGED <<gatewayVars, now, registryVars, adapterVars, carrierVars,
                 outcomeVars>>
-----------------------------------------------------------------------------
(* Administrator and owner operations, and block time.                     *)

SetRemote(a, b) ==
  /\ "peer" \in AdminOps
  /\ peer' = [peer EXCEPT ![a] = b]
  /\ UNCHANGED <<gatewayVars, now, registryVars, verifier, enforced, paused,
                 draining, carrierVars, evidenceVars, outcomeVars>>

SetPriorVerifier(a, p, v) ==
  /\ "verifier" \in AdminOps
  /\ verifier' = [verifier EXCEPT ![a][p] = v]
  /\ UNCHANGED <<gatewayVars, now, registryVars, peer, enforced, paused,
                 draining, carrierVars, evidenceVars, outcomeVars>>

SetEnforcedOptions(a, o) ==
  /\ "options" \in AdminOps
  /\ Carrier(a) = "L"
  /\ enforced' = [enforced EXCEPT ![a] = o]
  /\ UNCHANGED <<gatewayVars, now, registryVars, peer, verifier, paused,
                 draining, carrierVars, evidenceVars, outcomeVars>>

SetOutboundPaused(a, b) ==
  /\ "pause" \in AdminOps
  /\ paused' = [paused EXCEPT ![a] = b]
  /\ UNCHANGED <<gatewayVars, now, registryVars, peer, verifier, enforced,
                 draining, carrierVars, evidenceVars, outcomeVars>>

SetDrain(a, b) ==
  /\ "drain" \in AdminOps
  /\ draining' = [draining EXCEPT ![a] = b]
  /\ UNCHANGED <<gatewayVars, now, registryVars, peer, verifier, enforced,
                 paused, carrierVars, evidenceVars, outcomeVars>>

(* The owner may also store another source, destination or gateway; the    *)
(* deployers derive them from the route, and so does the model.            *)
SetRoot(c, v, signer, w) ==
  /\ "root" \in AdminOps
  /\ CheckWindow(w)
  /\ roots' = [roots EXCEPT ![c][v] =
                 [gateway |-> 1, signer |-> signer, after |-> w.after,
                  until |-> w.until, enabled |-> w.enabled]]
  /\ UNCHANGED <<gatewayVars, now, profiles, adapterVars, carrierVars,
                 evidenceVars, outcomeVars>>

SetProfile(c, p, a, w) ==
  /\ "profile" \in AdminOps
  /\ CheckWindow(w)
  /\ profiles' = [profiles EXCEPT ![c][p] =
                    [src |-> p.hop, dst |-> p.hop + 1, level |-> w.level,
                     adapter |-> a, after |-> w.after, until |-> w.until,
                     enabled |-> w.enabled]]
  /\ UNCHANGED <<gatewayVars, now, roots, adapterVars, carrierVars,
                 evidenceVars, outcomeVars>>

Tick ==
  /\ now < MaxTime
  /\ now' = now + 1
  /\ UNCHANGED <<gatewayVars, registryVars, adapterVars, carrierVars,
                 evidenceVars, outcomeVars>>
-----------------------------------------------------------------------------
(* Any order of operations, any records, envelopes and prior lists.        *)

(* Messages other contracts may send to an adapter over the same carrier.  *)
ForeignMessages ==
  {[from |-> [profile |-> a.profile, side |-> "foreign"], to |-> a,
    current |-> t, prior |-> <<>>] : a \in {b \in Adapters : b.side = "in"}, t \in Claimed}

OutAdapters == {a \in Adapters : a.side = "out"}

Gateway ==
  \/ \E c \in SourceChains, s \in Senders, x \in Apps, t \in Attempts,
        l \in Levels, v \in Versions : CreateRecord(c, s, x, t, l, v)
  \/ \E root \in created, s \in Signers : SignRoot(root, s)
  \/ \E c \in Chain, root \in Root :
       \E receipts \in Traces(EvidenceAt(c), c - 1) :
         Deliver(c, root, receipts) \/ RecordTransition(c, root, receipts)

Transport ==
  \/ \E a \in OutAdapters, root \in created :
       \/ \E prior \in Traces(EvidenceAt(Home(a)), Home(a) - 1) :
            SendSource(a, root, prior) \/ ForwardInFlight(a, root, prior)
       \/ SendSourceSingle(a, root) \/ ForwardInFlightSingle(a, root)
  \/ \E m \in network \cup ForeignMessages : Handle(m)

(* Settings that cannot matter are left out: a peer on another carrier, a  *)
(* verifier with no code on the chain, the controls of inbound adapters.   *)
AdminPeer ==
  \E a, b \in Adapters : Carrier(a) = Carrier(b) /\ SetRemote(a, b)
AdminVerifier ==
  \E a \in OutAdapters, p \in Profiles :
    \E v \in {b \in Adapters : Home(b) = Home(a)} \cup {NoAdapter} :
      p.hop < a.profile.hop /\ SetPriorVerifier(a, p, v)
AdminOptions ==
  \E a \in OutAdapters, o \in {"deployed", "other"} : SetEnforcedOptions(a, o)
AdminOutbound ==
  \E a \in OutAdapters, b \in BOOLEAN : SetOutboundPaused(a, b) \/ SetDrain(a, b)
OwnerRoot ==
  \E c \in Chain, v \in Versions, s \in Signers, w \in Windows : SetRoot(c, v, s, w)
OwnerProfile ==
  \E c \in Chain, p \in Profiles, w \in Windows :
    \E a \in {b \in Adapters : Home(b) = c} : SetProfile(c, p, a, w)

Next ==
  \/ Gateway \/ Transport \/ Tick
  \/ AdminPeer \/ AdminVerifier \/ AdminOptions \/ AdminOutbound
  \/ OwnerRoot \/ OwnerProfile

Spec == Init /\ [][Next]_vars
-----------------------------------------------------------------------------
(* Properties *)

(* Type correctness of the contract storage and of the carrier messages.   *)
IsTuple(t) ==
  /\ DOMAIN t = {"profile", "evidence", "transition"}
  /\ t.profile \in Profiles

IsMessage(m) ==
  /\ m.from \in Adapters /\ m.to \in Adapters
  /\ IsTuple(m.current)
  /\ \A i \in DOMAIN m.prior : IsTuple(m.prior[i])

TypeOK ==
  /\ nextNonce \in [Chain -> [Senders -> Nat]]
  /\ created \subseteq Root
  /\ certified \subseteq created \X Signers
  /\ now \in Nat
  /\ roots = [c \in Chain |-> [v \in Versions |-> roots[c][v]]]
  /\ \A c \in Chain, v \in Versions : roots[c][v].signer \in Signers
  /\ profiles = [c \in Chain |-> [p \in Profiles |-> profiles[c][p]]]
  /\ \A c \in Chain, p \in Profiles :
       /\ profiles[c][p].src = p.hop
       /\ profiles[c][p].dst = p.hop + 1
       /\ profiles[c][p].adapter \in Adapters \cup {NoAdapter}
  /\ peer \in [Adapters -> Adapters]
  /\ verifier \in [Adapters -> [Profiles -> Adapters \cup {NoAdapter}]]
  /\ enforced \in [Adapters -> {"deployed", "other"}]
  /\ paused \in [Adapters -> BOOLEAN]
  /\ draining \in [Adapters -> BOOLEAN]
  /\ sends \in [Adapters -> [Adapters -> Nat]]
  /\ \A m \in network : IsMessage(m)
  /\ DOMAIN accepted = Adapters /\ DOMAIN bundles = Adapters
  /\ \A a \in Adapters : \A t \in accepted[a] : IsTuple(t)
  /\ consumed \in [Chain -> SUBSET created]
  /\ effects \in [Apps -> [Attempts -> Nat]]

(* A tuple is authentic when the sending adapter of its own hop dispatched *)
(* it as the current tuple of a carrier message.                           *)
Authentic(t) == \E m \in network : m.current = t /\ m.from = Out(t.profile)

(* receipts are hop-by-hop evidence that root travelled from its gateway   *)
(* to chain c: consecutive hops, each really dispatched for this root.     *)
Travelled(root, receipts, c) ==
  /\ root \in created
  /\ \A i \in DOMAIN receipts :
       /\ Authentic(receipts[i])
       /\ receipts[i].transition =
            TransitionHash(root, HopSource(root, receipts, i),
                           receipts[i].profile.hop + 1)
       /\ receipts[i].profile.hop = HopSource(root, receipts, i)
  /\ Arrival(root, receipts) = c

(* Whatever a gateway delivers travelled every hop of its trace: evidence  *)
(* is never invented, borrowed from another record or from another hop,    *)
(* although only the last hop is authenticated on the delivering chain     *)
(* (XIRGateway.verifyTrace, HyperlaneAdapter.handle, LayerZeroAdapter.     *)
(* lzReceive, _forwardVerified).                                           *)
DeliveredTraceAuthentic ==
  \A d \in deliveries : Travelled(d.root, d.receipts, d.chain)

(* A carrier-switch record is written only for a trace that reached the    *)
(* switching chain (NativeMultihopTransitionRecorder.record).              *)
RecordedTransitionAuthentic ==
  \A x \in transitions : Travelled(x.root, x.receipts, x.chain)

(* The receipts of a delivery came in one carrier message, in this order   *)
(* (the bundle commitment of verifyTrace and handle / lzReceive).          *)
DeliveredFromOneMessage ==
  \A d \in deliveries :
    d.receipts # <<>> => \E m \in network : BundleCommitment(m) = d.receipts

(* A gateway delivers a message once, whatever evidence is presented       *)
(* (XIRGateway.consumed).                                                  *)
DeliveredOnce ==
  \A d, e \in deliveries : (d.chain = e.chain /\ d.root = e.root) => d = e

(* An attempt takes effect at most once, also when it was retried under a  *)
(* new record (NativeMultihopReceiver.consumedAttempts).                   *)
EffectOnce == \A x \in Apps, t \in Attempts : effects[x][t] <= 1

(* The contracts implement XIRDelivery: a record applies where its         *)
(* destination application has code.                                       *)
Applied == {d.root : d \in {e \in deliveries : AppHome[e.root.dest] = e.chain}}
Promise == INSTANCE XIRDelivery WITH Roots <- Root, created <- created,
                                     applied <- Applied
ImplementsDelivery == Promise!Spec
-----------------------------------------------------------------------------
(* The runner's own order of work (walkHops): one dispatch per hop of the  *)
(* attempt's route, with the receipts confirmed so far as prior list, then *)
(* the delivery on the last chain.                                         *)

ReceiptsFor(root, h) ==
  IF h = 1 THEN {<<>>}
  ELSE LET from == In([route |-> RouteOf[root.payload], hop |-> h - 1])
       IN {b \in bundles[from] :
             b[Len(b)].transition = TransitionHash(root, h - 1, h)}

Dispatched(root, h) ==
  \E m \in network :
    /\ m.from = Out([route |-> RouteOf[root.payload], hop |-> h])
    /\ m.current.transition = TransitionHash(root, h, h + 1)

RunnerHop(root, h) ==
  LET a == Out([route |-> RouteOf[root.payload], hop |-> h])
  IN /\ h \in DOMAIN RouteOf[root.payload]
     /\ <<root, DeployedSigner>> \in certified
     /\ ~Dispatched(root, h)
     /\ \E prior \in ReceiptsFor(root, h) :
          SendSource(a, root, prior) \/ ForwardInFlight(a, root, prior)

RunnerDeliver(root) ==
  \E receipts \in ReceiptsFor(root, Len(RouteOf[root.payload]) + 1) :
    Deliver(Len(RouteOf[root.payload]) + 1, root, receipts)

RunnerNext ==
  \/ \E c \in SourceChains, s \in Senders, x \in Apps, t \in Attempts,
        l \in Levels, v \in Versions : CreateRecord(c, s, x, t, l, v)
  \/ \E root \in created :
       \/ SignRoot(root, DeployedSigner)
       \/ \E h \in Chain : RunnerHop(root, h)
       \/ RunnerDeliver(root)
  \/ \E m \in network : Handle(m)
  \/ AdminOutbound
====
