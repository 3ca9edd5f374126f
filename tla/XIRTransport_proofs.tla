------------------------ MODULE XIRTransport_proofs ------------------------
(***************************************************************************)
(* Proofs about XIRTransport for every line of chains, every set of routes *)
(* and every number of records, messages and administrator operations.     *)
(***************************************************************************)
EXTENDS XIRTransport, TLAPS

(* Every tuple a message carries was the current tuple of a message of its *)
(* own hop; the current tuple of a message names the hop of its sender.    *)
MessageInv ==
  \A m \in network :
    /\ m.from = Out(m.current.profile)
    /\ \A i \in DOMAIN m.prior : Authentic(m.prior[i])

EvidenceInv ==
  /\ \A a \in Adapters : \A t \in accepted[a] : Authentic(t)
  /\ \A a \in Adapters : \A b \in bundles[a] :
       \E m \in network : BundleCommitment(m) = b

TransportInv == TypeOK /\ MessageInv /\ EvidenceInv

(* The adapter helpers stay within their sets.                             *)
LEMMA AdapterFacts ==
  ASSUME NEW p \in Profiles
  PROVE  /\ Out(p) \in Adapters /\ In(p) \in Adapters
         /\ Out(p).profile = p /\ Out(p).side = "out"
BY DEF Out, In, Adapters

(* An outbound adapter is the sending adapter of its own profile.          *)
LEMMA OutIsOut ==
  ASSUME NEW a \in OutAdapters
  PROVE  a \in Adapters /\ a.profile \in Profiles /\ a = Out(a.profile)
BY DEF OutAdapters, Adapters, Out

(* Evidence once authentic stays authentic while the network only grows.   *)
LEMMA AuthenticKept ==
  ASSUME network \subseteq network', NEW t, Authentic(t)
  PROVE  Authentic(t)'
BY DEF Authentic

(* What a step that touches neither messages nor evidence leaves true.     *)
LEMMA EvidenceFrame ==
  ASSUME MessageInv, EvidenceInv, UNCHANGED <<network, accepted, bundles>>
  PROVE  MessageInv' /\ EvidenceInv'
BY DEF MessageInv, EvidenceInv, Authentic

(* The tuples a runner or a submitter may present are well formed.         *)
LEMMA PresentedTuples ==
  ASSUME TypeOK, NEW c, NEW most, NEW trace \in Traces(EvidenceAt(c), most),
         NEW i \in DOMAIN trace
  PROVE  IsTuple(trace[i])
<1>1. PICK n \in 0..most : trace \in [1..n -> EvidenceAt(c)]
  BY DEF Traces
<1>2. trace[i] \in EvidenceAt(c)
  BY <1>1
<1>3. CASE trace[i] \in Claimed
  BY <1>3 DEF Claimed, Tuple, IsTuple
<1>4. CASE \E a \in Adapters : trace[i] \in accepted[a]
  BY <1>4 DEF TypeOK
<1> QED
  BY <1>2, <1>3, <1>4 DEF EvidenceAt

(* _forwardVerified only lets tuples through that an adapter of this chain *)
(* has accepted, hence only authentic ones.                                *)
LEMMA PriorIsAuthentic ==
  ASSUME TransportInv, NEW a \in OutAdapters, NEW most,
         NEW prior \in Traces(EvidenceAt(Home(a)), most),
         PriorVerified(a, prior), NEW i \in DOMAIN prior
  PROVE  IsTuple(prior[i]) /\ Authentic(prior[i])
<1>1. IsTuple(prior[i])
  BY PresentedTuples DEF TransportInv
<1> DEFINE v == verifier[a][prior[i].profile]
<1>2. v \in Adapters /\ prior[i] \in accepted[v]
  BY <1>1, OutIsOut DEF TransportInv, TypeOK, IsTuple, PriorVerified, AdapterVerify
<1> QED
  BY <1>1, <1>2 DEF TransportInv, EvidenceInv

(* A dispatch adds one message whose current tuple names the sender's hop  *)
(* and whose prior tuples were verified.                                   *)
LEMMA DispatchStep ==
  ASSUME TransportInv, NEW m, network' = network \cup {m},
         UNCHANGED <<accepted, bundles>>,
         IsMessage(m), m.from = Out(m.current.profile),
         \A i \in DOMAIN m.prior : Authentic(m.prior[i])
  PROVE  /\ MessageInv' /\ EvidenceInv'
         /\ \A x \in network' : IsMessage(x)
<1>1. \A x \in network' : IsMessage(x)
  BY DEF TransportInv, TypeOK
<1>2. MessageInv'
  <2> SUFFICES ASSUME NEW x \in network'
               PROVE  /\ x.from = Out(x.current.profile)
                      /\ \A i \in DOMAIN x.prior : Authentic(x.prior[i])'
    BY DEF MessageInv
  <2>1. /\ x.from = Out(x.current.profile)
        /\ \A i \in DOMAIN x.prior : Authentic(x.prior[i])
    BY DEF TransportInv, MessageInv
  <2> QED
    BY <2>1, AuthenticKept
<1>3. EvidenceInv'
  BY AuthenticKept DEF TransportInv, EvidenceInv
<1> QED
  BY <1>1, <1>2, <1>3

(* handle / lzReceive accept only what a peer adapter of ours dispatched.  *)
LEMMA HandleStep ==
  ASSUME TransportInv, NEW m \in network \cup ForeignMessages, Handle(m)
  PROVE  TransportInv'
<1>1. m.to \in Adapters
  BY DEF ForeignMessages, TransportInv, TypeOK, IsMessage
<1>2. m.from \in Adapters
  BY <1>1 DEF Handle, TransportInv, TypeOK
<1>3. m \in network
  BY <1>2 DEF ForeignMessages, Adapters
<1>4. IsMessage(m) /\ Authentic(m.current)
  BY <1>3 DEF TransportInv, TypeOK, MessageInv, Authentic
<1>5. \A i \in DOMAIN m.prior : IsTuple(m.prior[i]) /\ Authentic(m.prior[i])
  BY <1>3 DEF TransportInv, TypeOK, IsMessage, MessageInv
<1>6. UNCHANGED <<gatewayVars, now, registryVars, adapterVars, carrierVars, outcomeVars>>
  BY DEF Handle
<1>7. TypeOK'
  <2>1. /\ DOMAIN accepted' = Adapters /\ DOMAIN bundles' = Adapters
        /\ \A a \in Adapters : \A t \in accepted'[a] : IsTuple(t)
    BY <1>1, <1>4, <1>5 DEF Handle, TransportInv, TypeOK, IsMessage
  <2> QED
    BY <2>1, <1>6 DEF TransportInv, TypeOK, gatewayVars, registryVars, adapterVars,
       carrierVars, outcomeVars
<1>8. MessageInv'
  BY <1>6 DEF TransportInv, MessageInv, Authentic, carrierVars
<1>9. EvidenceInv'
  <2>1. \A a \in Adapters : \A t \in accepted'[a] : Authentic(t)
    BY <1>1, <1>4, <1>5 DEF Handle, TransportInv, TypeOK, EvidenceInv
  <2>2. \A a \in Adapters : \A b \in bundles'[a] :
          \E x \in network : BundleCommitment(x) = b
    BY <1>1, <1>3 DEF Handle, TransportInv, TypeOK, EvidenceInv
  <2> QED
    BY <2>1, <2>2, <1>6 DEF EvidenceInv, Authentic, carrierVars
<1> QED
  BY <1>7, <1>8, <1>9 DEF TransportInv

(* The messages the runner's three send entries put on the network.        *)
LEMMA TransmitStep ==
  ASSUME TransportInv, NEW a \in OutAdapters, NEW root \in created, NEW most,
         NEW prior \in Traces(EvidenceAt(Home(a)), most), Transmit(a, root, prior)
  PROVE  TransportInv'
<1> DEFINE p == a.profile
           t == TransitionHash(root, Home(a), RemoteChain(a))
           n == sends[a][peer[a]]
           mh == Message(a, Tuple(p, HandleId(a, p, t, prior), t), prior)
           ml == Message(a, Tuple(p, Guid(a, peer[a], n + 1), t), prior)
<1>1. PICK m \in {mh, ml} : network' = network \cup {m}
  BY DEF Transmit, DispatchHyperlane, SendLayerZero
<1>2. sends' \in [Adapters -> [Adapters -> Nat]]
  <2>1. a \in Adapters /\ peer[a] \in Adapters /\ sends \in [Adapters -> [Adapters -> Nat]]
    BY OutIsOut DEF TransportInv, TypeOK
  <2>2. sends' = sends \/ sends' = [sends EXCEPT ![a][peer[a]] = @ + 1]
    BY DEF Transmit, DispatchHyperlane, SendLayerZero
  <2> QED
    BY <2>1, <2>2
<1>3. PriorVerified(a, prior)
  BY DEF Transmit
<1>4. m.from = a /\ m.to = peer[a] /\ m.prior = prior /\ m.current.profile = p
      /\ IsTuple(m.current)
  BY <1>1, OutIsOut DEF Message, Tuple, IsTuple
<1>5. \A i \in DOMAIN m.prior : IsTuple(m.prior[i]) /\ Authentic(m.prior[i])
  BY <1>3, <1>4, PriorIsAuthentic
<1>6. IsMessage(m)
  BY <1>4, <1>5, OutIsOut DEF IsMessage, TransportInv, TypeOK
<1>7. UNCHANGED <<gatewayVars, now, registryVars, adapterVars, evidenceVars, outcomeVars>>
  BY DEF Transmit
<1>8. /\ MessageInv' /\ EvidenceInv'
      /\ \A x \in network' : IsMessage(x)
  BY <1>1, <1>4, <1>5, <1>6, <1>7, OutIsOut, DispatchStep DEF evidenceVars
<1>9. TypeOK'
  BY <1>2, <1>7, <1>8 DEF TransportInv, TypeOK, gatewayVars, registryVars,
     adapterVars, evidenceVars, outcomeVars
<1> QED
  BY <1>8, <1>9 DEF TransportInv

(* The single-evidence send of the Python native runner (KIND_XIR).        *)
LEMMA SingleStep ==
  ASSUME TransportInv, NEW a \in OutAdapters, NEW root \in created,
         DispatchSingle(a, root)
  PROVE  TransportInv'
<1> DEFINE m == Message(a, Tuple(a.profile, Label(root.payload),
                          TransitionHash(root, Home(a), RemoteChain(a))), <<>>)
<1>1. network' = network \cup {m}
  BY DEF DispatchSingle
<1>2. m.from = a /\ m.to = peer[a] /\ m.prior = <<>> /\ m.current.profile = a.profile
      /\ IsTuple(m.current)
  BY OutIsOut DEF Message, Tuple, IsTuple
<1>3. IsMessage(m) /\ \A i \in DOMAIN m.prior : Authentic(m.prior[i])
  BY <1>2, OutIsOut DEF IsMessage, TransportInv, TypeOK
<1>4. UNCHANGED <<gatewayVars, now, registryVars, adapterVars, sends, evidenceVars, outcomeVars>>
  BY DEF DispatchSingle
<1>5. /\ MessageInv' /\ EvidenceInv'
      /\ \A x \in network' : IsMessage(x)
  <2> HIDE DEF m
  <2> QED
    BY <1>1, <1>2, <1>3, <1>4, OutIsOut, DispatchStep DEF evidenceVars
<1>6. TypeOK'
  BY <1>4, <1>5 DEF TransportInv, TypeOK, gatewayVars, registryVars,
     adapterVars, evidenceVars, outcomeVars
<1> QED
  BY <1>5, <1>6 DEF TransportInv

(* Creating and certifying a record.                                       *)
LEMMA CreateStep ==
  ASSUME TransportInv, NEW c \in SourceChains, NEW sender \in Senders,
         NEW dest \in Apps, NEW attempt \in Attempts, NEW required \in Levels,
         NEW version \in Versions,
         CreateRecord(c, sender, dest, attempt, required, version)
  PROVE  TransportInv' /\ created \subseteq created'
<1>1. PICK root : /\ root = [gateway |-> c, sender |-> sender,
                             nonce |-> nextNonce[c][sender], dest |-> dest,
                             payload |-> attempt, required |-> required,
                             version |-> version]
                  /\ created' = created \cup {root}
                  /\ nextNonce[c][sender] < MaxRecords
                  /\ nextNonce' = [nextNonce EXCEPT ![c][sender] = @ + 1]
                  /\ UNCHANGED <<certified, now, registryVars, adapterVars,
                                 carrierVars, evidenceVars, outcomeVars>>
  BY DEF CreateRecord
<1>2. c \in Chain /\ nextNonce \in [Chain -> [Senders -> Nat]]
      /\ nextNonce[c] \in [Senders -> Nat] /\ nextNonce[c][sender] \in Nat
  BY TransportConstants DEF TransportInv, TypeOK
<1>3. nextNonce' \in [Chain -> [Senders -> Nat]]
  BY <1>1, <1>2
<1>4. nextNonce[c][sender] \in 0..(MaxRecords - 1)
  BY <1>1, <1>2, TransportConstants
<1>5. root \in Root
  BY <1>1, <1>2, <1>4 DEF Root
<1>6. created' \subseteq Root /\ created \subseteq created'
  BY <1>1, <1>5 DEF TransportInv, TypeOK
<1>7. TypeOK'
  BY <1>1, <1>3, <1>6 DEF TransportInv, TypeOK, registryVars, adapterVars,
     carrierVars, evidenceVars, outcomeVars
<1> QED
  BY <1>1, <1>6, <1>7, EvidenceFrame DEF TransportInv, carrierVars, evidenceVars

(* Certifying a root adds a certificate for a created record only.         *)
LEMMA SignStep ==
  ASSUME TransportInv, NEW root \in created, NEW signer \in Signers,
         SignRoot(root, signer)
  PROVE  TransportInv'
<1>1. TypeOK'
  BY DEF SignRoot, TransportInv, TypeOK, registryVars, adapterVars,
     carrierVars, evidenceVars, outcomeVars
<1> QED
  BY <1>1, EvidenceFrame DEF SignRoot, TransportInv, carrierVars, evidenceVars

(* A verified root was certified, hence created.                           *)
LEMMA VerifiedRootCreated ==
  ASSUME TransportInv, NEW c \in Chain, NEW root \in Root, VerifyRoot(c, root)
  PROVE  root \in created
BY DEF VerifyRoot, TransportInv, TypeOK

(* A delivery consumes a created record and touches no evidence.           *)
LEMMA DeliverStep ==
  ASSUME TransportInv, NEW c \in Chain, NEW root \in Root, NEW receipts,
         Deliver(c, root, receipts)
  PROVE  TransportInv'
<1>1. root \in created
  BY VerifiedRootCreated DEF Deliver, VerifyTrace
<1>2. consumed' \in [Chain -> SUBSET created]
  BY <1>1 DEF Deliver, TransportInv, TypeOK
<1>3. effects' \in [Apps -> [Attempts -> Nat]]
  <2>1. root.dest \in Apps /\ root.payload \in Attempts
    BY DEF Root
  <2>2. effects \in [Apps -> [Attempts -> Nat]]
    BY DEF TransportInv, TypeOK
  <2>3. effects' = effects \/
        effects' = [effects EXCEPT ![root.dest][root.payload] = @ + 1]
    BY DEF Deliver
  <2> QED
    BY <2>1, <2>2, <2>3
<1>4. UNCHANGED <<gatewayVars, now, registryVars, adapterVars, carrierVars,
                  evidenceVars, transitions>>
  BY DEF Deliver
<1>5. TypeOK'
  BY <1>2, <1>3, <1>4 DEF TransportInv, TypeOK, gatewayVars, registryVars,
     adapterVars, carrierVars, evidenceVars
<1> QED
  BY <1>4, <1>5, EvidenceFrame DEF TransportInv, carrierVars, evidenceVars

(* Recording a carrier switch touches neither messages nor evidence.       *)
LEMMA RecordStep ==
  ASSUME TransportInv, NEW c \in Chain, NEW root \in Root, NEW receipts,
         RecordTransition(c, root, receipts)
  PROVE  TransportInv'
<1>1. UNCHANGED <<gatewayVars, now, registryVars, adapterVars, carrierVars,
                  evidenceVars, consumed, deliveries, effects>>
  BY DEF RecordTransition
<1>2. TypeOK'
  BY <1>1 DEF TransportInv, TypeOK, gatewayVars, registryVars,
     adapterVars, carrierVars, evidenceVars
<1> QED
  BY <1>1, <1>2, EvidenceFrame DEF TransportInv, carrierVars, evidenceVars

(* Administrator and owner operations and the clock.                       *)
LEMMA AdminStep ==
  ASSUME TransportInv,
         \/ AdminPeer \/ AdminVerifier \/ AdminOptions \/ AdminOutbound
         \/ OwnerRoot \/ OwnerProfile \/ Tick
  PROVE  TransportInv'
<1> USE DEF TransportInv
<1>1. CASE AdminPeer
  <2>1. TypeOK'
    BY <1>1 DEF AdminPeer, SetRemote, TypeOK, gatewayVars, registryVars,
       carrierVars, evidenceVars, outcomeVars
  <2> QED
    BY <1>1, <2>1, EvidenceFrame DEF AdminPeer, SetRemote, carrierVars, evidenceVars
<1>2. CASE AdminVerifier
  <2>1. PICK a \in Adapters, p \in Profiles, v \in Adapters \cup {NoAdapter} :
          SetPriorVerifier(a, p, v)
    BY <1>2, OutIsOut DEF AdminVerifier
  <2>2. verifier' \in [Adapters -> [Profiles -> Adapters \cup {NoAdapter}]]
    BY <2>1 DEF SetPriorVerifier, TypeOK
  <2>3. TypeOK'
    BY <2>1, <2>2 DEF SetPriorVerifier, TypeOK, gatewayVars, registryVars,
       carrierVars, evidenceVars, outcomeVars
  <2> QED
    BY <2>1, <2>3, EvidenceFrame DEF SetPriorVerifier, carrierVars, evidenceVars
<1>3. CASE AdminOptions
  <2>1. PICK a \in Adapters, o \in {"deployed", "other"} : SetEnforcedOptions(a, o)
    BY <1>3, OutIsOut DEF AdminOptions
  <2>2. enforced' \in [Adapters -> {"deployed", "other"}]
    BY <2>1 DEF SetEnforcedOptions, TypeOK
  <2>3. TypeOK'
    BY <2>1, <2>2 DEF SetEnforcedOptions, TypeOK, gatewayVars, registryVars,
       carrierVars, evidenceVars, outcomeVars
  <2> QED
    BY <2>1, <2>3, EvidenceFrame DEF SetEnforcedOptions, carrierVars, evidenceVars
<1>4. CASE AdminOutbound
  <2>1. PICK a \in OutAdapters, b \in BOOLEAN :
          SetOutboundPaused(a, b) \/ SetDrain(a, b)
    BY <1>4 DEF AdminOutbound
  <2>2. paused' \in [Adapters -> BOOLEAN] /\ draining' \in [Adapters -> BOOLEAN]
    BY <2>1 DEF SetOutboundPaused, SetDrain, TypeOK
  <2>3. TypeOK'
    BY <2>1, <2>2 DEF SetOutboundPaused, SetDrain, TypeOK, gatewayVars, registryVars,
       carrierVars, evidenceVars, outcomeVars
  <2> QED
    BY <2>1, <2>3, EvidenceFrame
    DEF SetOutboundPaused, SetDrain, carrierVars, evidenceVars
<1>5. CASE OwnerRoot
  <2>1. PICK c \in Chain, v \in Versions, s \in Signers, w \in Windows :
          SetRoot(c, v, s, w)
    BY <1>5 DEF OwnerRoot
  <2>2. /\ roots' = [x \in Chain |-> [y \in Versions |-> roots'[x][y]]]
        /\ \A x \in Chain, y \in Versions : roots'[x][y].signer \in Signers
    <3> DEFINE new == [gateway |-> 1, signer |-> s, after |-> w.after,
                       until |-> w.until, enabled |-> w.enabled]
    <3>1. roots' = [roots EXCEPT ![c][v] = new] /\ new.signer = s
      BY <2>1 DEF SetRoot
    <3> HIDE DEF new
    <3>2. /\ roots = [x \in Chain |-> [y \in Versions |-> roots[x][y]]]
          /\ \A x \in Chain, y \in Versions : roots[x][y].signer \in Signers
      BY DEF TypeOK
    <3>3. \A x \in Chain, y \in Versions :
            roots'[x][y] = IF x = c /\ y = v THEN new ELSE roots[x][y]
      BY <3>1, <3>2
    <3>4. roots' = [x \in Chain |-> [y \in Versions |-> roots'[x][y]]]
      <4>1. \A x \in Chain : roots[x] = [y \in Versions |-> roots[x][y]]
        BY <3>2
      <4>2. roots' = [x \in Chain |-> IF x = c THEN [roots[c] EXCEPT ![v] = new]
                                               ELSE roots[x]]
        BY <3>1, <3>2
      <4>3. \A x \in Chain : roots'[x] = [y \in Versions |-> roots'[x][y]]
        BY <4>1, <4>2
      <4> QED
        BY <4>2, <4>3
    <3> QED
      BY <3>1, <3>2, <3>3, <3>4
  <2>3. TypeOK'
    BY <2>1, <2>2 DEF SetRoot, TypeOK, gatewayVars, adapterVars,
       carrierVars, evidenceVars, outcomeVars
  <2> QED
    BY <2>1, <2>3, EvidenceFrame DEF SetRoot, carrierVars, evidenceVars
<1>6. CASE OwnerProfile
  <2>1. PICK c \in Chain, p \in Profiles, w \in Windows, a \in Adapters :
            SetProfile(c, p, a, w)
    BY <1>6 DEF OwnerProfile
  <2> DEFINE new == [src |-> p.hop, dst |-> p.hop + 1, level |-> w.level,
                     adapter |-> a, after |-> w.after, until |-> w.until,
                     enabled |-> w.enabled]
  <2>2. profiles' = [profiles EXCEPT ![c][p] = new]
        /\ new.src = p.hop /\ new.dst = p.hop + 1 /\ new.adapter \in Adapters
    BY <2>1 DEF SetProfile
  <2>3. /\ profiles' = [x \in Chain |-> [y \in Profiles |-> profiles'[x][y]]]
        /\ \A x \in Chain, y \in Profiles :
             /\ profiles'[x][y].src = y.hop
             /\ profiles'[x][y].dst = y.hop + 1
             /\ profiles'[x][y].adapter \in Adapters \cup {NoAdapter}
    <3>1. /\ profiles = [x \in Chain |-> [y \in Profiles |-> profiles[x][y]]]
          /\ \A x \in Chain, y \in Profiles :
               /\ profiles[x][y].src = y.hop
               /\ profiles[x][y].dst = y.hop + 1
               /\ profiles[x][y].adapter \in Adapters \cup {NoAdapter}
      BY DEF TypeOK
    <3> HIDE DEF new
    <3>2. \A x \in Chain, y \in Profiles :
            profiles'[x][y] = IF x = c /\ y = p THEN new ELSE profiles[x][y]
      BY <2>2, <3>1
    <3>3. profiles' = [x \in Chain |-> [y \in Profiles |-> profiles'[x][y]]]
      <4>1. \A x \in Chain : profiles[x] = [y \in Profiles |-> profiles[x][y]]
        BY <3>1
      <4>2. profiles' = [x \in Chain |-> IF x = c THEN [profiles[c] EXCEPT ![p] = new]
                                                  ELSE profiles[x]]
        BY <2>2, <3>1
      <4>3. \A x \in Chain : profiles'[x] = [y \in Profiles |-> profiles'[x][y]]
        BY <4>1, <4>2
      <4> QED
        BY <4>2, <4>3
    <3> QED
      BY <2>2, <3>1, <3>2, <3>3
  <2>4. TypeOK'
    BY <2>1, <2>3 DEF SetProfile, TypeOK, gatewayVars, adapterVars,
       carrierVars, evidenceVars, outcomeVars
  <2> QED
    BY <2>1, <2>4, EvidenceFrame DEF SetProfile, carrierVars, evidenceVars
<1>7. CASE Tick
  <2>1. TypeOK'
    BY <1>7 DEF Tick, TypeOK, gatewayVars, registryVars, adapterVars,
       carrierVars, evidenceVars, outcomeVars
  <2> QED
    BY <1>7, <2>1, EvidenceFrame DEF Tick, carrierVars, evidenceVars
<1> QED
  BY <1>1, <1>2, <1>3, <1>4, <1>5, <1>6, <1>7

(* The deployed configuration satisfies the invariant.                     *)
LEMMA TransportInit == Init => TransportInv
<1> SUFFICES ASSUME Init PROVE TransportInv
  OBVIOUS
<1>1. MessageInv /\ EvidenceInv
  BY DEF Init, MessageInv, EvidenceInv
<1>2. \A p \in Profiles : \A h \in DOMAIN p.route : [p EXCEPT !.hop = h] \in Profiles
  <2> SUFFICES ASSUME NEW p \in Profiles, NEW h \in DOMAIN p.route
               PROVE  [p EXCEPT !.hop = h] \in Profiles
    OBVIOUS
  <2>1. p.route \in Routes /\ p = [route |-> p.route, hop |-> p.hop]
    BY DEF Profiles, Hop
  <2>2. h \in 1..Chains
    BY <2>1, TransportConstants
  <2>3. [p EXCEPT !.hop = h] = [route |-> p.route, hop |-> h]
    BY <2>1
  <2> QED
    BY <2>1, <2>2, <2>3 DEF Profiles, Hop
<1>3. \A c \in Chain, p \in Profiles :
        /\ DeployedProfile(c, p).src = p.hop
        /\ DeployedProfile(c, p).dst = p.hop + 1
        /\ DeployedProfile(c, p).adapter \in Adapters \cup {NoAdapter}
  BY <1>2, AdapterFacts DEF DeployedProfile
<1>4. \A a \in Adapters, p \in Profiles :
        DeployedVerifier(a, p) \in Adapters \cup {NoAdapter}
  <2> SUFFICES ASSUME NEW a \in Adapters, NEW p \in Profiles,
                      a.side = "out", a.profile.route = p.route,
                      p.hop < a.profile.hop
               PROVE  In([p EXCEPT !.hop = a.profile.hop - 1]) \in Adapters
    BY DEF DeployedVerifier
  <2>1. a.profile \in Profiles
    BY DEF Adapters
  <2>2. a.profile.hop - 1 \in DOMAIN p.route
    <3>1. p.route \in Seq({"H", "L"})
      BY TransportConstants DEF Profiles, Hop
    <3>2. p.hop \in 1..Len(p.route) /\ a.profile.hop \in 1..Len(p.route)
      BY <2>1, <3>1 DEF Profiles
    <3> QED
      BY <3>1, <3>2
  <2> QED
    BY <1>2, <2>2, AdapterFacts
<1>5. TypeOK
  <2>1. /\ roots = [c \in Chain |-> [v \in Versions |-> roots[c][v]]]
        /\ \A c \in Chain, v \in Versions : roots[c][v].signer \in Signers
    BY TransportConstants DEF Init, DeployedRoot
  <2>2. /\ profiles = [c \in Chain |-> [p \in Profiles |-> profiles[c][p]]]
        /\ \A c \in Chain, p \in Profiles :
             /\ profiles[c][p].src = p.hop
             /\ profiles[c][p].dst = p.hop + 1
             /\ profiles[c][p].adapter \in Adapters \cup {NoAdapter}
    BY <1>3 DEF Init
  <2>3. peer \in [Adapters -> Adapters]
    <3>1. \A a \in Adapters : In(a.profile) \in Adapters /\ Out(a.profile) \in Adapters
      BY AdapterFacts DEF Adapters
    <3> QED
      BY <3>1 DEF Init
  <2>4. verifier \in [Adapters -> [Profiles -> Adapters \cup {NoAdapter}]]
    BY <1>4 DEF Init
  <2> QED
    BY <2>1, <2>2, <2>3, <2>4 DEF Init, TypeOK
<1> QED
  BY <1>1, <1>5 DEF TransportInv

(* Every step preserves the invariant.                                     *)
LEMMA TransportStep == TransportInv /\ [Next]_vars => TransportInv'
<1> SUFFICES ASSUME TransportInv, [Next]_vars PROVE TransportInv'
  OBVIOUS
<1>1. CASE Gateway
  BY <1>1, CreateStep, SignStep, DeliverStep, RecordStep DEF Gateway
<1>2. CASE Transport
  <2>1. ASSUME NEW a \in OutAdapters, NEW root \in created,
               NEW prior \in Traces(EvidenceAt(Home(a)), Home(a) - 1),
               SendSource(a, root, prior) \/ ForwardInFlight(a, root, prior)
        PROVE  TransportInv'
    BY <2>1, TransmitStep DEF SendSource, ForwardInFlight
  <2> QED
    BY <1>2, <2>1, SingleStep, HandleStep DEF Transport, SendSourceSingle, ForwardInFlightSingle
<1>3. CASE UNCHANGED vars
  <2>1. TypeOK'
    BY <1>3 DEF vars, TransportInv, TypeOK
  <2> QED
    BY <1>3, <2>1, EvidenceFrame DEF vars, TransportInv
<1> QED
  BY <1>1, <1>2, <1>3, AdminStep DEF Next

(* The contract storage keeps its types, and every piece of evidence any   *)
(* adapter ever accepts was dispatched by the adapter of its own hop.      *)
THEOREM TransportInvariant == Spec => []TransportInv
BY TransportInit, TransportStep, PTL DEF Spec

(* TypeOK holds throughout.                                                *)
THEOREM TypeCorrect == Spec => []TypeOK
<1>1. TransportInv => TypeOK
  BY DEF TransportInv
<1> QED
  BY <1>1, TransportInvariant, PTL
-----------------------------------------------------------------------------
(* What a gateway verifies really travelled, and came in one message.      *)
LEMMA VerifiedTraceTravelled ==
  ASSUME TransportInv, NEW c \in Chain, NEW root \in Root, NEW most \in Nat,
         NEW receipts \in Traces(EvidenceAt(c), most), VerifyTrace(c, root, receipts)
  PROVE  /\ Travelled(root, receipts, c)
         /\ receipts # <<>> => \E m \in network : BundleCommitment(m) = receipts
<1>1. root \in created
  BY VerifiedRootCreated DEF VerifyTrace
<1>2. ASSUME NEW i \in DOMAIN receipts
      PROVE  /\ receipts[i].profile \in Profiles
             /\ profiles[c][receipts[i].profile].adapter \in Adapters
             /\ Authentic(receipts[i])
             /\ receipts[i].transition =
                  TransitionHash(root, HopSource(root, receipts, i),
                                 receipts[i].profile.hop + 1)
             /\ receipts[i].profile.hop = HopSource(root, receipts, i)
  <2> DEFINE r == receipts[i]
             s == profiles[c][r.profile]
             src == HopSource(root, receipts, i)
             dst == r.transition.dst
  <2>1. r.profile \in Profiles
    BY PresentedTuples DEF TransportInv, IsTuple
  <2>2. /\ s.src = src /\ s.dst = dst
        /\ r.transition = TransitionHash(root, src, dst)
        /\ AdapterVerify(c, s.adapter, r)
    BY DEF VerifyTrace
  <2>3. /\ s.src = r.profile.hop /\ s.dst = r.profile.hop + 1
        /\ s.adapter \in Adapters \cup {NoAdapter}
    BY <2>1 DEF TransportInv, TypeOK
  <2>4. s.adapter \in Adapters /\ r \in accepted[s.adapter]
    BY <2>2, <2>3 DEF AdapterVerify
  <2>5. Authentic(r)
    BY <2>4 DEF TransportInv, EvidenceInv
  <2> QED
    BY <2>1, <2>2, <2>3, <2>4, <2>5
<1>3. Travelled(root, receipts, c)
  BY <1>1, <1>2 DEF Travelled, VerifyTrace
<1>4. ASSUME receipts # <<>>
      PROVE  \E m \in network : BundleCommitment(m) = receipts
  <2>1. PICK n \in 0..most : receipts \in [1..n -> EvidenceAt(c)]
    BY DEF Traces
  <2>2. n # 0
    BY <1>4, <2>1
  <2>3. Len(receipts) = n /\ n \in DOMAIN receipts
    BY <2>1, <2>2
  <2>4. profiles[c][receipts[Len(receipts)].profile].adapter \in Adapters
    BY <1>2, <2>3
  <2> QED
    BY <1>4, <2>4 DEF VerifyTrace, TransportInv, EvidenceInv
<1> QED
  BY <1>3, <1>4

(* Records and messages are never taken back.                              *)
LEMMA Monotone ==
  ASSUME [Next]_vars
  PROVE  network \subseteq network' /\ created \subseteq created'
<1>1. CASE Gateway
  BY <1>1, ZenonT(60) DEF Gateway, CreateRecord, SignRoot, Deliver, RecordTransition,
     gatewayVars, carrierVars
<1>2. CASE Transport
  BY <1>2 DEF Transport, SendSource, ForwardInFlight, Transmit, DispatchHyperlane,
     SendLayerZero, SendSourceSingle, ForwardInFlightSingle, DispatchSingle, Handle, gatewayVars, carrierVars
<1>3. CASE Tick \/ AdminPeer \/ AdminVerifier \/ AdminOptions \/ AdminOutbound
  BY <1>3 DEF Tick, AdminPeer, AdminVerifier, AdminOptions, AdminOutbound, SetRemote,
     SetPriorVerifier, SetEnforcedOptions, SetOutboundPaused, SetDrain,
     gatewayVars, carrierVars
<1>4. CASE OwnerRoot \/ OwnerProfile
  BY <1>4 DEF OwnerRoot, OwnerProfile, SetRoot, SetProfile, gatewayVars, carrierVars
<1>5. CASE UNCHANGED vars
  BY <1>5 DEF vars
<1> QED
  BY <1>1, <1>2, <1>3, <1>4, <1>5 DEF Next

(* A trace that travelled stays travelled while records and messages grow. *)
LEMMA TravelledKept ==
  ASSUME network \subseteq network', created \subseteq created',
         NEW root, NEW receipts, NEW c, Travelled(root, receipts, c)
  PROVE  Travelled(root, receipts, c)'
BY AuthenticKept DEF Travelled, HopSource, Arrival, TransitionHash

(* Only Deliver changes the outcome variables, only RecordTransition the   *)
(* recorded transitions.                                                   *)
LEMMA OutcomeChange ==
  ASSUME [Next]_vars
  PROVE  \/ UNCHANGED outcomeVars
         \/ \E c \in Chain, root \in Root :
              \E receipts \in Traces(EvidenceAt(c), c - 1) :
                Deliver(c, root, receipts) \/ RecordTransition(c, root, receipts)
<1>1. CASE Gateway
  BY <1>1 DEF Gateway, CreateRecord, SignRoot
<1>2. CASE Transport
  BY <1>2 DEF Transport, SendSource, ForwardInFlight, Transmit, SendSourceSingle,
     ForwardInFlightSingle, DispatchSingle, Handle
<1>3. CASE Tick \/ AdminPeer \/ AdminVerifier \/ AdminOptions \/ AdminOutbound
  BY <1>3 DEF Tick, AdminPeer, AdminVerifier, AdminOptions, AdminOutbound, SetRemote,
     SetPriorVerifier, SetEnforcedOptions, SetOutboundPaused, SetDrain
<1>4. CASE OwnerRoot \/ OwnerProfile
  BY <1>4 DEF OwnerRoot, OwnerProfile, SetRoot, SetProfile
<1>5. CASE UNCHANGED vars
  BY <1>5 DEF vars, outcomeVars
<1> QED
  BY <1>1, <1>2, <1>3, <1>4, <1>5 DEF Next

(* What the outcomes on every chain owe to the evidence.                   *)
TraceInv ==
  DeliveredTraceAuthentic /\ RecordedTransitionAuthentic /\ DeliveredFromOneMessage

(* Every new delivery or transition comes from a verified trace.           *)
LEMMA TraceStep == TransportInv /\ TraceInv /\ [Next]_vars => TraceInv'
<1> SUFFICES ASSUME TransportInv, TraceInv, [Next]_vars PROVE TraceInv'
  OBVIOUS
<1>1. network \subseteq network' /\ created \subseteq created'
  BY Monotone
<1>2. /\ \A d \in deliveries : Travelled(d.root, d.receipts, d.chain)'
      /\ \A x \in transitions : Travelled(x.root, x.receipts, x.chain)'
  BY <1>1, TravelledKept
     DEF TraceInv, DeliveredTraceAuthentic, RecordedTransitionAuthentic
<1>3. \A d \in deliveries :
        d.receipts # <<>> => \E m \in network' : BundleCommitment(m) = d.receipts
  BY <1>1 DEF TraceInv, DeliveredFromOneMessage
<1>4. CASE UNCHANGED outcomeVars
  BY <1>2, <1>3, <1>4 DEF TraceInv, outcomeVars, DeliveredTraceAuthentic,
     RecordedTransitionAuthentic, DeliveredFromOneMessage
<1>5. ASSUME NEW c \in Chain, NEW root \in Root,
             NEW receipts \in Traces(EvidenceAt(c), c - 1),
             Deliver(c, root, receipts) \/ RecordTransition(c, root, receipts)
      PROVE  TraceInv'
  <2> DEFINE new == [chain |-> c, root |-> root, receipts |-> receipts]
  <2>1. VerifyTrace(c, root, receipts)
    BY <1>5 DEF Deliver, RecordTransition
  <2>2. c - 1 \in Nat
    BY TransportConstants DEF Chain
  <2>3. /\ Travelled(root, receipts, c)
        /\ receipts # <<>> => \E m \in network : BundleCommitment(m) = receipts
    BY <2>1, <2>2, VerifiedTraceTravelled
  <2>4. /\ Travelled(new.root, new.receipts, new.chain)'
        /\ new.receipts # <<>> => \E m \in network' : BundleCommitment(m) = new.receipts
    BY <1>1, <2>3, TravelledKept
  <2>5. /\ deliveries' \subseteq deliveries \cup {new}
        /\ transitions' \subseteq transitions \cup {new}
    BY <1>5 DEF Deliver, RecordTransition
  <2> HIDE DEF new
  <2> QED
    BY <1>2, <1>3, <2>4, <2>5 DEF TraceInv, DeliveredTraceAuthentic,
       RecordedTransitionAuthentic, DeliveredFromOneMessage
<1> QED
  BY <1>4, <1>5, OutcomeChange

(* Deliveries and transitions are backed by travelled traces throughout.   *)
LEMMA TraceInvariant == Spec => []TraceInv
<1>1. Init => TraceInv
  BY DEF Init, TraceInv, DeliveredTraceAuthentic, RecordedTransitionAuthentic,
     DeliveredFromOneMessage
<1> QED
  BY <1>1, TraceStep, TransportInvariant, PTL DEF Spec

(* Whatever a gateway delivers travelled every hop of its trace.           *)
THEOREM DeliveredAuthentic == Spec => []DeliveredTraceAuthentic
<1>1. TraceInv => DeliveredTraceAuthentic
  BY DEF TraceInv
<1> QED
  BY <1>1, TraceInvariant, PTL

(* Whatever a recorder notes at a carrier switch travelled there.          *)
THEOREM RecordedAuthentic == Spec => []RecordedTransitionAuthentic
<1>1. TraceInv => RecordedTransitionAuthentic
  BY DEF TraceInv
<1> QED
  BY <1>1, TraceInvariant, PTL

(* The receipts of a delivery came together, in order, in one message.     *)
THEOREM OneMessage == Spec => []DeliveredFromOneMessage
<1>1. TraceInv => DeliveredFromOneMessage
  BY DEF TraceInv
<1> QED
  BY <1>1, TraceInvariant, PTL

-----------------------------------------------------------------------------
(* The contracts implement XIRDelivery: with the refinement mapping        *)
(* "applied where the destination has code", each step creates one fresh   *)
(* record, applies one created record whose attempt was not applied        *)
(* before, or changes nothing an application can see.                      *)

(* A gateway has used up the nonces of the records it created.             *)
NonceInv == \A r \in created : r.nonce < nextNonce[r.gateway][r.sender]

(* A delivered record is consumed on its chain.                            *)
ConsumedInv ==
  \A d \in deliveries : d.chain \in Chain /\ d.root \in consumed[d.chain]

(* An attempt without an effect at an application has not been applied     *)
(* there.                                                                  *)
AppliedInv ==
  \A r \in Applied : effects[r.dest][r.payload] # 0

DeliveryInv == NonceInv /\ ConsumedInv /\ DeliveredOnce /\ AppliedInv /\ EffectOnce

(* Applied grows by the root of a delivery where its destination lives.    *)
LEMMA AppliedGrows ==
  ASSUME NEW c, NEW root, NEW receipts,
         deliveries' = deliveries \cup {[chain |-> c, root |-> root, receipts |-> receipts]}
  PROVE  Applied' = IF AppHome[root.dest] = c THEN Applied \cup {root} ELSE Applied
<1> DEFINE new == [chain |-> c, root |-> root, receipts |-> receipts]
<1>1. new.chain = c /\ new.root = root
  OBVIOUS
<1>2. deliveries' = deliveries \cup {new}
  OBVIOUS
<1> HIDE DEF new
<1> QED
  BY <1>1, <1>2 DEF Applied

(* Only CreateRecord changes the records and the gateways' nonces.         *)
LEMMA GatewayChange ==
  ASSUME [Next]_vars
  PROVE  \/ UNCHANGED <<created, nextNonce>>
         \/ \E c \in SourceChains, s \in Senders, x \in Apps, t \in Attempts,
               l \in Levels, v \in Versions : CreateRecord(c, s, x, t, l, v)
<1>1. CASE Gateway
  BY <1>1, ZenonT(60) DEF Gateway, SignRoot, Deliver, RecordTransition, gatewayVars
<1>2. CASE Transport
  BY <1>2 DEF Transport, SendSource, ForwardInFlight, Transmit, SendSourceSingle,
     ForwardInFlightSingle, DispatchSingle, Handle, gatewayVars
<1>3. CASE Tick \/ AdminPeer \/ AdminVerifier \/ AdminOptions \/ AdminOutbound
  BY <1>3 DEF Tick, AdminPeer, AdminVerifier, AdminOptions, AdminOutbound, SetRemote,
     SetPriorVerifier, SetEnforcedOptions, SetOutboundPaused, SetDrain, gatewayVars
<1>4. CASE OwnerRoot \/ OwnerProfile
  BY <1>4 DEF OwnerRoot, OwnerProfile, SetRoot, SetProfile, gatewayVars
<1>5. CASE UNCHANGED vars
  BY <1>5 DEF vars
<1> QED
  BY <1>1, <1>2, <1>3, <1>4, <1>5 DEF Next

(* A created record is fresh, and its nonce is used up afterwards.         *)
LEMMA FreshRecord ==
  ASSUME TransportInv, NonceInv, NEW c \in SourceChains, NEW sender \in Senders,
         NEW dest \in Apps, NEW attempt \in Attempts, NEW required \in Levels,
         NEW version \in Versions,
         CreateRecord(c, sender, dest, attempt, required, version)
  PROVE  /\ \E root \in Root \ created : created' = created \cup {root}
         /\ NonceInv'
         /\ UNCHANGED outcomeVars
<1>1. PICK root : /\ root = [gateway |-> c, sender |-> sender,
                             nonce |-> nextNonce[c][sender], dest |-> dest,
                             payload |-> attempt, required |-> required,
                             version |-> version]
                  /\ created' = created \cup {root}
                  /\ nextNonce' = [nextNonce EXCEPT ![c][sender] = @ + 1]
                  /\ UNCHANGED outcomeVars
  BY DEF CreateRecord
<1>2. c \in Chain /\ nextNonce \in [Chain -> [Senders -> Nat]] /\ nextNonce[c][sender] \in Nat
  BY TransportConstants DEF TransportInv, TypeOK
<1>3. created' \subseteq Root
  BY CreateStep DEF TransportInv, TypeOK
<1>4. root \notin created
  <2>1. root.gateway = c /\ root.sender = sender /\ root.nonce = nextNonce[c][sender]
    BY <1>1
  <2> QED
    BY <1>2, <2>1 DEF NonceInv
<1>5. NonceInv'
  <2>1. /\ nextNonce' \in [Chain -> [Senders -> Nat]]
        /\ \A d \in Chain, s \in Senders : nextNonce'[d][s] >= nextNonce[d][s]
    BY <1>1, <1>2
  <2>2. nextNonce'[c][sender] = nextNonce[c][sender] + 1
    BY <1>1, <1>2
  <2>3. ASSUME NEW r \in created PROVE r.nonce < nextNonce'[r.gateway][r.sender]
    <3>1. r \in Root
      BY DEF TransportInv, TypeOK
    <3>2. r.gateway \in Chain /\ r.sender \in Senders /\ r.nonce \in 0..(MaxRecords - 1)
      BY <3>1 DEF Root
    <3>3. r.nonce \in Int
      BY <3>2, TransportConstants
    <3>4. nextNonce[r.gateway][r.sender] \in Nat /\ nextNonce'[r.gateway][r.sender] \in Nat
      BY <1>2, <2>1, <3>2
    <3> QED
      BY <2>1, <3>2, <3>3, <3>4 DEF NonceInv
  <2>4. root.nonce < nextNonce'[root.gateway][root.sender]
    BY <1>1, <1>2, <2>2
  <2> QED
    BY <1>1, <2>3, <2>4 DEF NonceInv
<1> QED
  BY <1>1, <1>3, <1>4, <1>5

(* A delivery is of a created record not delivered before on this chain,   *)
(* and an effect is the first of its attempt.                              *)
LEMMA DeliveryStep ==
  ASSUME TransportInv, DeliveryInv, NEW c \in Chain, NEW root \in Root, NEW receipts,
         Deliver(c, root, receipts)
  PROVE  /\ ConsumedInv' /\ DeliveredOnce' /\ AppliedInv' /\ EffectOnce'
         /\ root \in created
         /\ \/ Applied' = Applied
            \/ /\ Applied' = Applied \cup {root}
               /\ \A r \in Applied : <<r.dest, r.payload>> # <<root.dest, root.payload>>
<1> DEFINE new == [chain |-> c, root |-> root, receipts |-> receipts]
<1>1. /\ root \notin consumed[c] /\ ReceiverAccepts(c, root)
      /\ consumed' = [consumed EXCEPT ![c] = @ \cup {root}]
      /\ deliveries' = deliveries \cup {new}
      /\ effects' = IF AppHome[root.dest] = c
                      THEN [effects EXCEPT ![root.dest][root.payload] = @ + 1]
                      ELSE effects
  BY DEF Deliver
<1>2. root \in created
  BY VerifiedRootCreated DEF Deliver, VerifyTrace
<1>3. /\ consumed \in [Chain -> SUBSET created]
      /\ effects \in [Apps -> [Attempts -> Nat]]
      /\ root.dest \in Apps /\ root.payload \in Attempts
  BY DEF TransportInv, TypeOK, Root
<1>4. new.chain = c /\ new.root = root
  OBVIOUS
<1>5. Applied' = IF AppHome[root.dest] = c THEN Applied \cup {root} ELSE Applied
  BY <1>1, AppliedGrows
<1>6. \A x \in Applied : x \in created /\ x.dest \in Apps /\ x.payload \in Attempts
  BY <1>3 DEF Applied, DeliveryInv, ConsumedInv, TransportInv, TypeOK, Root
<1> HIDE DEF new
<1>7. ConsumedInv'
  <2>1. \A d \in Chain : consumed[d] \subseteq consumed'[d] /\ root \in consumed'[c]
    BY <1>1, <1>3
  <2> QED
    BY <1>1, <1>4, <2>1 DEF DeliveryInv, ConsumedInv
<1>8. DeliveredOnce'
  BY <1>1, <1>4 DEF DeliveryInv, ConsumedInv, DeliveredOnce
<1>9. CASE AppHome[root.dest] = c
  <2>1. effects[root.dest][root.payload] = 0
    BY <1>1, <1>9 DEF ReceiverAccepts
  <2>2. \A r \in Applied : <<r.dest, r.payload>> # <<root.dest, root.payload>>
    BY <2>1 DEF DeliveryInv, AppliedInv
  <2>3. \A x \in Apps, t \in Attempts :
           effects'[x][t] = IF x = root.dest /\ t = root.payload THEN 1 ELSE effects[x][t]
    BY <1>1, <1>3, <1>9, <2>1
  <2>4. EffectOnce'
    BY <2>3, <1>3 DEF DeliveryInv, EffectOnce
  <2>5. AppliedInv'
    BY <1>3, <1>5, <1>6, <1>9, <2>3 DEF DeliveryInv, AppliedInv
  <2> QED
    BY <1>2, <1>5, <1>7, <1>8, <1>9, <2>2, <2>4, <2>5
<1>10. CASE AppHome[root.dest] # c
  <2>1. effects' = effects /\ Applied' = Applied
    BY <1>1, <1>5, <1>10
  <2>2. AppliedInv' /\ EffectOnce'
    BY <2>1 DEF DeliveryInv, AppliedInv, EffectOnce
  <2> QED
    BY <1>2, <1>7, <1>8, <2>1, <2>2
<1> QED
  BY <1>9, <1>10

(* Every other step leaves what was delivered alone.                       *)
LEMMA NoDelivery ==
  ASSUME DeliveryInv, UNCHANGED <<consumed, deliveries, effects>>
  PROVE  ConsumedInv' /\ DeliveredOnce' /\ AppliedInv' /\ EffectOnce' /\ Applied' = Applied
BY DEF DeliveryInv, ConsumedInv, DeliveredOnce, AppliedInv, EffectOnce, Applied

(* Each step keeps DeliveryInv and is a step of the promise, or invisible  *)
(* to it.                                                                  *)
LEMMA RefinementStep ==
  ASSUME TransportInv, DeliveryInv, [Next]_vars
  PROVE  DeliveryInv' /\ [Promise!Next]_<<created, Applied>>
<1>1. ASSUME NEW c \in SourceChains, NEW s \in Senders, NEW x \in Apps, NEW t \in Attempts,
             NEW l \in Levels, NEW v \in Versions, CreateRecord(c, s, x, t, l, v)
      PROVE  DeliveryInv' /\ [Promise!Next]_<<created, Applied>>
  <2>1. /\ \E root \in Root \ created : created' = created \cup {root}
        /\ NonceInv' /\ UNCHANGED outcomeVars
    BY <1>1, FreshRecord DEF DeliveryInv
  <2>2. ConsumedInv' /\ DeliveredOnce' /\ AppliedInv' /\ EffectOnce' /\ Applied' = Applied
    BY <2>1, NoDelivery DEF outcomeVars
  <2>3. Promise!Next
    BY <2>1, <2>2 DEF Promise!Next, Promise!Create
  <2> QED
    BY <2>1, <2>2, <2>3 DEF DeliveryInv
<1>2. ASSUME UNCHANGED <<created, nextNonce>>, NEW c \in Chain, NEW root \in Root,
             NEW receipts, Deliver(c, root, receipts)
      PROVE  DeliveryInv' /\ [Promise!Next]_<<created, Applied>>
  <2>1. /\ ConsumedInv' /\ DeliveredOnce' /\ AppliedInv' /\ EffectOnce'
        /\ root \in created
        /\ \/ Applied' = Applied
           \/ /\ Applied' = Applied \cup {root}
              /\ \A r \in Applied : <<r.dest, r.payload>> # <<root.dest, root.payload>>
    BY <1>2, DeliveryStep
  <2>2. NonceInv'
    BY <1>2 DEF DeliveryInv, NonceInv
  <2>3. [Promise!Next]_<<created, Applied>>
    BY <1>2, <2>1 DEF Promise!Next, Promise!Apply
  <2> QED
    BY <2>1, <2>2, <2>3 DEF DeliveryInv
<1>3. ASSUME UNCHANGED <<created, nextNonce, consumed, deliveries, effects>>
      PROVE  DeliveryInv' /\ [Promise!Next]_<<created, Applied>>
  BY <1>3, NoDelivery DEF DeliveryInv, NonceInv
<1>4. CASE UNCHANGED <<created, nextNonce>>
  BY <1>2, <1>3, <1>4, OutcomeChange DEF outcomeVars, RecordTransition
<1> QED
  BY <1>1, <1>4, GatewayChange

(* Nothing is delivered twice and no attempt has two effects, throughout.  *)
THEOREM DeliveryInvariant == Spec => []DeliveryInv
<1>1. Init => DeliveryInv
  BY DEF Init, DeliveryInv, NonceInv, ConsumedInv, DeliveredOnce, AppliedInv, EffectOnce, Applied
<1>2. TransportInv /\ DeliveryInv /\ [Next]_vars => DeliveryInv'
  BY RefinementStep
<1> QED
  BY <1>1, <1>2, TransportInvariant, PTL DEF Spec

(* A gateway delivers a message once (XIRGateway.consumed).                *)
THEOREM MessageOnce == Spec => []DeliveredOnce
<1>1. DeliveryInv => DeliveredOnce
  BY DEF DeliveryInv
<1> QED
  BY <1>1, DeliveryInvariant, PTL

(* An attempt takes effect at most once at an application, also when it is *)
(* retried under a new record (NativeMultihopReceiver).                    *)
THEOREM AttemptOnce == Spec => []EffectOnce
<1>1. DeliveryInv => EffectOnce
  BY DEF DeliveryInv
<1> QED
  BY <1>1, DeliveryInvariant, PTL

(* The gateways, adapters and receivers implement XIRDelivery.             *)
THEOREM Implementation == Spec => ImplementsDelivery
<1>1. Init => Promise!Init
  BY DEF Init, Promise!Init, Applied
<1>2. TransportInv /\ DeliveryInv /\ [Next]_vars => [Promise!Next]_<<created, Applied>>
  BY RefinementStep
<1> QED
  BY <1>1, <1>2, TransportInvariant, DeliveryInvariant, PTL
     DEF Spec, ImplementsDelivery, Promise!Spec
=============================================================================
