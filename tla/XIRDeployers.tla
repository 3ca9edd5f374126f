---------------------------- MODULE XIRDeployers ----------------------------
(***************************************************************************)
(* The deployers of the native applications: three chains with homogeneous *)
(* and XIR routes side by side (native/deployer.py), and a chain per hop   *)
(* with adapters of their own for every route                              *)
(* (native/multihop_deployer.py).  A deployer sends its operations one by  *)
(* one, each a journalled transaction it waits for, and writes the         *)
(* deployment document at the end; it may die, run into a revert or stop   *)
(* waiting for a receipt at any operation, and the operator starts it      *)
(* over.  An address is the chain and the nonce of its creation.           *)
(***************************************************************************)
EXTENDS Integers, Sequences, FiniteSets, SequencesExt

CONSTANTS
    Route,          \* the multihop routes: [id -> sequence of "H" and "L"]
    MaxSetbacks     \* deaths, reverts and expired waits of a deployer

VARIABLES
    app,            \* the application: "native", "multihop"
    dpc,            \* the deployer: "off" or where it is in _send
    k,              \* the operation it is at; 0 before the first run
    built,          \* the transaction it has built
    manifest,       \* [<<role, key>> -> address], memory
    nonces,         \* [role -> nonce], memory
    journal,        \* deployment-journal.jsonl: how many intents and successes
    site,           \* [address -> contract: arguments and settings], per chain
    count,          \* [role -> transactions mined]
    flight,         \* transactions the nodes have taken and not mined, in order
    document,       \* deployment.json
    setbacks

dvars == <<app, dpc, k, built, manifest, nonces, journal, site, count, flight,
           document, setbacks>>
-----------------------------------------------------------------------------
(* Operations.  An argument that is a pair names a contract of the         *)
(* manifest by its role and key.                                           *)

Deploy(role, key, args) == [do |-> "deploy", role |-> role, key |-> key, set |-> <<>>, args |-> args]
Call(role, key, set, args) == [do |-> "call", role |-> role, key |-> key, set |-> set, args |-> args]

Each(seq, F(_)) == FlattenSeq([i \in DOMAIN seq |-> F(seq[i])])
Upto(m, n) == [i \in 1..n - m + 1 |-> m + i - 1]
-----------------------------------------------------------------------------
(* Three chains: source, intermediate, destination. *)

NativeRoles == <<"source", "intermediate", "destination">>

NativeGateways == Each(NativeRoles, LAMBDA r :
    <<Deploy(r, <<"registry">>, <<>>), Deploy(r, <<"gateway">>, <<<<r, <<"registry">>>>>>)>>)

(* Keys of the adapters of one carrier, with the chain each is on. *)
Keys(p) ==
    [source |-> <<p, "source">>, in |-> <<p, "in">>, homOut |-> <<p, "hom_out">>,
     xirOut |-> <<p, "xir_out">>, homIn |-> <<p, "hom_in">>, xirIn |-> <<p, "xir_in">>]

NativeAdapters == Each(<<"h", "l">>, LAMBDA p :
    <<Deploy("source", Keys(p).source, <<<<p>>>>), Deploy("intermediate", Keys(p).in, <<<<p>>>>),
      Deploy("intermediate", Keys(p).homOut, <<<<p>>>>), Deploy("intermediate", Keys(p).xirOut, <<<<p>>>>),
      Deploy("destination", Keys(p).homIn, <<<<p>>>>), Deploy("destination", Keys(p).xirIn, <<<<p>>>>)>>)

RouteContracts ==
    <<Deploy("intermediate", <<"forwarder">>,
             [i \in 1..4 |-> <<"intermediate", <<Keys("h").in, Keys("h").homOut, Keys("l").in, Keys("l").homOut>>[i]>>]),
      Call("intermediate", <<"forwarder">>, <<"fund">>, <<>>),
      Deploy("intermediate", <<"recorder">>, <<<<"intermediate", <<"gateway">>>>>>),
      Deploy("destination", <<"receiver">>,
             <<<<"destination", Keys("h").homIn>>, <<"destination", Keys("l").homIn>>, <<"destination", <<"gateway">>>>>>),
      Call("intermediate", Keys("h").homOut, <<"runner">>, <<<<"intermediate", <<"forwarder">>>>>>),
      Call("intermediate", Keys("l").homOut, <<"runner">>, <<<<"intermediate", <<"forwarder">>>>>>)>>

Peers(a, b) == <<Call(a[1], a[2], <<"peer">>, <<b>>), Call(b[1], b[2], <<"peer">>, <<a>>)>>

NativePeers ==
    Each(<<"h", "l">>, LAMBDA p :
        Peers(<<"source", Keys(p).source>>, <<"intermediate", Keys(p).in>>)
        \o Peers(<<"intermediate", Keys(p).homOut>>, <<"destination", Keys(p).homIn>>)
        \o Peers(<<"intermediate", Keys(p).xirOut>>, <<"destination", Keys(p).xirIn>>))
    \o Each(SetToSeq({<<"source", Keys("l").source>>, <<"intermediate", Keys("l").in>>,
                      <<"intermediate", Keys("l").homOut>>, <<"intermediate", Keys("l").xirOut>>,
                      <<"destination", Keys("l").homIn>>, <<"destination", Keys("l").xirIn>>}),
            LAMBDA a : <<Call(a[1], a[2], <<"options">>, <<>>)>>)

(* Both outbound XIR adapters know the verifier of either first hop; the   *)
(* homogeneous routes hand over to the forwarder and to the receiver.      *)
NativeRoutes ==
    Each(<<"h", "l">>, LAMBDA out : Each(<<"h", "l">>, LAMBDA p :
        <<Call("intermediate", Keys(out).xirOut, <<"prior", p, 1>>, <<<<"intermediate", Keys(p).in>>>>)>>))
    \o Each(<<"h", "l">>, LAMBDA p :
        <<Call("intermediate", Keys(p).in, <<"baseline", p>>, <<<<"intermediate", <<"forwarder">>>>>>),
          Call("destination", Keys(p).homIn, <<"baseline", p>>, <<<<"destination", <<"receiver">>>>>>)>>)

(* mutant: at the destination a first hop is looked up with its own carrier *)
NativeRegistries_SameCarrier ==
    <<Call("intermediate", <<"registry">>, <<"root">>, <<>>), Call("destination", <<"registry">>, <<"root">>, <<>>)>>
    \o Each(<<"h", "l">>, LAMBDA p :
        <<Call("intermediate", <<"registry">>, <<"profile", p, 1>>, <<<<"intermediate", Keys(p).in>>>>),
          Call("destination", <<"registry">>, <<"profile", p, 1>>, <<<<"destination", Keys(p).xirIn>>>>),
          Call("destination", <<"registry">>, <<"profile", p, 2>>, <<<<"destination", Keys(p).xirIn>>>>)>>)

(* A first hop is verified at the destination by the inbound adapter of    *)
(* the other carrier, which brought its evidence along.                    *)
NativeRegistries ==
    <<Call("intermediate", <<"registry">>, <<"root">>, <<>>), Call("destination", <<"registry">>, <<"root">>, <<>>)>>
    \o Each(<<<<"h", "l">>, <<"l", "h">>>>, LAMBDA pq :
        <<Call("intermediate", <<"registry">>, <<"profile", pq[1], 1>>, <<<<"intermediate", Keys(pq[1]).in>>>>),
          Call("destination", <<"registry">>, <<"profile", pq[1], 1>>, <<<<"destination", Keys(pq[2]).xirIn>>>>),
          Call("destination", <<"registry">>, <<"profile", pq[1], 2>>, <<<<"destination", Keys(pq[1]).xirIn>>>>)>>)
-----------------------------------------------------------------------------
(* A chain per hop. *)

RouteIds == SetToSeq(DOMAIN Route)
Hops(r) == Len(Route[r])
LastRole == CHOOSE n \in 0..10 : (\A r \in DOMAIN Route : Hops(r) <= n) /\ \E r \in DOMAIN Route : Hops(r) = n

(* The chains of the routes, A being number 0. *)
Chain(i) == <<"A", "B", "C", "D", "E", "F">>[i + 1]

Adapter(r, hop, dir) == <<Chain(IF dir = "out" THEN hop - 1 ELSE hop), <<r, hop, dir>>>>

MultihopGateways == Each(Upto(0, LastRole), LAMBDA i :
    LET role == Chain(i) gateway == <<role, <<"gateway">>>>
    IN <<Deploy(role, <<"registry">>, <<>>), Deploy(role, <<"gateway">>, <<<<role, <<"registry">>>>>>)>>
       \o (IF i > 0 THEN <<Deploy(role, <<"receiver">>, <<gateway>>)>> ELSE <<>>)
       \o (IF i \in 1..LastRole - 1 THEN <<Deploy(role, <<"recorder">>, <<gateway>>)>> ELSE <<>>))

RouteAdapters == Each(RouteIds, LAMBDA r : Each(Upto(1, Hops(r)), LAMBDA hop :
    LET out == Adapter(r, hop, "out") in == Adapter(r, hop, "in")
    IN <<Deploy(out[1], out[2], <<<<Route[r][hop]>>>>), Deploy(in[1], in[2], <<<<Route[r][hop]>>>>)>>))

(* Every hop so far is verified by the inbound adapter of the last one. *)
Priors(r, hop) == Each(Upto(1, hop - 1), LAMBDA j :
    <<Call(Chain(hop - 1), Adapter(r, hop, "out")[2], <<"prior", r, j>>, <<Adapter(r, hop - 1, "in")>>)>>)

ConfigureAdapters == Each(RouteIds, LAMBDA r : Each(Upto(1, Hops(r)), LAMBDA hop :
    LET out == Adapter(r, hop, "out") in == Adapter(r, hop, "in")
    IN Peers(out, in)
       \o (IF Route[r][hop] = "L"
           THEN <<Call(out[1], out[2], <<"options">>, <<>>), Call(in[1], in[2], <<"options">>, <<>>)>> ELSE <<>>)
       \o Priors(r, hop)))

MultihopRegistries ==
    Each(Upto(1, LastRole), LAMBDA i : <<Call(Chain(i), <<"registry">>, <<"root">>, <<>>)>>)
    \o Each(RouteIds, LAMBDA r : Each(Upto(1, Hops(r)), LAMBDA done : Each(Upto(1, done), LAMBDA j :
        <<Call(Chain(done), <<"registry">>, <<"profile", r, j>>, <<Adapter(r, done, "in")>>)>>)))

Operations ==
    IF app = "native"
    THEN NativeGateways \o NativeAdapters \o RouteContracts \o NativePeers \o NativeRoutes \o NativeRegistries
    ELSE MultihopGateways \o RouteAdapters \o ConfigureAdapters \o MultihopRegistries

Roles == IF app = "native" THEN {"source", "intermediate", "destination"} ELSE {Chain(i) : i \in 0..LastRole}
-----------------------------------------------------------------------------
(* The deployer. *)

NoTx == [role |-> "none", n |-> 0, do |-> "none", to |-> <<>>, set |-> <<>>, args |-> <<>>]

Init ==
    /\ app \in {"native", "multihop"}
    /\ dpc = "off" /\ k = 0 /\ built = NoTx /\ manifest = <<>>
    /\ nonces = <<>> /\ journal = [intent |-> 0, succeeded |-> 0] /\ site = <<>>
    /\ count = [r \in Roles |-> 0] /\ flight = <<>>
    /\ document = <<>> /\ setbacks = 0

Bind(f, x, y) == [z \in DOMAIN f \cup {x} |-> IF z = x THEN y ELSE f[z]]

(* Nonces count on from the pending ones; the multihop deployer refuses a  *)
(* directory that exists, the native one adds to it.                       *)
Start ==
    /\ dpc = "off" /\ document = <<>>
    /\ app = "multihop" => k = 0
    /\ dpc' = "next" /\ k' = 1 /\ manifest' = <<>>
    /\ nonces' = [r \in Roles |-> count[r] + Len(SelectSeq(flight, LAMBDA tx : tx.role = r))]
    /\ UNCHANGED <<app, built, journal, site, count, flight, document, setbacks>>

(* deploy and call: arguments and target come from the manifest. *)
Build ==
    /\ dpc = "next" /\ k <= Len(Operations)
    /\ LET op == Operations[k]
       IN /\ built' = [role |-> op.role, n |-> nonces[op.role], do |-> op.do, set |-> op.set,
                       to |-> IF op.do = "call" THEN manifest[<<op.role, op.key>>] ELSE <<>>,
                       args |-> [i \in DOMAIN op.args |->
                                   IF op.args[i] \in DOMAIN manifest THEN manifest[op.args[i]] ELSE op.args[i]]]
          /\ journal' = [journal EXCEPT !.intent = @ + 1]
    /\ dpc' = "send"
    /\ UNCHANGED <<app, k, manifest, nonces, site, count, flight, document, setbacks>>

(* Signed, written down, and sent: its nonce is the next pending one. *)
Send ==
    /\ dpc = "send" /\ dpc' = "wait" /\ flight' = Append(flight, built)
    /\ UNCHANGED <<app, k, built, manifest, nonces, journal, site, count, document, setbacks>>

(* Chains mine in their own time, each in the order of the nonces. *)
Minable == {i \in DOMAIN flight : \A j \in 1..i - 1 : flight[j].role # flight[i].role}

(* A creation or a setting. *)
Mine ==
    /\ \E i \in Minable :
        LET tx == flight[i] at == <<tx.role, tx.n>>
        IN /\ site' = IF tx.do = "deploy" THEN Bind(site, at, [args |-> tx.args, conf |-> <<>>])
                      ELSE [site EXCEPT ![tx.to].conf = Bind(@, tx.set, tx.args)]
           /\ count' = [count EXCEPT ![tx.role] = @ + 1]
           /\ flight' = RemoveAt(flight, i)
    /\ UNCHANGED <<app, dpc, k, built, manifest, nonces, journal, document, setbacks>>

Succeed ==
    /\ dpc = "wait" /\ count[built.role] > built.n
    /\ journal' = [journal EXCEPT !.succeeded = @ + 1]
    /\ nonces' = [nonces EXCEPT ![built.role] = @ + 1]
    /\ manifest' = IF built.do = "deploy"
                   THEN Bind(manifest, <<built.role, Operations[k].key>>, <<built.role, built.n>>) ELSE manifest
    /\ dpc' = "next" /\ k' = k + 1
    /\ UNCHANGED <<app, built, site, count, flight, document, setbacks>>

(* The multihop document wants a success for every intent, and code at    *)
(* every target.                                                           *)
DocumentRefused ==
    app = "multihop" /\ (journal.succeeded # journal.intent
                         \/ \E name \in DOMAIN manifest : manifest[name] \notin DOMAIN site)

WriteDocument ==
    /\ dpc = "next" /\ k > Len(Operations)
    /\ document' = IF DocumentRefused THEN <<>> ELSE manifest
    /\ dpc' = "off"
    /\ UNCHANGED <<app, k, built, manifest, nonces, journal, site, count, flight, setbacks>>

(* The deployer dies or stops waiting; its transaction may still be mined. *)
Die ==
    /\ dpc # "off" /\ setbacks < MaxSetbacks
    /\ setbacks' = setbacks + 1 /\ dpc' = "off"
    /\ UNCHANGED <<app, k, built, manifest, nonces, journal, site, count, flight, document>>

(* Its transaction is mined and reverts, and it gives up. *)
Revert ==
    /\ dpc = "wait" /\ setbacks < MaxSetbacks
    /\ \E i \in Minable : /\ flight[i] = built /\ flight' = RemoveAt(flight, i)
                          /\ count' = [count EXCEPT ![flight[i].role] = @ + 1]
    /\ setbacks' = setbacks + 1 /\ dpc' = "off"
    /\ UNCHANGED <<app, k, built, manifest, nonces, journal, site, document>>

Next == Start \/ Build \/ Send \/ Mine \/ Succeed \/ WriteDocument \/ Die \/ Revert

Spec == Init /\ [][Next]_dvars /\ WF_dvars(Start \/ Build \/ Send \/ Succeed \/ WriteDocument) /\ WF_dvars(Mine)
-----------------------------------------------------------------------------
(* Properties *)

At(role, key) == document[<<role, key>>]
Conf(a, set) == IF a \in DOMAIN site /\ set \in DOMAIN site[a].conf THEN site[a].conf[set] ELSE <<<<"none", 0>>>>

(* The XIR routes of the application: [id -> hops, profiles, adapters]. *)
Trips ==
    IF app = "native"
    THEN {[roles |-> NativeRoles, profile |-> <<<<pq[1], 1>>, <<pq[2], 2>>>>,
           out |-> <<At("source", Keys(pq[1]).source), At("intermediate", Keys(pq[2]).xirOut)>>] :
              pq \in {<<"h", "l">>, <<"l", "h">>}}
    ELSE {[roles |-> [i \in 1..Hops(r) + 1 |-> Chain(i - 1)], profile |-> [j \in 1..Hops(r) |-> <<r, j>>],
           out |-> [j \in 1..Hops(r) |-> At(Chain(j - 1), Adapter(r, j, "out")[2])]] : r \in DOMAIN Route}

(* Registry a gateway reads. *)
RegistryOf(role) == site[At(role, <<"gateway">>)].args[1]

(* The evidence that adapters hold after h hops of a trip: <<adapter,      *)
(* hop>>.  A hop is taken when the outbound adapter finds each earlier hop *)
(* at the verifier bound to its profile, the two adapters name each other, *)
(* and the gateway it comes to finds every hop so far at the verifier its  *)
(* registry names.                                                         *)
Travels(t) ==
    LET n == Len(t.out)
        held[h \in 0..n] ==
            IF h = 0 THEN {<<<<"sender", 0>>, 0>>}
            ELSE LET before == held[h - 1]
                     to == Conf(t.out[h], <<"peer">>)[1]
                     after == before \cup {<<to, j>> : j \in 1..h}
                     prior(j) == <<"prior", t.profile[j][1], t.profile[j][2]>>
                     profile(j) == <<"profile", t.profile[j][1], t.profile[j][2]>>
                 IN IF /\ before # {} /\ Conf(to, <<"peer">>) = <<t.out[h]>>
                       /\ \A j \in 1..h - 1 : <<Conf(t.out[h], prior(j))[1], j>> \in before
                       /\ Conf(RegistryOf(t.roles[h + 1]), <<"root">>) = <<>>
                       /\ \A j \in 1..h : <<Conf(RegistryOf(t.roles[h + 1]), profile(j))[1], j>> \in after
                    THEN after ELSE {}
    IN /\ held[n] # {}
       /\ At(t.roles[n + 1], <<"gateway">>) \in {site[At(t.roles[n + 1], <<"receiver">>)].args[i] :
                                                i \in DOMAIN site[At(t.roles[n + 1], <<"receiver">>)].args}

(* A homogeneous route of the native application: the forwarder runs the   *)
(* second adapter, and the receiver accepts the last one.                  *)
Forwards(p) ==
    LET forwarder == At("intermediate", <<"forwarder">>)
        out == At("intermediate", Keys(p).homOut)
        in == At("destination", Keys(p).homIn)
    IN /\ Conf(At("source", Keys(p).source), <<"peer">>) = <<At("intermediate", Keys(p).in)>>
       /\ Conf(At("intermediate", Keys(p).in), <<"baseline", p>>) = <<forwarder>>
       /\ \E i \in {1, 3} : /\ site[forwarder].args[i] = At("intermediate", Keys(p).in)
                            /\ site[forwarder].args[i + 1] = out
       /\ Conf(out, <<"runner">>) = <<forwarder>> /\ Conf(out, <<"peer">>) = <<in>> /\ Conf(in, <<"peer">>) = <<out>>
       /\ Conf(in, <<"baseline", p>>) = <<At("destination", <<"receiver">>)>>
       /\ \E i \in {1, 2} : site[At("destination", <<"receiver">>)].args[i] = in

(* A document that exists describes an application that works: along every *)
(* route each hop finds the evidence of all the hops before it with the    *)
(* adapter that holds it, and the message reaches the receiver, whatever   *)
(* earlier runs of the deployer left behind on the chains (run,            *)
(* _configure_route_adapters, _configure_route_registries).                *)
DocumentIsWired ==
    document # <<>> =>
        /\ \A t \in Trips : Travels(t)
        /\ app = "native" => \A p \in {"h", "l"} : Forwards(p)
=============================================================================
