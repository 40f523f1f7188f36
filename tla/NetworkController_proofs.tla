---------------------- MODULE NetworkController_proofs ----------------------
(***************************************************************************)
(* Proofs about NetworkController, for every set of endpoints and chains   *)
(* and every number of switches and restarts.                              *)
(*                                                                         *)
(* All properties rest on one fact: a lookup is only ever started while    *)
(* the network is loading, so its answer is applied only to a network      *)
(* that is still, or again, loading.                                       *)
(***************************************************************************)
EXTENDS NetworkController, TLAPS

StartedLoading == \A l \in Lookups : Waiting(l) => l.initial = Loading
SameEndpoint   == client.at = provider.at
OwnLookups     == ~raced => \A l \in Lookups : Waiting(l) => l.at = client.at

NetInv ==
  /\ NetTypeOK
  /\ StartedLoading
  /\ SameEndpoint
  /\ OwnLookups
  /\ LoadingIsLookedUp
  /\ NetworkIsOfProvider

USE TypeAssumption, ChainAssumption, StartAssumption, MarksAssumption

LEMMA ConfiguredIdType ==
  ASSUME NEW e \in Endpoints, NEW net \in Chains \cup {None},
         NEW old \in Chains \cup {None}
  PROVE  ConfiguredId(e, net, old) \in Chains \cup {None}
BY DEF ConfiguredId, Standard, Types

LEMMA SetNetworkStateType ==
  ASSUME NEW n \in Chains, NEW t \in Types, NEW known \in Chains \cup {None}
  PROVE  SetNetworkState(n, t, known) \in Chains
BY DEF SetNetworkState, Standard, Types

LEMMA LookupAtType == ASSUME NEW e \in Endpoints PROVE LookupAt(e) \in Lookups
BY DEF LookupAt, Lookups

(* The steps that start lookups add them at one endpoint only. *)
LEMMA AskedLookups ==
  ASSUME NEW ls \in [Lookups -> Nat], NEW e \in Endpoints, NEW k \in Nat
  PROVE  /\ Asked(ls, e, k) \in [Lookups -> Nat]
         /\ Asked(ls, e, k)[LookupAt(e)] = ls[LookupAt(e)] + k
         /\ \A l \in Lookups : l # LookupAt(e) => Asked(ls, e, k)[l] = ls[l]
BY LookupAtType DEF Asked

LEMMA OneLookupLess ==
  ASSUME NEW l \in Lookups, lookups \in [Lookups -> Nat], Waiting(l)
  PROVE  /\ [lookups EXCEPT ![l] = @ - 1] \in [Lookups -> Nat]
         /\ \A m \in Lookups : [lookups EXCEPT ![l] = @ - 1][m] > 0 => Waiting(m)
         /\ \A m \in Lookups : m # l => [lookups EXCEPT ![l] = @ - 1][m] = lookups[m]
BY DEF Waiting

LEMMA NetInitInv == NetInit => NetInv
<1> SUFFICES ASSUME NetInit PROVE NetInv
  OBVIOUS
<1>1. FirstConfig \in Configs
  BY DEF FirstConfig, Configs
<1>2. NetTypeOK
  BY <1>1, ConfiguredIdType DEF NetInit, NetTypeOK, FirstClient, FirstSettings,
     FirstRpcChain, FirstLookups, FirstConfig, Configs, Clients
<1>3. \A l \in Lookups : Waiting(l) <=> l = LookupAt(Start)
  BY DEF NetInit, Waiting, FirstLookups, FirstConfig
<1>4. client.at = Start /\ provider.at = Start /\ network = Loading
  BY DEF NetInit, FirstClient, FirstConfig
<1> QED
  BY <1>2, <1>3, <1>4, LookupAtType DEF NetInv, StartedLoading, SameEndpoint,
     OwnLookups, LoadingIsLookedUp, NetworkIsOfProvider, LookupAt

(* A step that switches the provider, as the properties see it. *)
Switched == network' = Loading /\ switches' # switches

(* Every way to set the configuration of the provider. *)
LEMMA SwitchKeepsInv ==
  ASSUME NetInv, NEW config \in Configs, NEW net \in Chains \cup {None},
         NEW k \in Nat \ {0}, SwitchNetwork(config, net, k),
         customRpc' \subseteq Endpoints, disk' \in Configs, restarts' \in Nat
  PROVE  NetInv' /\ Switched
<1>0. config.at \in Endpoints /\ config.chainId \in Chains \cup {None}
  BY DEF Configs
<1>1. /\ lookups' = Asked(lookups, config.at, k)
      /\ lookups \in [Lookups -> Nat]
  BY DEF SwitchNetwork, NetInv, NetTypeOK
<1>2. client'.at = config.at /\ provider' = config /\ network' = Loading
  BY DEF SwitchNetwork, ConfigureProvider
<1>3. NetTypeOK'
  <2>1. client' \in Clients
    BY <1>0, <1>2 DEF SwitchNetwork, ConfigureProvider, Clients, Configs
  <2>2. networkConfig' \in Chains \cup {None} /\ rpcChain' \in Chains \cup {None}
    BY <1>0, ConfiguredIdType DEF SwitchNetwork, ConfigureProvider, NetInv, NetTypeOK
  <2>3. switches' \in Nat
    BY DEF SwitchNetwork, NetInv, NetTypeOK
  <2>6. raced' \in BOOLEAN /\ lost' \in BOOLEAN
    BY Zenon DEF SwitchNetwork
  <2>4. lookups' \in [Lookups -> Nat]
    BY <1>0, <1>1, AskedLookups
  <2>5. provider' \in Configs /\ network' \in Chains \cup {Loading}
    BY <1>2
  <2> QED
    BY <2>1, <2>2, <2>3, <2>4, <2>5, <2>6 DEF NetTypeOK
<1>4. \A l \in Lookups : Waiting(l)' => Waiting(l) \/ l = LookupAt(config.at)
  BY <1>0, <1>1, AskedLookups DEF Waiting
<1>5. StartedLoading'
  BY <1>4 DEF StartedLoading, NetInv, LookupAt
<1>6. OwnLookups'
  BY <1>2, <1>4 DEF OwnLookups, SwitchNetwork, LookupAt
<1>7. LoadingIsLookedUp'
  <2>1. lookups'[LookupAt(config.at)] = lookups[LookupAt(config.at)] + k
    BY <1>0, <1>1, AskedLookups
  <2>2. lookups'[LookupAt(config.at)] > 0
    BY <1>0, <1>1, <2>1, LookupAtType
  <2>3. LookupAt(client'.at) = LookupAt(config.at)
    BY <1>2
  <2> QED
    BY <2>2, <2>3 DEF LoadingIsLookedUp, Waiting, LookupAt
<1>8. SameEndpoint' /\ NetworkIsOfProvider'
  BY <1>2 DEF SameEndpoint, NetworkIsOfProvider
<1>9. Switched
  BY DEF Switched, SwitchNetwork, NetInv, NetTypeOK
<1> QED
  BY <1>3, <1>5, <1>6, <1>7, <1>8, <1>9 DEF NetInv

(* The answer that is applied. *)
LEMMA AnswerKeepsInv ==
  ASSUME NetInv, NEW l \in Lookups, LookupAnswer(l)
  PROVE  NetInv' /\ network = Loading /\ network' \in Chains
         /\ (raced \/ network' = ChainOf[client.at])
<1> DEFINE n == ChainOf[l.at]
<1>0. l.at \in Endpoints /\ n \in Chains /\ l.initial = Loading /\ network = Loading
  BY DEF Lookups, LookupAnswer, LookupAccepted, NetInv, StartedLoading
<1>1. /\ provider \in Configs /\ client \in Clients
      /\ networkConfig \in Chains \cup {None} /\ rpcChain \in Chains \cup {None}
      /\ lookups \in [Lookups -> Nat] /\ Waiting(l)
      /\ client.at = provider.at
  BY DEF NetInv, NetTypeOK, SameEndpoint, LookupAnswer
<1>2. provider.at \in Endpoints
  BY <1>1 DEF Configs
<1>3. /\ provider' \in Configs /\ provider'.at = provider.at
      /\ provider'.chainId = n /\ provider'.networkId = n
  BY <1>0, <1>1 DEF LookupAnswer, Configs
<1>4. client' = [at |-> provider.at, net |-> n]
  BY <1>3 DEF LookupAnswer, ConfigureProvider
<1>5. /\ networkConfig' = ConfiguredId(provider.at, n, networkConfig)
      /\ rpcChain' = IF TypeOf[provider.at] = "rpc" THEN n ELSE rpcChain
  BY DEF LookupAnswer, ConfigureProvider
<1>6. /\ networkConfig' \in Chains \cup {None}
      /\ rpcChain' \in Chains \cup {None}
  BY <1>0, <1>1, <1>2, <1>5, ConfiguredIdType
<1>7. network' \in Chains
  BY <1>0, <1>6, SetNetworkStateType DEF LookupAnswer
<1> DEFINE rest == [lookups EXCEPT ![l] = @ - 1]
<1>8. lookups' = Asked(rest, provider.at, 1)
  BY DEF LookupAnswer
<1>9. rest \in [Lookups -> Nat] /\ \A m \in Lookups : rest[m] > 0 => Waiting(m)
  BY <1>1, OneLookupLess
<1>10. /\ lookups' \in [Lookups -> Nat]
       /\ \A m \in Lookups : Waiting(m)' => Waiting(m) \/ m = LookupAt(provider.at)
  BY <1>2, <1>8, <1>9, AskedLookups DEF Waiting
<1>11. NetTypeOK'
  BY <1>2, <1>3, <1>4, <1>0, <1>6, <1>7, <1>10
     DEF NetTypeOK, LookupAnswer, NetInv, Clients
<1>12. StartedLoading'
  BY <1>10 DEF StartedLoading, NetInv, LookupAt
<1>13. SameEndpoint' /\ client'.at = client.at
  BY <1>1, <1>3, <1>4 DEF SameEndpoint
<1>14. OwnLookups'
  BY <1>1, <1>10, <1>13 DEF OwnLookups, NetInv, LookupAnswer, LookupAt
<1>15. LoadingIsLookedUp'
  BY <1>7 DEF LoadingIsLookedUp
<1>16. raced \/ (/\ l.at = provider.at
                 /\ network' = n
                 /\ TypeOf[provider.at] # "localhost" => networkConfig' = n)
  <2> SUFFICES ASSUME ~raced
               PROVE  /\ l.at = provider.at
                      /\ network' = n
                      /\ TypeOf[provider.at] # "localhost" => networkConfig' = n
    OBVIOUS
  <2>1. l.at = provider.at
    BY <1>1 DEF NetInv, OwnLookups
  <2>2. network' = SetNetworkState(n, TypeOf[provider.at], rpcChain')
    BY <2>1 DEF LookupAnswer
  <2>3. TypeOf[provider.at] \in Types
    BY <1>2
  <2>4. CASE TypeOf[provider.at] \in Standard
    <3>1. FixedChain[TypeOf[provider.at]] = n
      BY <2>1, <2>4, <1>2, StandardAssumption
    <3>2. network' = n /\ networkConfig' = n
      BY <2>2, <2>4, <3>1, <1>5 DEF SetNetworkState, ConfiguredId, Standard
    <3> QED
      BY <2>1, <3>2
  <2>5. CASE TypeOf[provider.at] = "rpc"
    BY <2>1, <2>2, <2>5, <1>0, <1>5 DEF SetNetworkState, ConfiguredId, Standard
  <2>6. CASE TypeOf[provider.at] = "localhost"
    BY <2>1, <2>2, <2>6 DEF SetNetworkState, Standard
  <2> QED
    BY <2>3, <2>4, <2>5, <2>6 DEF Types, Standard
<1>17. NetworkIsOfProvider'
  BY <1>3, <1>4, <1>16 DEF NetworkIsOfProvider, LookupAnswer
<1> QED
  BY <1>0, <1>1, <1>7, <1>11, <1>12, <1>13, <1>14, <1>15, <1>16, <1>17 DEF NetInv

LEMMA FailureKeepsInv ==
  ASSUME NetInv, NEW l \in Lookups, LookupFails(l)
  PROVE  NetInv' /\ network = Loading /\ network' = Loading
<1>1. network = Loading
  BY DEF LookupFails, LookupAccepted, NetInv, StartedLoading
<1>2. /\ lookups' \in [Lookups -> Nat]
      /\ \A m \in Lookups : Waiting(m)' => Waiting(m)
  BY OneLookupLess DEF LookupFails, NetInv, NetTypeOK, Waiting
<1>3. NetTypeOK'
  BY <1>2 DEF NetTypeOK, LookupFails, NetInv
<1> QED
  BY <1>1, <1>2, <1>3 DEF NetInv, LookupFails, StartedLoading, SameEndpoint,
     OwnLookups, LoadingIsLookedUp, NetworkIsOfProvider

LEMMA IgnoredKeepsInv ==
  ASSUME NetInv, NEW l \in Lookups, LookupIgnored(l)
  PROVE  NetInv'
<1>1. network # Loading
  BY DEF LookupIgnored, LookupAccepted, NetInv, StartedLoading
<1>2. /\ lookups' \in [Lookups -> Nat]
      /\ \A m \in Lookups : Waiting(m)' => Waiting(m)
  BY OneLookupLess DEF LookupIgnored, NetInv, NetTypeOK, Waiting
<1>3. NetTypeOK'
  BY <1>2 DEF NetTypeOK, LookupIgnored, NetInv
<1> QED
  BY <1>1, <1>2, <1>3 DEF NetInv, LookupIgnored, StartedLoading, SameEndpoint,
     OwnLookups, LoadingIsLookedUp, NetworkIsOfProvider

LEMMA RestartKeepsInv ==
  ASSUME NetInv, RestartNetwork
  PROVE  NetInv' /\ network' = Loading
<1>1. disk \in Configs /\ provider' = disk /\ network' = Loading
  BY DEF NetInv, NetTypeOK, RestartNetwork
<1>2. /\ disk.at \in Endpoints
      /\ disk.chainId \in Chains \cup {None}
      /\ disk.networkId \in Chains \cup {None}
  BY <1>1 DEF Configs
<1>3. NetTypeOK'
  <2>1. client' \in Clients /\ lookups' \in [Lookups -> Nat]
    BY <1>2 DEF RestartNetwork, FirstClient, FirstLookups, Clients
  <2>2. networkConfig' \in Chains \cup {None} /\ rpcChain' \in Chains \cup {None}
    BY <1>2, ConfiguredIdType DEF RestartNetwork, FirstSettings, FirstRpcChain
  <2>3. disk' = disk /\ customRpc' \subseteq Endpoints
    BY DEF RestartNetwork
  <2>4. switches' \in Nat /\ restarts' \in Nat
    BY DEF RestartNetwork, NetInv, NetTypeOK
  <2>5. lost' \in BOOLEAN /\ raced' \in BOOLEAN
    BY Zenon DEF RestartNetwork
  <2> QED
    BY <1>1, <2>1, <2>2, <2>3, <2>4, <2>5, Zenon DEF NetTypeOK
<1>4. /\ client'.at = disk.at
      /\ \A l \in Lookups : Waiting(l)' <=> l = LookupAt(disk.at)
  BY DEF RestartNetwork, FirstClient, FirstLookups, Waiting
<1> QED
  BY <1>1, <1>2, <1>3, <1>4, LookupAtType DEF NetInv, StartedLoading, SameEndpoint,
     OwnLookups, LoadingIsLookedUp, NetworkIsOfProvider, LookupAt

LEMMA UserSwitchesKeepInv ==
  ASSUME NetInv, UserSwitches
  PROVE  NetInv' /\ Switched
<1>0. /\ provider \in Configs /\ customRpc \subseteq Endpoints /\ disk \in Configs
      /\ restarts \in Nat /\ switches \in Nat
      /\ provider.networkId \in Chains \cup {None}
  BY DEF NetInv, NetTypeOK, Configs
<1>1. ASSUME NEW e \in Endpoints, NEW c \in Chains \cup {None}, SetRpcTarget(e, c)
      PROVE  NetInv' /\ Switched
  <2> DEFINE config == [at |-> e, chainId |-> c, networkId |-> provider.networkId]
  <2>1. config \in Configs
    BY <1>0 DEF Configs
  <2>2. SwitchNetwork(config, None, 1) /\ UNCHANGED <<customRpc, disk, restarts>>
    BY <1>1 DEF SetRpcTarget
  <2> QED
    BY <1>0, <2>1, <2>2, SwitchKeepsInv
<1>2. ASSUME NEW e \in Endpoints, SetProviderType(e) PROVE NetInv' /\ Switched
  <2> DEFINE config == [at |-> e, chainId |-> None, networkId |-> provider.networkId]
  <2>1. config \in Configs
    BY <1>0 DEF Configs
  <2>2. SwitchNetwork(config, None, 2) /\ UNCHANGED <<customRpc, disk, restarts>>
    BY <1>2 DEF SetProviderType
  <2> QED
    BY <1>0, <2>1, <2>2, SwitchKeepsInv
<1>3. ASSUME NEW e \in Endpoints, CustomRpcAnswer(e) PROVE NetInv' /\ Switched
  <2> DEFINE config == [at |-> e, chainId |-> ChainOf[e],
                        networkId |-> provider.networkId]
  <2>1. config \in Configs
    BY <1>0 DEF Configs
  <2>2. /\ SwitchNetwork(config, None, 1)
        /\ customRpc' = customRpc \ {e}
        /\ UNCHANGED <<disk, restarts>>
    BY <1>3 DEF CustomRpcAnswer
  <2> QED
    BY <1>0, <2>1, <2>2, SwitchKeepsInv
<1>4. CASE ResetConnection
  <2>1. SwitchNetwork(provider, provider.networkId, 1)
        /\ UNCHANGED <<customRpc, disk, restarts>>
    BY <1>4 DEF ResetConnection
  <2> QED
    BY <1>0, <2>1, SwitchKeepsInv
<1> QED
  BY <1>1, <1>2, <1>3, <1>4 DEF UserSwitches

LEMMA UnrelatedKeepsInv ==
  ASSUME NetInv,
         UNCHANGED <<provider, client, networkConfig, rpcChain, network, lookups,
                     lost, raced, switches, restarts>>,
         customRpc' \subseteq Endpoints, disk' \in Configs
  PROVE  NetInv'
BY DEF NetInv, NetTypeOK, StartedLoading, SameEndpoint, OwnLookups,
   LoadingIsLookedUp, NetworkIsOfProvider, Waiting

(***************************************************************************)
(* Every step keeps the invariant, and changes the network in one of four  *)
(* ways only.                                                              *)
(***************************************************************************)
NetStep ==
  \/ Switched
  \/ restarts' # restarts /\ network' = Loading
  \/ UNCHANGED <<network, raced>> /\ client'.at = client.at
  \/ /\ network = Loading /\ network' \in Chains
     /\ raced \/ network' = ChainOf[client.at]
     /\ raced' = raced /\ client'.at = client.at

LEMMA NetNextInv == NetInv /\ [NetNext]_netVars => NetInv' /\ NetStep
<1> SUFFICES ASSUME NetInv, [NetNext]_netVars PROVE NetInv' /\ NetStep
  OBVIOUS
<1>0. customRpc \subseteq Endpoints /\ disk \in Configs /\ provider \in Configs
      /\ restarts \in Nat
  BY DEF NetInv, NetTypeOK
<1>1. CASE UserSwitches
  BY <1>1, UserSwitchesKeepInv DEF NetStep
<1>2. ASSUME NEW e \in Endpoints, UpdateCustomRpc(e) \/ CustomRpcFails(e)
      PROVE  NetInv' /\ NetStep
  BY <1>0, <1>2, UnrelatedKeepsInv DEF UpdateCustomRpc, CustomRpcFails, NetStep
<1>3. ASSUME NEW l \in Lookups, LookupAnswer(l) PROVE NetInv' /\ NetStep
  <2>1. client'.at = provider.at /\ client.at = provider.at /\ raced' = raced
    BY <1>3 DEF LookupAnswer, ConfigureProvider, NetInv, SameEndpoint
  <2> QED
    BY <1>3, <2>1, AnswerKeepsInv DEF NetStep
<1>4. ASSUME NEW l \in Lookups, LookupFails(l) PROVE NetInv' /\ NetStep
  BY <1>4, FailureKeepsInv DEF NetStep, LookupFails
<1>5. ASSUME NEW l \in Lookups, LookupIgnored(l) PROVE NetInv' /\ NetStep
  BY <1>5, IgnoredKeepsInv DEF NetStep, LookupIgnored
<1>6. CASE PersistProvider
  BY <1>0, <1>6, UnrelatedKeepsInv DEF PersistProvider, NetStep
<1>7. CASE RestartNetwork
  <2>1. restarts' # restarts
    BY <1>0, <1>7 DEF RestartNetwork
  <2> QED
    BY <1>7, <2>1, RestartKeepsInv DEF NetStep
<1>8. CASE UNCHANGED netVars
  BY <1>0, <1>8, UnrelatedKeepsInv DEF netVars, NetStep
<1> QED
  BY <1>1, <1>2, <1>3, <1>4, <1>5, <1>6, <1>7, <1>8 DEF NetNext, LookupEnds

LEMMA NetInvariant == NetSpec => []NetInv
<1>1. NetInv /\ [NetNext]_netVars => NetInv'
  BY NetNextInv
<1> QED
  BY NetInitInv, <1>1, PTL DEF NetSpec

(* Every variable keeps its type through any switches and restarts.        *)
THEOREM NetworkTyped == NetSpec => []NetTypeOK
<1>1. NetInv => NetTypeOK
  BY DEF NetInv
<1> QED
  BY NetInvariant, <1>1, PTL

(***************************************************************************)
(* The network the wallet shows is that of the node it talks to, and every *)
(* place that remembers it agrees, unless a switch overtook the lookup of  *)
(* another endpoint.                                                       *)
(***************************************************************************)
THEOREM NetworkAgrees == NetSpec => []NetworkIsOfProvider
<1>1. NetInv => NetworkIsOfProvider
  BY DEF NetInv
<1> QED
  BY NetInvariant, <1>1, PTL

(* While it is loading and no lookup failed, the right node is being asked. *)
THEOREM LoadingLookedUp == NetSpec => []LoadingIsLookedUp
<1>1. NetInv => LoadingIsLookedUp
  BY DEF NetInv
<1> QED
  BY NetInvariant, <1>1, PTL

(***************************************************************************)
(* No late answer changes a network that is known.                         *)
(***************************************************************************)
THEOREM KnownNetworkStable == NetSpec => FoundIsStable
<1>1. NetInv /\ [NetNext]_netVars =>
        [network # Loading /\ network' # network
           => switches' # switches \/ restarts' # restarts]_netVars
  BY NetNextInv DEF NetStep, Switched
<1> QED
  BY NetInvariant, <1>1, PTL DEF NetSpec, FoundIsStable

(***************************************************************************)
(* The network controller implements the view the account tracker has of   *)
(* it: a switch or a restart is a change, an applied answer finds the      *)
(* network, everything else is hidden.                                     *)
(***************************************************************************)
THEOREM ViewImplemented == NetSpec => ImplementsView
<1>1. NetInit => View!ViewInit
  BY DEF NetInit, View!ViewInit, FirstClient, FirstConfig
<1>2. NetInv /\ NetInv' /\ [NetNext]_netVars => [View!ViewNext]_(View!view)
  <2> SUFFICES ASSUME NetInv, NetInv', [NetNext]_netVars
               PROVE  [View!ViewNext]_(View!view)
    OBVIOUS
  <2>1. client'.at \in Endpoints /\ raced' \in BOOLEAN
    BY DEF NetInv, NetTypeOK, Clients
  <2>2. CASE network' = Loading
    BY <2>1, <2>2 DEF View!ViewNext, View!Change
  <2>3. CASE UNCHANGED <<network, raced>> /\ client'.at = client.at
    BY <2>3 DEF View!view
  <2>4. CASE /\ network = Loading /\ network' \in Chains
             /\ raced \/ network' = ChainOf[client.at]
             /\ raced' = raced /\ client'.at = client.at
    BY <2>4 DEF View!ViewNext, View!Found
  <2> QED
    BY <2>2, <2>3, <2>4, NetNextInv DEF NetStep, Switched
<1> QED
  BY <1>1, <1>2, NetInvariant, PTL DEF NetSpec, ImplementsView, View!ViewSpec
=============================================================================
