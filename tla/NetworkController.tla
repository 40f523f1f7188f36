------------------------- MODULE NetworkController -------------------------
(***************************************************************************)
(* The network controller, app/scripts/controllers/network/network.js: it  *)
(* keeps the configuration of the provider in use, replaces the client     *)
(* behind the provider proxy when the user changes networks, and asks each *)
(* new client (cfx_getStatus) which chain it is on.  Until the answer is   *)
(* there the network is "loading".  Answers of clients that were replaced  *)
(* meanwhile still come, in any order.                                     *)
(*                                                                         *)
(* An endpoint stands for a type of provider together with its RPC URL.    *)
(* Chain id and network id, which a node reports as one pair, are one      *)
(* value here, but are kept in as many places as in the code.              *)
(***************************************************************************)
EXTENDS Naturals, FiniteSets

CONSTANTS
  Endpoints,   \* RPC URLs, with the provider type they are used under
  TypeOf,      \* the provider type of each endpoint
  Chains,      \* chain (and network) ids
  ChainOf,     \* the chain the node behind each endpoint is on
  FixedChain,  \* the ids wired into the code for mainnet and testnet
  Start,       \* the endpoint a new installation starts with
  Loading,     \* 'loading'
  None,        \* undefined
  MaxSwitches, \* bound: changes of the provider
  MaxRestarts  \* bound: restarts of the background page

Types    == {"mainnet", "testnet", "localhost", "rpc"}
Standard == {"mainnet", "testnet"}

ASSUME TypeAssumption  == TypeOf \in [Endpoints -> Types]
ASSUME ChainAssumption == /\ ChainOf \in [Endpoints -> Chains]
                          /\ FixedChain \in [Standard -> Chains]
ASSUME StartAssumption == Start \in Endpoints
ASSUME MarksAssumption == {Loading, None} \cap Chains = {} /\ Loading # None
(* The public nodes are on the chains their type stands for. *)
ASSUME StandardAssumption ==
  \A e \in Endpoints : TypeOf[e] \in Standard => ChainOf[e] = FixedChain[TypeOf[e]]

VARIABLES
  provider,      \* providerStore: the endpoint with its chainId, networkId
  client,        \* the provider behind the proxy: endpoint, middleware's id
  networkConfig, \* networkConfig.network
  rpcChain,      \* networks.networkList['rpc'].chainId
  network,       \* networkStore
  lookups,       \* how many calls of lookupNetwork of each kind wait
  customRpc,     \* endpoints updateAndSetCustomRpc is asking
  disk,          \* the provider configuration that was last saved
  lost,          \* history: a lookup failed since the last switch
  raced,         \* history: the last switch left lookups of other endpoints
  switches,      \* counts switches
  restarts       \* counts restarts

netVars == <<provider, client, networkConfig, rpcChain, network, lookups,
             customRpc, disk, lost, raced, switches, restarts>>

Configs == [at : Endpoints, chainId : Chains \cup {None},
            networkId : Chains \cup {None}]
Clients == [at : Endpoints, net : Chains \cup {None}]
(* The provider lookupNetwork asks, and the network state it starts from. *)
Lookups == [at : Endpoints, initial : Chains \cup {Loading}]

NetTypeOK ==
  /\ provider \in Configs
  /\ client \in Clients
  /\ networkConfig \in Chains \cup {None}
  /\ rpcChain \in Chains \cup {None}
  /\ network \in Chains \cup {Loading}
  /\ lookups \in [Lookups -> Nat]
  /\ customRpc \subseteq Endpoints
  /\ disk \in Configs
  /\ lost \in BOOLEAN
  /\ raced \in BOOLEAN
  /\ switches \in Nat
  /\ restarts \in Nat

LookupAt(e) == [at |-> e, initial |-> Loading]

FirstConfig == [at |-> Start, chainId |-> None, networkId |-> None]

(* The network id settings get from a configuration, or `old` if none do. *)
ConfiguredId(e, net, old) ==
  CASE TypeOf[e] \in Standard  -> FixedChain[TypeOf[e]]
    [] TypeOf[e] = "rpc"       -> net
    [] TypeOf[e] = "localhost" -> old

(* The constructor and initializeProvider, for a saved configuration. *)
FirstClient(config) == [at |-> config.at, net |-> config.networkId]
FirstSettings(config) == ConfiguredId(config.at, config.networkId, None)
FirstRpcChain(config) == IF TypeOf[config.at] = "rpc" THEN config.chainId ELSE None
(* initializeProvider and the constructor of MetamaskController look up. *)
FirstLookups(config) ==
  [l \in Lookups |-> IF l = LookupAt(config.at) THEN 2 ELSE 0]

NetInit ==
  /\ provider = FirstConfig
  /\ client = FirstClient(FirstConfig)
  /\ networkConfig = FirstSettings(FirstConfig)
  /\ rpcChain = FirstRpcChain(FirstConfig)
  /\ network = Loading
  /\ lookups = FirstLookups(FirstConfig)
  /\ customRpc = {}
  /\ disk = FirstConfig
  /\ lost = FALSE
  /\ raced = FALSE
  /\ switches = 0
  /\ restarts = 0

-----------------------------------------------------------------------------

(* _configureProvider: a new client; localhost has no settings of its own. *)
ConfigureProvider(e, chain, net) ==
  /\ client' = [at |-> e, net |-> provider'.networkId]
  /\ networkConfig' = ConfiguredId(e, net, networkConfig)
  /\ rpcChain' = IF TypeOf[e] = "rpc" THEN chain ELSE rpcChain

(* Mutant of SetNetworkState: the entry of networkList is not consulted. *)
TypeIsEnough(answer, type, known) ==
  IF type \in Standard THEN FixedChain[type] ELSE known

(* setNetworkState: what is stored for the answer of a lookup of a type. *)
SetNetworkState(answer, type, known) ==
  CASE type \in Standard              -> FixedChain[type]
    [] type = "rpc" /\ known # None   -> known
    [] OTHER                          -> answer

Asked(ls, e, k) == [ls EXCEPT ![LookupAt(e)] = @ + k]

Waiting(l) == lookups[l] > 0

(* Mutant of SwitchNetwork: the network is not reset to "loading". *)
SwitchKeepingNetwork(config, net, k) ==
  /\ switches < MaxSwitches
  /\ switches' = switches + 1
  /\ provider' = config
  /\ UNCHANGED network
  /\ ConfigureProvider(config.at, config.chainId, net)
  /\ lookups' = Asked(lookups, config.at, k)
  /\ lost' = FALSE
  /\ raced' = \E l \in Lookups : Waiting(l) /\ l.at # config.at

(* Mutant of SwitchNetwork: nobody listens to networkDidChange. *)
SwitchWithoutLookup(config, net, k) ==
  /\ switches < MaxSwitches
  /\ switches' = switches + 1
  /\ provider' = config
  /\ network' = Loading
  /\ ConfigureProvider(config.at, config.chainId, net)
  /\ lookups' = Asked(lookups, config.at, k - 1)
  /\ lost' = FALSE
  /\ raced' = \E l \in Lookups : Waiting(l) /\ l.at # config.at

(***************************************************************************)
(* The setter of providerConfig: the store is updated (a field the new     *)
(* configuration lacks keeps its value), the network is loading, and       *)
(* networkDidChange starts a lookup; k counts the lookups the caller adds  *)
(* up to, and net is the network id among the new settings.                *)
(***************************************************************************)
SwitchNetwork(config, net, k) ==
  /\ switches < MaxSwitches
  /\ switches' = switches + 1
  /\ provider' = config
  /\ network' = Loading
  /\ ConfigureProvider(config.at, config.chainId, net)
  /\ lookups' = Asked(lookups, config.at, k)
  /\ lost' = FALSE
  /\ raced' = \E l \in Lookups : Waiting(l) /\ l.at # config.at

(* setRpcTarget from setCustomRpc, with the chain id stored or typed in. *)
SetRpcTarget(e, chain) ==
  /\ TypeOf[e] = "rpc"
  /\ SwitchNetwork([at |-> e, chainId |-> chain,
                    networkId |-> provider.networkId], None, 1)
  /\ UNCHANGED <<customRpc, disk, restarts>>

(* setProviderType: chainId is undefined, so it looks up once more. *)
SetProviderType(e) ==
  /\ TypeOf[e] # "rpc"
  /\ SwitchNetwork([at |-> e, chainId |-> None,
                    networkId |-> provider.networkId], None, 2)
  /\ UNCHANGED <<customRpc, disk, restarts>>

(* resetConnection, from resetAccount: the same configuration once more. *)
ResetConnection ==
  /\ SwitchNetwork(provider, provider.networkId, 1)
  /\ UNCHANGED <<customRpc, disk, restarts>>

(* updateAndSetCustomRpc asks the node for its chain ... *)
UpdateCustomRpc(e) ==
  /\ TypeOf[e] = "rpc"
  /\ e \notin customRpc
  /\ switches < MaxSwitches
  /\ customRpc' = customRpc \cup {e}
  /\ UNCHANGED <<provider, client, networkConfig, rpcChain, network, lookups,
                 disk, lost, raced, switches, restarts>>

(* ... and switches to it when the answer is there, whatever is selected. *)
CustomRpcAnswer(e) ==
  /\ e \in customRpc
  /\ customRpc' = customRpc \ {e}
  /\ SwitchNetwork([at |-> e, chainId |-> ChainOf[e],
                    networkId |-> provider.networkId], None, 1)
  /\ UNCHANGED <<disk, restarts>>

CustomRpcFails(e) ==
  /\ e \in customRpc
  /\ customRpc' = customRpc \ {e}
  /\ UNCHANGED <<provider, client, networkConfig, rpcChain, network, lookups,
                 disk, lost, raced, switches, restarts>>

-----------------------------------------------------------------------------

(* An answer counts only if the state is the one the lookup started from. *)
LookupAccepted(l) == l.initial = network

(* Mutant of LookupAnswer: the provider is not configured with the answer. *)
AnswerOnlyNetwork(l) ==
  /\ Waiting(l)
  /\ LookupAccepted(l)
  /\ network' = SetNetworkState(ChainOf[l.at], TypeOf[l.at], rpcChain)
  /\ lookups' = [lookups EXCEPT ![l] = @ - 1]
  /\ lost' = FALSE
  /\ UNCHANGED <<provider, client, networkConfig, rpcChain, customRpc, disk,
                 raced, switches, restarts>>

(***************************************************************************)
(* The chain is known: the configuration in use gets the ids, a client is  *)
(* made anew and looked up once more, and the network is set from the      *)
(* answer and the type the lookup remembers.                               *)
(***************************************************************************)
LookupAnswer(l) ==
  /\ Waiting(l)
  /\ LookupAccepted(l)
  /\ provider' = [provider EXCEPT !.chainId = ChainOf[l.at],
                                  !.networkId = ChainOf[l.at]]
  /\ ConfigureProvider(provider.at, ChainOf[l.at], ChainOf[l.at])
  /\ network' = SetNetworkState(ChainOf[l.at], TypeOf[l.at], rpcChain')
  /\ lookups' = Asked([lookups EXCEPT ![l] = @ - 1], provider.at, 1)
  /\ lost' = FALSE
  /\ UNCHANGED <<customRpc, disk, raced, switches, restarts>>

(* The node does not answer: the network is loading, and nobody asks again. *)
LookupFails(l) ==
  /\ Waiting(l)
  /\ LookupAccepted(l)
  /\ network' = Loading
  /\ lost' = TRUE
  /\ lookups' = [lookups EXCEPT ![l] = @ - 1]
  /\ UNCHANGED <<provider, client, networkConfig, rpcChain, customRpc, disk,
                 raced, switches, restarts>>

(* An answer, or an error, that comes too late. *)
LookupIgnored(l) ==
  /\ Waiting(l)
  /\ ~LookupAccepted(l)
  /\ lookups' = [lookups EXCEPT ![l] = @ - 1]
  /\ UNCHANGED <<provider, client, networkConfig, rpcChain, network, customRpc,
                 disk, lost, raced, switches, restarts>>

(* The provider configuration is saved with the state of the extension ... *)
PersistProvider ==
  /\ disk # provider
  /\ disk' = provider
  /\ UNCHANGED <<provider, client, networkConfig, rpcChain, network, lookups,
                 customRpc, lost, raced, switches, restarts>>

(* ... and is all that is left of the controller after a restart. *)
RestartNetwork ==
  /\ restarts < MaxRestarts
  /\ restarts' = restarts + 1
  /\ provider' = disk
  /\ client' = FirstClient(disk)
  /\ networkConfig' = FirstSettings(disk)
  /\ rpcChain' = FirstRpcChain(disk)
  /\ network' = Loading
  /\ lookups' = FirstLookups(disk)
  /\ customRpc' = {}
  /\ lost' = FALSE
  /\ raced' = FALSE
  /\ UNCHANGED <<disk, switches>>

-----------------------------------------------------------------------------

UserSwitches ==
  \/ \E e \in Endpoints, c \in Chains \cup {None} : SetRpcTarget(e, c)
  \/ \E e \in Endpoints : SetProviderType(e) \/ CustomRpcAnswer(e)
  \/ ResetConnection

LookupEnds(l) == LookupAnswer(l) \/ LookupFails(l) \/ LookupIgnored(l)

NetNext ==
  \/ UserSwitches
  \/ \E e \in Endpoints : UpdateCustomRpc(e) \/ CustomRpcFails(e)
  \/ \E l \in Lookups : LookupEnds(l)
  \/ PersistProvider
  \/ RestartNetwork

NetSpec == NetInit /\ [][NetNext]_netVars

(* Every request ends: the answer, an error or a timeout. *)
NetFairness == \A l \in Lookups : WF_netVars(LookupEnds(l))

NetFairSpec == NetSpec /\ NetFairness

-----------------------------------------------------------------------------
(***************************************************************************)
(* Properties.                                                             *)
(***************************************************************************)

(***************************************************************************)
(* Once known, the network is that of the node requests go to, and the     *)
(* five places that remember it agree, unless the user switched while a    *)
(* lookup of another endpoint was waiting.  Localhost is left out of the   *)
(* settings, which the code does not touch then.                           *)
(***************************************************************************)
NetworkIsOfProvider ==
  network # Loading /\ ~raced =>
    /\ network = ChainOf[client.at]
    /\ provider.at = client.at
    /\ provider.chainId = network
    /\ provider.networkId = network
    /\ client.net = network
    /\ TypeOf[client.at] # "localhost" => networkConfig = network

(***************************************************************************)
(* However late the answers of earlier lookups come, they never change a   *)
(* network that is known: only a switch or a restart does.                 *)
(***************************************************************************)
FoundIsStable ==
  [][network # Loading /\ network' # network
     => switches' # switches \/ restarts' # restarts]_netVars

(***************************************************************************)
(* While the network is loading, a lookup of the client in use is on its   *)
(* way, unless one failed since the last switch.                           *)
(***************************************************************************)
LoadingIsLookedUp ==
  network = Loading /\ ~lost => Waiting(LookupAt(client.at))

(* So the network does not stay loading, unless a lookup failed. *)
NetworkSettles == network = Loading ~> network # Loading \/ lost

(***************************************************************************)
(* The controller implements NetworkView, on which AccountTracker builds.  *)
(***************************************************************************)
View == INSTANCE NetworkView WITH at <- client.at

ImplementsView == View!ViewSpec
=============================================================================
