---------------------------- MODULE NetworkView -----------------------------
(***************************************************************************)
(* What the other controllers see of the network controller: requests go   *)
(* to an endpoint, the network is "loading" or a chain id, and             *)
(* networkDidChange is emitted by every step that gives the proxy a new    *)
(* client.  NetworkController implements it; AccountTracker builds on it.  *)
(***************************************************************************)
CONSTANTS Endpoints, Chains, ChainOf, Start, Loading

VARIABLES
  at,       \* the endpoint behind the provider proxy
  network,  \* networkStore
  raced     \* the last change left lookups of other endpoints waiting

view == <<at, network, raced>>

ViewInit == at = Start /\ network = Loading /\ raced = FALSE

(* A new provider, or the same once more: its network is not known yet. *)
Change(e) ==
  /\ at' = e
  /\ network' = Loading
  /\ raced' \in BOOLEAN

(* The network is found: that of the endpoint, unless an answer was late. *)
Found(n) ==
  /\ network = Loading
  /\ raced \/ n = ChainOf[at]
  /\ network' = n
  /\ UNCHANGED <<at, raced>>

ViewNext == (\E e \in Endpoints : Change(e)) \/ (\E n \in Chains : Found(n))

ViewSpec == ViewInit /\ [][ViewNext]_view
=============================================================================
