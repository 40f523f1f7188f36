------------------------ MODULE MCNetworkController ------------------------
(***************************************************************************)
(* Small instances of NetworkController for TLC: mainnet, two custom       *)
(* endpoints on different chains, and a local node.                        *)
(***************************************************************************)
EXTENDS NetworkController, TLC

CONSTANTS main, rpcA, rpcB, local, c1029, cA, cB

MCTypeOf == [e \in Endpoints |-> CASE e = main  -> "mainnet"
                                   [] e = local -> "localhost"
                                   [] OTHER     -> "rpc"]
MCChainOf == [e \in Endpoints |-> CASE e = main -> c1029
                                    [] e = rpcA -> cA
                                    [] OTHER    -> cB]
MCFixedChain == [t \in Standard |-> IF t = "mainnet" THEN c1029 ELSE cB]
=============================================================================
