-------------------------- MODULE MCExplorerReport --------------------------
(***************************************************************************)
(* A small instance of ExplorerReport for TLC: avalanche with two          *)
(* explorers, whose heading without an explorer is read as another key,    *)
(* and okx.                                                                *)
(***************************************************************************)
EXTENDS ExplorerReport

CONSTANTS avalanche, okx

Of(first, second) == [c \in {avalanche, okx} |-> IF c = avalanche THEN first ELSE second]

MCExplorersOf == Of(<<"routescan", "etherscan">>, <<"default">>)
MCMaxEntriesOf == Of(1, 2)

MCSectionOrder == <<"avalanche routescan", "avalanche etherscan", "okx">>
MCKeysOf == Of(<<"avalanche routescan", "avalanche etherscan">>, <<"okx">>)
MCErrorKey == Of("avalanche", "okx")
MCParsedKey ==
    [k \in Range(MCSectionOrder) \cup {"avalanche", "Avalanche"} |->
        IF k = "avalanche" THEN "Avalanche" ELSE k]

=============================================================================
