---------------------------- MODULE ChainRegistry ----------------------------
(***************************************************************************)
(* The chain registry of src/bitcoin/chain.go and coins.go: GetChain maps  *)
(* a chain name to the capability record of its coin type and panics on a *)
(* name it does not know. A record keeps the chain name, the two digest    *)
(* functions (by name) and the share multiplier; the address patterns and  *)
(* the confirmation counts are read by code outside src/ (authorize,       *)
(* payouts) and are left out.                                              *)
(***************************************************************************)
EXTENDS Naturals

Coin(name, coinbaseDigest, headerDigest, shareMultiplier) ==
    [chainName |-> name, coinbaseDigest |-> coinbaseDigest,
     headerDigest |-> headerDigest, shareMultiplier |-> shareMultiplier]

\* A Scrypt coin of coins.go: DoubleSha256 coinbase, ScryptDigest header,
\* share multiplier 65536.
ScryptCoin(name) == Coin(name, "DoubleSha256", "ScryptDigest", 65536)

\* Dogecoin and Litecoin are returned by GetChain but defined outside src/;
\* spec 4.2: both are Scrypt-family.
Dogecoin == ScryptCoin("dogecoin")
Litecoin == ScryptCoin("litecoin")

\* The coin types of coins.go, one per ChainName/.../MinimumConfirmations group.
Bellscoin == ScryptCoin("bellscoin")
Pepecoin == ScryptCoin("pepecoin")
Luckycoin == ScryptCoin("luckycoin")
Junkcoin == ScryptCoin("junkcoin")
Dingocoin == ScryptCoin("dingocoin")
Dogmcoin == ScryptCoin("dogmcoin")
Craftcoin == ScryptCoin("craftcoin")
Newyorkcoin == ScryptCoin("newyorkcoin")
Earthcoin == ScryptCoin("earthcoin")
Worldcoin == ScryptCoin("worldcoin")
Shibacoin == ScryptCoin("shibacoin")
Beerscoin == ScryptCoin("beerscoin")
Dogecoinev == ScryptCoin("dogecoinev")
Bonkcoin == ScryptCoin("bonkcoin")
Flincoin == ScryptCoin("flincoin")
Marscoin == ScryptCoin("marscoin")
BBQcoin == ScryptCoin("bbqcoin")
Goldcoin == ScryptCoin("goldcoin")
Catcoin == ScryptCoin("catcoin")
Cyberyen == ScryptCoin("cyberyen")
Infinitecoin == ScryptCoin("infinitecoin")
IBithub == ScryptCoin("ibithub")
Newenglandcoin == ScryptCoin("newenglandcoin")
Bitbar == ScryptCoin("bitbar")
Ferrite == ScryptCoin("ferrite")
Flopcoin == ScryptCoin("flopcoin")
Stohncoin == ScryptCoin("stohncoin")
Sorachancoin == ScryptCoin("sorachancoin")
Mooncoin == ScryptCoin("mooncoin")
Fairbrix == ScryptCoin("fairbrix")
Lebowskiscoin == ScryptCoin("lebowskiscoin")
Bit == ScryptCoin("bit")
Trumpow == ScryptCoin("trumpow")
Mydogecoin == ScryptCoin("mydogecoin")

\* The cases of the switch in GetChain, in order: name and returned type.
ChainCases ==
    << <<"dogecoin", Dogecoin>>, <<"litecoin", Litecoin>>,
       <<"bellscoin", Bellscoin>>, <<"pepecoin", Pepecoin>>,
       <<"luckycoin", Luckycoin>>, <<"junkcoin", Junkcoin>>,
       <<"dingocoin", Dingocoin>>, <<"dogmcoin", Dogmcoin>>,
       <<"craftcoin", Craftcoin>>, <<"newyorkcoin", Newyorkcoin>>,
       <<"earthcoin", Earthcoin>>, <<"worldcoin", Worldcoin>>,
       <<"shibacoin", Shibacoin>>, <<"beerscoin", Beerscoin>>,
       <<"dogecoinev", Dogecoinev>>, <<"bonkcoin", Bonkcoin>>,
       <<"flincoin", Flincoin>>, <<"marscoin", Marscoin>>,
       <<"bbqcoin", BBQcoin>>, <<"goldcoin", Goldcoin>>,
       <<"catcoin", Catcoin>>, <<"cyberyen", Cyberyen>>,
       <<"infinitecoin", Infinitecoin>>, <<"ibithub", IBithub>>,
       <<"newenglandcoin", Newenglandcoin>>, <<"bitbar", Bitbar>>,
       <<"ferrite", Ferrite>>, <<"flopcoin", Flopcoin>>,
       <<"stohncoin", Stohncoin>>, <<"sorachancoin", Sorachancoin>>,
       <<"mooncoin", Mooncoin>>, <<"fairbrix", Fairbrix>>,
       <<"lebowskiscoin", Lebowskiscoin>>, <<"bit", Bit>>,
       <<"trumpow", Trumpow>>, <<"mydogecoin", Mydogecoin>> >>

RegisteredChains == {ChainCases[i][1] : i \in DOMAIN ChainCases}

\* GetChain(chainName) reaches the default branch: panic("Unknown
\* blockchain: " + chainName), which ends the process.
GetChainPanics(chainName) == chainName \notin RegisteredChains

\* The record of the first case whose label is chainName.
GetChain(chainName) ==
    LET i == CHOOSE k \in DOMAIN ChainCases :
                 /\ ChainCases[k][1] = chainName
                 /\ \A j \in 1..(k - 1) : ChainCases[j][1] # chainName
    IN ChainCases[i][2]
=============================================================================
