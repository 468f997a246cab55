---------------------------- MODULE MCChainByKey ----------------------------
EXTENDS ChainByKey
CONSTANTS btc, eth
MCKeys == {btc, eth}
=============================================================================
