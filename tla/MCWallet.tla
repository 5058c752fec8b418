------------------------------ MODULE MCWallet ------------------------------
(* Small instances of Wallet: webhook and bot sessions on one wallet.      *)
EXTENDS Wallet

CONSTANTS w1, w2, b1, b2   \* two webhook requests, two Telegram updates
=============================================================================
