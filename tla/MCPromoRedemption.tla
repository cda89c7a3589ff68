------------------------- MODULE MCPromoRedemption -------------------------
(* PromoRedemption with four attempts of three wallets: more wallets than  *)
(* the code has slots, and one wallet that tries twice.                    *)
EXTENDS PromoRedemption

CONSTANTS a1, a2, b, c, wa, wb, wc

MCRequest  == {a1, a2, b, c}
MCWallet   == {wa, wb, wc}
MCWalletOf == [r \in MCRequest |-> CASE r = b -> wb [] r = c -> wc [] OTHER -> wa]
=============================================================================
