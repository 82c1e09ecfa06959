----------------------------- MODULE MCPromoCode -----------------------------
(* The instance of PromoCode that TLC explores. *)
EXTENDS PromoCode, TLC

CONSTANTS c1, c2, u1, u2, u3, w1, w2

\* Each code may be used once, c2 only on the first day.
MCMaxUses == [c \in Codes |-> 1]
MCDays == [c \in Codes |-> 1]
MCCodeExpires == [c \in Codes |-> IF c = c2 THEN 0 ELSE 5]
=============================================================================
