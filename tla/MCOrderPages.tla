----------------------------- MODULE MCOrderPages -----------------------------
(* Model checking of OrderPages: up to four orders with two creation times on *)
(* pages of two, so that a page ends between orders of the same time; lists   *)
(* that end with the limit, with the last page and with an empty one.         *)
EXTENDS OrderPages

MCAsks == {{}, {"pending", "partially_filled"}, {"expired", "rejected", "pending"},
           {"open"}, {"filled", "canceled"}, {"unspecified"}}
===============================================================================
