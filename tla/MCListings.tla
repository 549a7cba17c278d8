----------------------------- MODULE MCListings -----------------------------
(* Small instance of Listings for TLC. *)
EXTENDS Listings
=============================================================================
