------------------------------- MODULE Option -------------------------------
(* The absent value of Rust's Option, one for all components that are        *)
(* reasoned about together.                                                  *)
CONSTANT None
=============================================================================
