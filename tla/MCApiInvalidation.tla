-------------------------- MODULE MCApiInvalidation --------------------------
(* ApiInvalidation for TLC, with the constants of api.cfg.                  *)
EXTENDS ApiInvalidation
==============================================================================
