------------------------------ MODULE Requests ------------------------------
(***************************************************************************)
(* The requests the coordinator handles, and the device each authenticated *)
(* as: what the admission control and the wake registry of api/wake.rs are *)
(* both keyed by.                                                          *)
(***************************************************************************)
CONSTANTS Device,   \* enrolled device pubkeys
          Req,      \* register requests the coordinator is handling
          Owner     \* the device a request authenticated as

ASSUME OwnerType == Owner \in [Req -> Device]
=============================================================================
