------------------------ MODULE MCBrokerSupervision ------------------------
(***************************************************************************)
(* Three client objects, so that one is current while two are still        *)
(* closing, and a main queue of three blocks, enough for a success, its    *)
(* loss and the report of a replaced client to wait at the same time.      *)
(***************************************************************************)
EXTENDS BrokerSupervision
=============================================================================
